------------------------------ MODULE CodecProofs ------------------------------
(***************************************************************************)
(* Theorems about the pure functions that MCCodecs runs through: headers   *)
(* that arrive byte by byte and texts of any length, over any bytes.       *)
(***************************************************************************)
EXTENDS MCCodecs, Utf8Proofs

-------------------------------------------------------------------------------
(* The bytes so far *)

\* The bytes of the upper half of a long length that a header is given.
LongLength ==
  buf[2] % 128 = 127 => /\ 2 < Len(buf) => buf[3] \in {0, 128}
                        /\ \A i \in 4..6 : i <= Len(buf) => buf[i] = 0

\* A header grows only as long as the decoder asks for more.
CodecInv ==
  /\ kind \in {"header", "text", "string", "config"}
  /\ kind \in {"header", "text", "string"} => buf \in Seq(Byte)
  /\ kind = "config" /\ buf # << >> => \E c \in Configs : buf = <<c>>
  /\ kind = "header" => LongLength
  /\ kind = "header" /\ buf # << >> =>
       LET d == frame_decode(SubSeq(buf, 1, Len(buf) - 1)) IN d.err = 0 /\ d.delta < 0

\* It holds in the beginning.
LEMMA CodecInitially == Init => CodecInv
BY DEF Init, CodecInv, LongLength

\* A byte more.
LEMMA OneByteMore ==
  ASSUME NEW s \in Seq(Byte), NEW b \in Byte
  PROVE  /\ Append(s, b) \in Seq(Byte)
         /\ Len(Append(s, b)) = Len(s) + 1
         /\ Append(s, b) # << >>
         /\ Append(s, b)[Len(s) + 1] = b
         /\ \A i \in 1..Len(s) : Append(s, b)[i] = s[i]
         /\ SubSeq(Append(s, b), 1, Len(s)) = s
<1> DEFINE t == Append(s, b)
<1>1. t \in Seq(Byte) /\ Len(t) = Len(s) + 1 /\ t # << >> /\ t[Len(s) + 1] = b
      /\ \A i \in 1..Len(s) : t[i] = s[i]
  OBVIOUS
<1>2. SubSeq(t, 1, Len(s)) = s
  OBVIOUS
<1> QED BY <1>1, <1>2

\* The bytes that a header may be given are bytes.
LEMMA NextAreBytes ==
  ASSUME buf \in Seq(Byte)
  PROVE  NextBytes \subseteq Byte
<1>1. FirstBytes \subseteq Byte /\ SecondBytes \subseteq Byte
  BY BytesAssumption
<1>2. \A x \in {0, 1, 2, 7, 125, 126, 128, 255} : x \in Byte
  BY DEF Byte
<1>3. Len(buf) \in Nat
  OBVIOUS
<1> QED BY <1>1, <1>2, <1>3 DEF NextBytes

\* Every step keeps it.
LEMMA CodecNext ==
  ASSUME CodecInv, Next
  PROVE  CodecInv'
<1>1. kind' = kind
  BY DEF Next
<1>2. CASE HeaderByte
  <2>1. kind = "header" /\ Undecided /\ buf \in Seq(Byte)
    BY <1>2 DEF HeaderByte, CodecInv
  <2>2. PICK b \in NextBytes : buf' = Append(buf, b)
    BY <1>2 DEF HeaderByte
  <2>3. b \in Byte
    BY <2>1, NextAreBytes
  <2>4. /\ buf' \in Seq(Byte) /\ Len(buf') = Len(buf) + 1
        /\ buf' # << >>
        /\ buf'[Len(buf) + 1] = b
        /\ \A i \in 1..Len(buf) : buf'[i] = buf[i]
        /\ SubSeq(buf', 1, Len(buf)) = buf
    BY <2>1, <2>2, <2>3, OneByteMore
  <2>5. SubSeq(buf', 1, Len(buf') - 1) = buf
    BY <2>1, <2>4
  <2>6. LongLength'
    <3>1. LongLength /\ Len(buf) \in Nat
      BY <2>1 DEF CodecInv
    <3>2. CASE Len(buf) < 2
      BY <2>4, <3>1, <3>2 DEF LongLength
    <3>3. CASE 2 <= Len(buf)
      <4>1. buf'[2] = buf[2]
        BY <2>4, <3>1, <3>3
      <4> SUFFICES ASSUME buf[2] % 128 = 127
                   PROVE  /\ 2 < Len(buf') => buf'[3] \in {0, 128}
                          /\ \A i \in 4..6 : i <= Len(buf') => buf'[i] = 0
        BY <4>1 DEF LongLength
      <4>2. /\ Len(buf) = 2 => b \in {0, 128}
            /\ Len(buf) + 1 \in 4..6 => b = 0
        <5> DEFINE n == Len(buf) + 1
                   m == buf[2] % 128
        <5>1. n = 3 /\ m = 127 => NextBytes = {0, 128}
          BY DEF NextBytes
        <5>2. ASSUME n = 4 \/ n = 5 \/ n = 6, m = 127 PROVE NextBytes = {0}
          BY <5>2 DEF NextBytes
        <5>3. m = 127 /\ n \in Nat
          BY <3>1
        <5>4. n \in 4..6 => n = 4 \/ n = 5 \/ n = 6
          BY <5>3
        <5>5. Len(buf) = 2 => n = 3
          OBVIOUS
        <5>6. b \in NextBytes
          OBVIOUS
        <5> HIDE DEF m
        <5>7. n = 3 => b \in {0, 128}
          BY <5>1, <5>3, <5>6
        <5>8. n \in 4..6 => b = 0
          BY <5>2, <5>3, <5>4, <5>6
        <5> QED BY <5>5, <5>7, <5>8
      <4>3. /\ 2 < Len(buf) => buf[3] \in {0, 128}
            /\ \A i \in 4..6 : i <= Len(buf) => buf[i] = 0
        BY <3>1 DEF LongLength
      <4>4. 2 < Len(buf') => buf'[3] \in {0, 128}
        BY <2>4, <3>1, <3>3, <4>2, <4>3
      <4>5. ASSUME NEW i \in 4..6, i <= Len(buf') PROVE buf'[i] = 0
        <5>1. CASE i <= Len(buf)
          BY <2>4, <3>1, <4>3, <4>5, <5>1
        <5>2. CASE ~(i <= Len(buf))
          BY <2>4, <3>1, <4>2, <4>5, <5>2
        <5> QED BY <5>1, <5>2
      <4> QED BY <4>4, <4>5
    <3> QED BY <3>1, <3>2, <3>3
  <2> QED BY <1>1, <2>1, <2>4, <2>5, <2>6 DEF CodecInv, Undecided
<1>3. CASE TextByte
  <2>1. PICK b \in TextBytes : buf' = Append(buf, b)
    BY <1>3 DEF TextByte
  <2>2. kind = "text" /\ buf \in Seq(Byte) /\ b \in Byte
    BY <1>3, BytesAssumption DEF TextByte, CodecInv
  <2>3. buf' \in Seq(Byte)
    BY <2>1, <2>2, OneByteMore
  <2> QED BY <1>1, <2>2, <2>3 DEF CodecInv
<1>4. CASE StringByte
  <2>1. PICK b \in StringBytes : buf' = Append(buf, b)
    BY <1>4 DEF StringByte
  <2>2. kind = "string" /\ buf \in Seq(Byte) /\ b \in Byte
    BY <1>4, BytesAssumption DEF StringByte, CodecInv
  <2>3. buf' \in Seq(Byte)
    BY <2>1, <2>2, OneByteMore
  <2> QED BY <1>1, <2>2, <2>3 DEF CodecInv
<1>5. CASE Config
  BY <1>1, <1>5 DEF Config, CodecInv
<1>6. CASE Again
  BY <1>1, <1>6 DEF Again, CodecInv, LongLength
<1> QED BY <1>2, <1>3, <1>4, <1>5, <1>6 DEF Next

\* The invariant holds always.
LEMMA CodecInvariant == Spec => []CodecInv
<1>1. CodecInv /\ UNCHANGED <<kind, buf>> => CodecInv'
  BY DEF CodecInv, LongLength
<1> QED BY <1>1, CodecInitially, CodecNext, PTL DEF Spec

-------------------------------------------------------------------------------
(* Headers *)

\* The parts of the first two bytes, the bytes without and with the masking key, and
\* what frame_decode refuses.
Len7(s)      == s[2] % 128
MaskBit(s)   == s[2] \div 128
Body(s)      == WS_FRAME_HEADER_MIN + ext_len_bytes(Len7(s))
All(s)       == Body(s) + MaskBit(s) * WS_FRAME_HEADER_MASK
Length(s)    == payload_length(s, Len7(s))
BadOpcode(s) == (s[1] \div 16) % 8 # 0 \/ s[1] % 16 \notin DataOpcodes \cup ControlOpcodes
BadLength(s) == \/ Len7(s) = 126 /\ Length(s) < 126
                \/ Len7(s) = 127 /\ s[3] >= 128
                \/ Len7(s) = 127 /\ Length(s) <= UINT16_MAX

\* The frame of a whole header.
FrameOf(s) == [err |-> 0, delta |-> All(s), fin |-> s[1] >= 128, opcode |-> s[1] % 16,
               is_control |-> s[1] % 16 \in ControlOpcodes, mask |-> MaskBit(s),
               payload_len |-> Length(s)]

\* More bytes are needed.
AsksMore(s) == frame_decode(s).err = 0 /\ frame_decode(s).delta < 0

\* frame_decode, in these terms.
LEMMA Decoding ==
  ASSUME NEW s \in Seq(Byte)
  PROVE  LET d == frame_decode(s)
         IN  /\ Len(s) < 2 => d = NeedMore(Len(s) - 2)
             /\ 2 <= Len(s) /\ BadOpcode(s) => d.err # 0
             /\ 2 <= Len(s) /\ ~BadOpcode(s) /\ Len(s) < Body(s) => d = NeedMore(Len(s) - Body(s))
             /\ 2 <= Len(s) /\ ~BadOpcode(s) /\ ~(Len(s) < Body(s)) =>
                  /\ BadLength(s) => d.err # 0
                  /\ ~BadLength(s) /\ Len(s) < All(s) => d = NeedMore(Len(s) - All(s))
                  /\ ~BadLength(s) /\ ~(Len(s) < All(s)) => d = FrameOf(s)
<1> DEFINE d == frame_decode(s)
<1>1. Len(s) \in Nat
  OBVIOUS
<1>2. Len(s) < 2 => d = NeedMore(Len(s) - 2)
  BY DEF frame_decode, WS_FRAME_HEADER_MIN
<1>3. ASSUME 2 <= Len(s), BadOpcode(s) PROVE d.err # 0
  <2>1. d = DecodeError(-1) \/ d = DecodeError(-2)
    BY <1>1, <1>3 DEF frame_decode, WS_FRAME_HEADER_MIN, BadOpcode
  <2> QED BY <2>1 DEF DecodeError
<1>4. ASSUME 2 <= Len(s), ~BadOpcode(s), Len(s) < Body(s) PROVE d = NeedMore(Len(s) - Body(s))
  BY <1>1, <1>4 DEF frame_decode, WS_FRAME_HEADER_MIN, BadOpcode, Body, Len7
<1>5. ASSUME 2 <= Len(s), ~BadOpcode(s), ~(Len(s) < Body(s)), BadLength(s) PROVE d.err # 0
  <2>1. d = DecodeError(-3) \/ d = DecodeError(-4) \/ d = DecodeError(-5)
    BY <1>1, <1>5 DEF frame_decode, WS_FRAME_HEADER_MIN, BadOpcode, Body, Len7, BadLength, Length
  <2> QED BY <2>1 DEF DecodeError
<1>6. ASSUME 2 <= Len(s), ~BadOpcode(s), ~(Len(s) < Body(s)), ~BadLength(s), Len(s) < All(s)
      PROVE  d = NeedMore(Len(s) - All(s))
  BY <1>1, <1>6
     DEF frame_decode, WS_FRAME_HEADER_MIN, BadOpcode, Body, Len7, BadLength, Length, All, MaskBit
<1>7. ASSUME 2 <= Len(s), ~BadOpcode(s), ~(Len(s) < Body(s)), ~BadLength(s), ~(Len(s) < All(s))
      PROVE  d = FrameOf(s)
  BY <1>1, <1>7
     DEF frame_decode, WS_FRAME_HEADER_MIN, BadOpcode, Body, Len7, BadLength, Length, All, MaskBit,
         FrameOf
<1> QED BY <1>2, <1>3, <1>4, <1>5, <1>6, <1>7

\* An element of a sequence of bytes.
LEMMA ByteAt ==
  ASSUME NEW s \in Seq(Byte), NEW i \in Nat, 0 < i, i <= Len(s)
  PROVE  s[i] \in Byte
<1>1. i \in 1..Len(s)
  BY LenProperties
<1> QED BY <1>1, ElementOfSeq

\* The parts of a byte.
LEMMA ByteParts ==
  ASSUME NEW b \in Byte
  PROVE  b % 128 \in 0..127 /\ b \div 128 \in 0..1
BY DEF Byte

\* The second byte of a masked header, and the first byte without reserved bits.
LEMMA FirstTwoBytes ==
  ASSUME NEW b \in Byte
  PROVE  /\ b \div 128 = 1 => b = 128 + (b % 128)
         /\ (b \div 16) % 8 = 0 => b = (IF b >= 128 THEN 128 ELSE 0) + (b % 16)
<1>a. b \in 0..255
  BY DEF Byte
<1>1. b \div 128 = 1 => b = 128 + (b % 128)
  BY <1>a
<1>2. CASE b >= 128
  <2>1. b = 16 * (b \div 16) + (b % 16) /\ b \div 16 \in 8..15 /\ b % 16 \in 0..15
    BY <1>a, <1>2
  <2>2. (b \div 16) % 8 = (b \div 16) - 8
    BY <2>1
  <2> QED BY <1>a, <1>1, <1>2, <2>1, <2>2
<1>3. CASE ~(b >= 128)
  <2>1. b = 16 * (b \div 16) + (b % 16) /\ b \div 16 \in 0..7 /\ b % 16 \in 0..15
    BY <1>a, <1>3
  <2>2. (b \div 16) % 8 = b \div 16
    BY <2>1
  <2> QED BY <1>a, <1>1, <1>3, <2>1, <2>2
<1> QED BY <1>2, <1>3

\* The numbers that are written as two and as four bytes.
Number2(a, b)       == a * 256 + b
Number4(a, b, c, d) == (a * 256 + b) * 65536 + c * 256 + d

\* Bytes2 takes the first apart ...
LEMMA TwoBytes ==
  ASSUME NEW a \in Byte, NEW b \in Byte
  PROVE  /\ (Number2(a, b) \div 256) % 256 = a
         /\ Number2(a, b) % 256 = b
<1>1. (a * 256 + b) \div 256 = a /\ a % 256 = a
  BY DEF Byte
<1>2. (a * 256 + b) % 256 = b
  BY DEF Byte
<1> QED BY SMT, <1>1, <1>2 DEF Number2

\* ... and Bytes8 the second.
LEMMA FourBytesOfLength ==
  ASSUME NEW a \in Byte, NEW b \in Byte, NEW c \in Byte, NEW d \in Byte
  PROVE  LET n == Number4(a, b, c, d)
         IN  /\ n \in Nat
             /\ (n \div 16777216) % 256 = a
             /\ (n \div 65536) % 256 = b
             /\ (n \div 256) % 256 = c
             /\ n % 256 = d
<1> DEFINE n == (a * 256 + b) * 65536 + c * 256 + d
<1>1. n \div 16777216 = a
  BY DEF Byte
<1>2. n \div 65536 = a * 256 + b
  BY DEF Byte
<1>3. n \div 256 = (a * 256 + b) * 256 + c
  BY DEF Byte
<1>4. n % 256 = d
  BY DEF Byte
<1>5. (a * 256 + b) % 256 = b
  BY DEF Byte
<1>6. ((a * 256 + b) * 256 + c) % 256 = c
  BY DEF Byte
<1>7. n \in Nat /\ a % 256 = a
  BY DEF Byte
<1>8. Number4(a, b, c, d) = n
  BY DEF Number4
<1> HIDE DEF n
<1>9. (n \div 16777216) % 256 = a
  BY SMT, <1>1, <1>7
<1>10. (n \div 65536) % 256 = b
  BY SMT, <1>2, <1>5
<1>11. (n \div 256) % 256 = c
  BY SMT, <1>3, <1>6
<1> QED BY SMT, <1>4, <1>7, <1>8, <1>9, <1>10, <1>11

\* Both are numbers.
LEMMA NumbersAreNat ==
  /\ \A a, b \in Byte : Number2(a, b) \in Nat /\ Number2(a, b) <= UINT16_MAX
  /\ \A a, b, c, d \in Byte : Number4(a, b, c, d) \in Nat
<1>1. ASSUME NEW a \in Byte, NEW b \in Byte
      PROVE  Number2(a, b) \in Nat /\ Number2(a, b) <= UINT16_MAX
  BY SMT DEF Number2, UINT16_MAX, Byte
<1>2. ASSUME NEW a \in Byte, NEW b \in Byte, NEW c \in Byte, NEW d \in Byte
      PROVE  Number4(a, b, c, d) \in Nat
  BY SMT DEF Number4, Byte
<1> QED BY <1>1, <1>2

\* Eight bytes of which the upper four are 0 are the number of the lower four.
LEMMA UpperHalfZero ==
  ASSUME NEW s, s[3] = 0, s[4] = 0, s[5] = 0, s[6] = 0,
         s[7] \in Byte, s[8] \in Byte, s[9] \in Byte, s[10] \in Byte
  PROVE  Value8(s) = Number4(s[7], s[8], s[9], s[10])
<1>1. ASSUME NEW a \in Byte, NEW b \in Byte, NEW c \in Byte, NEW d \in Byte
      PROVE  ((0 * 65536 + 0) * 65536 + (a * 256 + b)) * 65536 + (c * 256 + d)
               = (a * 256 + b) * 65536 + c * 256 + d
  BY SMT DEF Byte
<1>2. Value8(s) = ((0 * 65536 + 0) * 65536 + (s[7] * 256 + s[8])) * 65536 + (s[9] * 256 + s[10])
  <2>1. s[3] * 256 + s[4] = 0 /\ s[5] * 256 + s[6] = 0
    BY SMT
  <2> QED BY SMT, <2>1 DEF Value8
<1> QED BY SMT, <1>1, <1>2 DEF Number4

\* How long a header can be.
LEMMA Sizes ==
  ASSUME NEW s \in Seq(Byte), 2 <= Len(s)
  PROVE  /\ Len7(s) \in 0..127 /\ MaskBit(s) \in 0..1
         /\ Len7(s) = 126 => Body(s) = 4
         /\ Len7(s) = 127 => Body(s) = 10
         /\ Len7(s) # 126 /\ Len7(s) # 127 => Body(s) = 2
         /\ MaskBit(s) = 0 => All(s) = Body(s)
         /\ MaskBit(s) = 1 => All(s) = Body(s) + 4
         /\ Body(s) \in 2..10 /\ All(s) \in 2..14 /\ Body(s) <= All(s)
<1>1. s[2] \in Byte
  BY ByteAt
<1>2. Len7(s) \in 0..127 /\ MaskBit(s) \in 0..1
  BY <1>1, ByteParts DEF Len7, MaskBit
<1>3. /\ Len7(s) = 126 => Body(s) = 4
      /\ Len7(s) = 127 => Body(s) = 10
      /\ Len7(s) # 126 /\ Len7(s) # 127 => Body(s) = 2
  BY DEF Body, ext_len_bytes, WS_FRAME_HEADER_MIN
<1>4. Body(s) \in 2..10
  BY <1>2, <1>3
<1>5. (MaskBit(s) = 0 => All(s) = Body(s)) /\ (MaskBit(s) = 1 => All(s) = Body(s) + 4)
  BY <1>4 DEF All, WS_FRAME_HEADER_MASK
<1> QED BY <1>2, <1>3, <1>4, <1>5

\* The first bytes of a header say the same as the header, as far as they go.
LEMMA Prefixed ==
  ASSUME NEW s \in Seq(Byte), NEW k \in 2..Len(s)
  PROVE  LET p == SubSeq(s, 1, k)
         IN  /\ p \in Seq(Byte) /\ Len(p) = k
             /\ Body(p) = Body(s) /\ All(p) = All(s) /\ (BadOpcode(p) <=> BadOpcode(s))
             /\ Body(s) <= k => (BadLength(p) <=> BadLength(s))
<1> DEFINE p == SubSeq(s, 1, k)
<1>1. p \in Seq(Byte) /\ Len(p) = k /\ \A i \in 1..k : p[i] = s[i]
  OBVIOUS
<1>2. p[1] = s[1] /\ p[2] = s[2]
  BY <1>1
<1> HIDE DEF p
<1>3. Len7(p) = Len7(s) /\ Body(p) = Body(s) /\ All(p) = All(s) /\ (BadOpcode(p) <=> BadOpcode(s))
  BY <1>2 DEF Len7, Body, All, MaskBit, BadOpcode
<1>4. ASSUME Body(s) <= k PROVE BadLength(p) <=> BadLength(s)
  <2>1. 2 <= Len(s)
    OBVIOUS
  <2>2. Len7(s) = 126 => p[3] = s[3] /\ p[4] = s[4]
    BY <1>1, <1>4, <2>1, Sizes
  <2>3. Len7(s) = 127 => \A i \in 3..10 : p[i] = s[i]
    BY <1>1, <1>4, <2>1, Sizes
  <2>4. Len7(s) = 127 => Value8(p) = Value8(s)
    BY <2>3 DEF Value8
  <2>5. Length(p) = Length(s)
    BY <1>3, <2>2, <2>4 DEF Length, payload_length
  <2>6. Len7(s) = 127 => p[3] = s[3]
    BY <2>3
  <2> QED BY <1>3, <2>5, <2>6 DEF BadLength
<1> QED BY <1>1, <1>3, <1>4 DEF p

\* What is decided has its body, or was refused before.
LEMMA Decided ==
  ASSUME NEW s \in Seq(Byte)
  PROVE  /\ ~AsksMore(s) => 2 <= Len(s) /\ (~BadOpcode(s) => Body(s) <= Len(s)
                                             /\ (~BadLength(s) => All(s) <= Len(s)))
         /\ AsksMore(s) => \/ Len(s) < 2 /\ frame_decode(s).delta = Len(s) - 2
                           \/ /\ 2 <= Len(s) /\ ~BadOpcode(s) /\ Len(s) < Body(s)
                              /\ frame_decode(s).delta = Len(s) - Body(s)
                           \/ /\ 2 <= Len(s) /\ ~BadOpcode(s) /\ Body(s) <= Len(s)
                              /\ ~BadLength(s) /\ Len(s) < All(s)
                              /\ frame_decode(s).delta = Len(s) - All(s)
<1> DEFINE d == frame_decode(s)
<1>1. Len(s) \in Nat
  OBVIOUS
<1>2. \A x : NeedMore(x).err = 0 /\ NeedMore(x).delta = x
  BY DEF NeedMore
<1>3. FrameOf(s).delta = All(s)
  BY DEF FrameOf
<1>4. 2 <= Len(s) => Body(s) \in 2..10 /\ All(s) \in 2..14
  BY Sizes
<1>5. CASE Len(s) < 2
  BY <1>1, <1>2, <1>5, Decoding DEF AsksMore
<1>6. CASE 2 <= Len(s)
  <2>1. CASE BadOpcode(s)
    BY <1>6, <2>1, Decoding DEF AsksMore
  <2>2. CASE ~BadOpcode(s) /\ Len(s) < Body(s)
    BY <1>1, <1>2, <1>4, <1>6, <2>2, Decoding DEF AsksMore
  <2>3. CASE ~BadOpcode(s) /\ ~(Len(s) < Body(s)) /\ BadLength(s)
    BY <1>1, <1>4, <1>6, <2>3, Decoding DEF AsksMore
  <2>4. CASE ~BadOpcode(s) /\ ~(Len(s) < Body(s)) /\ ~BadLength(s) /\ Len(s) < All(s)
    BY <1>1, <1>2, <1>4, <1>6, <2>4, Decoding DEF AsksMore
  <2>5. CASE ~BadOpcode(s) /\ ~(Len(s) < Body(s)) /\ ~BadLength(s) /\ ~(Len(s) < All(s))
    <3>1. d = FrameOf(s)
      BY <1>6, <2>5, Decoding
    <3> QED BY <1>1, <1>3, <1>4, <1>6, <2>5, <3>1 DEF AsksMore
  <2> QED BY <2>1, <2>2, <2>3, <2>4, <2>5
<1> QED BY <1>1, <1>5, <1>6

\* An accepted header is used to its last byte.
LEMMA AcceptedWhole ==
  ASSUME CodecInv, kind = "header", Accepted
  PROVE  /\ buf \in Seq(Byte) /\ 2 <= Len(buf) /\ Len(buf) = All(buf)
         /\ ~BadOpcode(buf) /\ ~BadLength(buf)
         /\ frame_decode(buf) = FrameOf(buf)
<1> DEFINE p == SubSeq(buf, 1, Len(buf) - 1)
<1>1. buf \in Seq(Byte) /\ Len(buf) \in Nat
  BY DEF CodecInv
<1>2. ~AsksMore(buf)
  <2>1. ~(0 < frame_decode(buf).delta /\ frame_decode(buf).delta < 0)
    <3>1. CASE AsksMore(buf)
      <4>1. frame_decode(buf).delta \in Int
        BY <1>1, <3>1, Decided, Sizes
      <4> QED BY <4>1
    <3>2. CASE ~AsksMore(buf)
      BY <3>2 DEF AsksMore, Accepted
    <3> QED BY <3>1, <3>2
  <2> QED BY <2>1 DEF AsksMore, Accepted
<1>3. 2 <= Len(buf)
  BY <1>1, <1>2, Decided
<1>4. ~BadOpcode(buf) /\ ~BadLength(buf) /\ All(buf) <= Len(buf) /\ Body(buf) <= Len(buf)
  <2>1. frame_decode(buf).err = 0
    BY DEF Accepted
  <2>2. ~BadOpcode(buf)
    BY <1>1, <1>3, <2>1, Decoding
  <2>3. Body(buf) <= Len(buf)
    BY <1>1, <1>2, <2>2, Decided
  <2>4. ~BadLength(buf)
    BY <1>1, <1>3, <2>1, <2>2, <2>3, Sizes, Decoding
  <2> QED BY <1>1, <1>2, <2>2, <2>3, <2>4, Decided
<1>5. All(buf) \in 2..14 /\ Body(buf) \in 2..10 /\ Body(buf) <= All(buf)
  BY <1>1, <1>3, Sizes
<1>6. frame_decode(buf) = FrameOf(buf)
  BY <1>1, <1>3, <1>4, <1>5, Decoding
<1>7. AsksMore(p)
  BY <1>1, <1>3 DEF CodecInv, AsksMore
<1>8. ~(All(buf) <= Len(buf) - 1)
  <2> SUFFICES ASSUME All(buf) <= Len(buf) - 1 PROVE FALSE
    OBVIOUS
  <2>1. Len(buf) - 1 \in 2..Len(buf)
    BY <1>1, <1>5
  <2>2. /\ p \in Seq(Byte) /\ Len(p) = Len(buf) - 1
        /\ Body(p) = Body(buf) /\ All(p) = All(buf)
    BY <1>1, <2>1, Prefixed
  <2> HIDE DEF p
  <2>3. \/ Len(p) < 2 \/ Len(p) < Body(p) \/ Len(p) < All(p)
    BY <1>7, <2>2, Decided
  <2> QED BY SMTT(30), <1>1, <1>5, <2>2, <2>3
<1>9. Len(buf) = All(buf)
  BY <1>1, <1>4, <1>5, <1>8
<1> QED BY <1>1, <1>3, <1>4, <1>6, <1>9

\* The length of an accepted header in its short form ...
LEMMA ShortForm ==
  ASSUME CodecInv, kind = "header", Accepted, Len7(buf) # 126, Len7(buf) # 127
  PROVE  Length(buf) = Len7(buf) /\ Length(buf) \in 0..125
<1>1. Len7(buf) \in 0..127
  BY AcceptedWhole, Sizes
<1>2. Length(buf) = Len7(buf)
  BY DEF Length, payload_length
<1>3. \A n \in 0..127 : n # 126 /\ n # 127 => n \in 0..125
  OBVIOUS
<1> QED BY <1>1, <1>2, <1>3

\* ... in the one of two bytes ...
LEMMA MiddleForm ==
  ASSUME CodecInv, kind = "header", Accepted, Len7(buf) = 126
  PROVE  /\ buf[3] \in Byte /\ buf[4] \in Byte
         /\ Length(buf) = Number2(buf[3], buf[4])
         /\ Length(buf) \in Nat /\ ~(Length(buf) < 126) /\ Length(buf) <= UINT16_MAX
<1>1. buf \in Seq(Byte) /\ 4 <= Len(buf)
  BY AcceptedWhole, Sizes
<1>2. buf[3] \in Byte /\ buf[4] \in Byte
  BY <1>1, ByteAt
<1>3. Length(buf) = Number2(buf[3], buf[4])
  BY DEF Length, payload_length, Number2
<1>4. Number2(buf[3], buf[4]) \in Nat /\ Number2(buf[3], buf[4]) <= UINT16_MAX
  BY <1>2, NumbersAreNat
<1>5. ~(Length(buf) < 126)
  BY AcceptedWhole DEF BadLength
<1> QED BY <1>2, <1>3, <1>4, <1>5

\* ... and in the one of eight, of which the upper four are 0.
LEMMA LongForm ==
  ASSUME CodecInv, kind = "header", Accepted, Len7(buf) = 127
  PROVE  /\ \A i \in 3..10 : buf[i] \in Byte
         /\ buf[3] = 0 /\ buf[4] = 0 /\ buf[5] = 0 /\ buf[6] = 0
         /\ Length(buf) = Number4(buf[7], buf[8], buf[9], buf[10])
         /\ Length(buf) \in Nat /\ ~(Length(buf) <= UINT16_MAX)
<1>1. buf \in Seq(Byte) /\ 10 <= Len(buf)
  BY AcceptedWhole, Sizes
<1>2. ASSUME NEW i \in 3..10 PROVE buf[i] \in Byte
  <2>1. i \in Nat /\ 0 < i /\ i <= Len(buf)
    BY <1>1
  <2> QED BY <1>1, <2>1, ByteAt
<1>3. buf[3] = 0
  <2>1. buf[3] \in {0, 128}
    BY <1>1 DEF CodecInv, LongLength, Len7
  <2>2. ~(buf[3] >= 128)
    BY AcceptedWhole DEF BadLength
  <2> QED BY <2>1, <2>2
<1>4. buf[4] = 0 /\ buf[5] = 0 /\ buf[6] = 0
  <2>1. \A i \in 4..6 : i <= Len(buf) => buf[i] = 0
    BY DEF CodecInv, LongLength, Len7
  <2>2. 4 <= Len(buf) /\ 5 <= Len(buf) /\ 6 <= Len(buf)
    BY <1>1
  <2> QED BY <2>1, <2>2
<1>5. Length(buf) = Value8(buf)
  BY DEF Length, payload_length
<1>6. buf[7] \in Byte /\ buf[8] \in Byte /\ buf[9] \in Byte /\ buf[10] \in Byte
  BY <1>2
<1>7. Value8(buf) = Number4(buf[7], buf[8], buf[9], buf[10])
  BY <1>3, <1>4, <1>6, UpperHalfZero
<1>8. Number4(buf[7], buf[8], buf[9], buf[10]) \in Nat
  BY <1>6, NumbersAreNat
<1>9. ~(Length(buf) <= UINT16_MAX)
  BY AcceptedWhole DEF BadLength
<1> QED BY <1>2, <1>3, <1>4, <1>5, <1>7, <1>8, <1>9

\* The length that is accepted is a number.
LEMMA LengthIsNat ==
  ASSUME CodecInv, kind = "header", Accepted
  PROVE  Length(buf) \in Nat
<1>1. \A n \in 0..125 : n \in Nat
  OBVIOUS
<1> QED BY <1>1, ShortForm, MiddleForm, LongForm

\* frame_encode needs for a frame as many bytes as the header takes that was accepted.
LEMMA EncodedSize ==
  ASSUME CodecInv, kind = "header", Accepted, MaskBit(buf) = 1
  PROVE  encoded_header_len(Length(buf)) = All(buf) /\ 6 <= All(buf)
<1>1. buf \in Seq(Byte) /\ 2 <= Len(buf)
  BY AcceptedWhole
<1>2. CASE Len7(buf) # 126 /\ Len7(buf) # 127
  <2>1. All(buf) = 6
    BY <1>1, <1>2, Sizes
  <2>2. Length(buf) \in 0..125
    BY <1>2, ShortForm
  <2> QED BY <2>1, <2>2 DEF encoded_header_len, WS_FRAME_HEADER_MIN, WS_FRAME_HEADER_MASK
<1>3. CASE Len7(buf) = 126
  <2>1. All(buf) = 8
    BY <1>1, <1>3, Sizes
  <2>2. Length(buf) \in Nat /\ ~(Length(buf) < 126) /\ Length(buf) <= UINT16_MAX
    BY <1>3, MiddleForm
  <2>3. ~(Length(buf) <= 125)
    BY <2>2
  <2> QED BY <2>1, <2>2, <2>3
          DEF encoded_header_len, WS_FRAME_HEADER_MIN, WS_FRAME_HEADER_MASK
<1>4. CASE Len7(buf) = 127
  <2>1. All(buf) = 14
    BY <1>1, <1>4, Sizes
  <2>2. Length(buf) \in Nat /\ ~(Length(buf) <= UINT16_MAX)
    BY <1>4, LongForm
  <2>3. ~(Length(buf) <= 125)
    BY <2>2 DEF UINT16_MAX
  <2> QED BY <2>1, <2>2, <2>3 DEF encoded_header_len, WS_FRAME_HEADER_MAX
<1> QED BY <1>2, <1>3, <1>4

\* frame_encode fails exactly if the frame does not fit, for every length below 2^32.
THEOREM EncodingFits == Spec => []EncodesIffItFits
<1>1. CodecInv => EncodesIffItFits
  <2> DEFINE f == frame_decode(buf)
  <2> SUFFICES ASSUME CodecInv, kind = "header", Accepted, f.mask = 1,
                      NEW slack \in {-9, -8, -1, 0, 1}
               PROVE  frame_encode(f.payload_len, f.delta + f.payload_len + slack)
                        = IF slack < 0 THEN 0 ELSE f.delta + f.payload_len
    BY DEF EncodesIffItFits
  <2>1. f.payload_len = Length(buf) /\ f.delta = All(buf) /\ f.mask = MaskBit(buf)
    BY AcceptedWhole DEF FrameOf
  <2> HIDE DEF f
  <2>2. Length(buf) \in Nat
    BY LengthIsNat
  <2>3. encoded_header_len(Length(buf)) = All(buf) /\ 6 <= All(buf)
    BY <2>1, EncodedSize
  <2>4. All(buf) \in Nat
    BY AcceptedWhole
  <2> QED BY <2>1, <2>2, <2>3, <2>4 DEF frame_encode, WS_FRAME_HEADER_MIN, WS_FRAME_HEADER_MASK
<1> QED BY <1>1, CodecInvariant, PTL

\* The byte counts that the decoder asks for are right or low.
LEMMA AsksForNoPayload ==
  ASSUME CodecInv, kind = "header"
  PROVE  AsksForHeaderBytesOnly
<1>1. buf \in Seq(Byte) /\ Len(buf) \in Nat
  BY DEF CodecInv
<1> SUFFICES ASSUME NEW k \in 0..Len(buf), AsksMore(SubSeq(buf, 1, k))
             PROVE  LET d == frame_decode(SubSeq(buf, 1, k))
                    IN  /\ k - d.delta <= 14
                        /\ ~AsksMore(buf) => k - d.delta <= Len(buf)
  BY DEF AsksForHeaderBytesOnly, AsksMore, Undecided, WS_FRAME_HEADER_MAX
<1> DEFINE p == SubSeq(buf, 1, k)
<1>2. p \in Seq(Byte) /\ Len(p) = k /\ k \in Nat
  BY <1>1
<1>3. 2 <= k =>
        /\ Body(p) = Body(buf) /\ All(p) = All(buf) /\ (BadOpcode(p) <=> BadOpcode(buf))
        /\ Body(buf) <= k => (BadLength(p) <=> BadLength(buf))
  <2>1. 2 <= k => k \in 2..Len(buf)
    BY <1>1
  <2> QED BY <1>1, <2>1, Prefixed
<1>4. AsksMore(p)
  OBVIOUS
<1> HIDE DEF p
<1>5. /\ k - frame_decode(p).delta <= 14
      /\ ~AsksMore(buf) => k - frame_decode(p).delta <= Len(buf)
  <2>1. CASE k < 2
    <3>1. frame_decode(p).delta = k - 2
      BY <1>2, <1>4, <2>1, Decided
    <3>2. ~AsksMore(buf) => 2 <= Len(buf)
      BY <1>1, Decided
    <3> QED BY <1>1, <1>2, <3>1, <3>2
  <2>2. CASE 2 <= k
    <3>1. Body(buf) \in 2..10 /\ All(buf) \in 2..14
      BY <1>1, <2>2, Sizes
    <3>2. /\ ~BadOpcode(p)
          /\ \/ frame_decode(p).delta = k - Body(p)
             \/ Body(p) <= k /\ ~BadLength(p) /\ frame_decode(p).delta = k - All(p)
      BY <1>2, <1>4, <2>2, Decided
    <3>3. ~AsksMore(buf) /\ ~BadOpcode(buf) =>
            Body(buf) <= Len(buf) /\ (~BadLength(buf) => All(buf) <= Len(buf))
      BY <1>1, Decided
    <3>4. CASE frame_decode(p).delta = k - Body(p)
      <4>1. k - frame_decode(p).delta = Body(buf)
        BY <1>2, <1>3, <2>2, <3>1, <3>4
      <4> QED BY <1>3, <2>2, <3>1, <3>2, <3>3, <4>1
    <3>5. CASE Body(p) <= k /\ ~BadLength(p) /\ frame_decode(p).delta = k - All(p)
      <4>1. k - frame_decode(p).delta = All(buf)
        BY <1>2, <1>3, <2>2, <3>1, <3>5
      <4> QED BY <1>3, <2>2, <3>1, <3>2, <3>3, <3>5, <4>1
    <3> QED BY <3>2, <3>4, <3>5
  <2> QED BY <1>2, <2>1, <2>2
<1> QED BY <1>5 DEF p

\* Sequences of bytes, put together.
LEMMA JoinedBytes ==
  ASSUME NEW s \in Seq(Byte), NEW t \in Seq(Byte)
  PROVE  /\ s \o t \in Seq(Byte) /\ Len(s \o t) = Len(s) + Len(t)
         /\ \A i \in 1..Len(s) : (s \o t)[i] = s[i]
         /\ \A i \in 1..Len(t) : (s \o t)[Len(s) + i] = t[i]
OBVIOUS

\* A header is what comes before the key and the key.
LEMMA KeyBehind ==
  ASSUME NEW s \in Seq(Byte), NEW h \in Seq(Byte), NEW key \in Seq(Byte)
  PROVE  /\ Len(key) = 4 /\ Len(s) = Len(h) + 4
         /\ \A i \in 1..Len(h) : h[i] = s[i]
         /\ \A i \in 1..4 : key[i] = s[Len(h) + i]
         => s = h \o key
<1> DEFINE t == h \o key
<1>1. /\ t \in Seq(Byte) /\ Len(t) = Len(h) + Len(key) /\ Len(h) \in Nat
      /\ \A i \in 1..Len(h) : t[i] = h[i]
      /\ \A i \in 1..Len(key) : t[Len(h) + i] = key[i]
  BY JoinedBytes
<1> HIDE DEF t
<1> SUFFICES ASSUME Len(key) = 4, Len(s) = Len(h) + 4,
                    \A i \in 1..Len(h) : h[i] = s[i],
                    \A i \in 1..4 : key[i] = s[Len(h) + i]
             PROVE  s = t
  BY DEF t
<1>2. Len(t) = Len(s)
  BY <1>1
<1>3. ASSUME NEW i \in 1..Len(s) PROVE t[i] = s[i]
  <2>1. CASE i <= Len(h)
    BY <1>1, <2>1
  <2>2. CASE ~(i <= Len(h))
    <3>1. i - Len(h) \in 1..4 /\ Len(h) + (i - Len(h)) = i
      BY <1>1, <2>2
    <3>2. t[Len(h) + (i - Len(h))] = key[i - Len(h)] /\ key[i - Len(h)] = s[Len(h) + (i - Len(h))]
      BY <1>1, <3>1
    <3> QED BY <3>1, <3>2
  <2> QED BY <2>1, <2>2
<1> QED BY <1>1, <1>2, <1>3

\* h is the bytes x, y, a and b.
AreFour(h, x, y, a, b) ==
  h \in Seq(Byte) /\ Len(h) = 4 /\ h[1] = x /\ h[2] = y /\ h[3] = a /\ h[4] = b

\* h is x and y, four bytes of 0, and four others.
AreTen(h, x, y, a, b, c, d) ==
  /\ h \in Seq(Byte) /\ Len(h) = 10 /\ h[1] = x /\ h[2] = y
  /\ h[3] = 0 /\ h[4] = 0 /\ h[5] = 0 /\ h[6] = 0
  /\ h[7] = a /\ h[8] = b /\ h[9] = c /\ h[10] = d

\* The header with a length of two bytes before its key ...
LEMMA MiddleHeader ==
  ASSUME NEW x \in Byte, NEW y \in Byte, NEW a \in Byte, NEW b \in Byte
  PROVE  AreFour(<<x, y>> \o Bytes2(Number2(a, b)), x, y, a, b)
<1> DEFINE s == <<x, y>>
           t == <<a, b>>
           u == s \o t
<1>1. /\ s \in Seq(Byte) /\ Len(s) = 2 /\ s[1] = x /\ s[2] = y
      /\ t \in Seq(Byte) /\ Len(t) = 2 /\ t[1] = a /\ t[2] = b
  OBVIOUS
<1>2. t = Bytes2(Number2(a, b))
  BY TwoBytes DEF Bytes2
<1> HIDE DEF s, t
<1>3. /\ u \in Seq(Byte) /\ Len(u) = Len(s) + Len(t)
      /\ \A i \in 1..Len(s) : u[i] = s[i]
      /\ \A i \in 1..Len(t) : u[Len(s) + i] = t[i]
  BY <1>1, JoinedBytes
<1> HIDE DEF u
<1>4. /\ Len(u) = 2 + 2
      /\ \A i \in 1..2 : u[i] = s[i]
      /\ \A i \in 1..2 : u[2 + i] = t[i]
  BY <1>1, <1>3
<1>5. u[1] = s[1] /\ u[2] = s[2] /\ u[2 + 1] = t[1] /\ u[2 + 2] = t[2]
  BY <1>4
<1>6. u \in Seq(Byte) /\ Len(u) = 4 /\ u[1] = x /\ u[2] = y /\ u[3] = a /\ u[4] = b
  BY <1>1, <1>3, <1>4, <1>5
<1>7. <<x, y>> \o Bytes2(Number2(a, b)) = u
  BY <1>2 DEF u, s
<1> QED BY <1>6, <1>7 DEF AreFour

\* ... and with one of eight.
LEMMA LongHeader ==
  ASSUME NEW x \in Byte, NEW y \in Byte,
         NEW a \in Byte, NEW b \in Byte, NEW c \in Byte, NEW d \in Byte
  PROVE  AreTen(<<x, y>> \o Bytes8(Number4(a, b, c, d)), x, y, a, b, c, d)
<1> DEFINE n == Number4(a, b, c, d)
           s == <<x, y>>
           t == <<0, 0, 0, 0, a, b>>
           u == <<c, d>>
           v == t \o u
           w == s \o v
<1>1. /\ (n \div 16777216) % 256 = a /\ (n \div 65536) % 256 = b
      /\ (n \div 256) % 256 = c /\ n % 256 = d
  BY FourBytesOfLength
<1> HIDE DEF n
<1>2. Bytes8(n) = v
  BY SMT, <1>1 DEF Bytes8, Bytes2
<1>3. 0 \in Byte
  BY DEF Byte
<1>4. /\ s \in Seq(Byte) /\ Len(s) = 2 /\ s[1] = x /\ s[2] = y
      /\ u \in Seq(Byte) /\ Len(u) = 2 /\ u[1] = c /\ u[2] = d
  OBVIOUS
<1>5. /\ t \in Seq(Byte) /\ Len(t) = 6 /\ t[1] = 0 /\ t[2] = 0 /\ t[3] = 0 /\ t[4] = 0
      /\ t[5] = a /\ t[6] = b
  BY <1>3
<1> HIDE DEF s, t, u
<1>6. /\ v \in Seq(Byte) /\ Len(v) = Len(t) + Len(u)
      /\ \A i \in 1..Len(t) : v[i] = t[i]
      /\ \A i \in 1..Len(u) : v[Len(t) + i] = u[i]
  BY <1>4, <1>5, JoinedBytes
<1> HIDE DEF v
<1>7. /\ Len(v) = 6 + 2
      /\ \A i \in 1..6 : v[i] = t[i]
      /\ \A i \in 1..2 : v[6 + i] = u[i]
  BY <1>4, <1>5, <1>6
<1>8. /\ v[1] = t[1] /\ v[2] = t[2] /\ v[3] = t[3] /\ v[4] = t[4] /\ v[5] = t[5] /\ v[6] = t[6]
      /\ v[6 + 1] = u[1] /\ v[6 + 2] = u[2]
  BY <1>7
<1>9. /\ w \in Seq(Byte) /\ Len(w) = Len(s) + Len(v)
      /\ \A i \in 1..Len(s) : w[i] = s[i]
      /\ \A i \in 1..Len(v) : w[Len(s) + i] = v[i]
  BY <1>4, <1>6, JoinedBytes
<1> HIDE DEF w
<1>10. /\ Len(w) = 2 + 8
       /\ \A i \in 1..2 : w[i] = s[i]
       /\ \A i \in 1..8 : w[2 + i] = v[i]
  BY <1>4, <1>7, <1>9
<1>11. /\ w[1] = s[1] /\ w[2] = s[2] /\ w[2 + 1] = v[1] /\ w[2 + 2] = v[2] /\ w[2 + 3] = v[3]
       /\ w[2 + 4] = v[4] /\ w[2 + 5] = v[5] /\ w[2 + 6] = v[6] /\ w[2 + 7] = v[7]
       /\ w[2 + 8] = v[8]
  BY <1>10
<1>12. /\ w \in Seq(Byte) /\ Len(w) = 10 /\ w[1] = x /\ w[2] = y
       /\ w[3] = 0 /\ w[4] = 0 /\ w[5] = 0 /\ w[6] = 0
       /\ w[7] = a /\ w[8] = b /\ w[9] = c /\ w[10] = d
  <2>1. w[1] = x /\ w[2] = y
    BY <1>4, <1>11
  <2>2. w[3] = 0 /\ w[4] = 0 /\ w[5] = 0 /\ w[6] = 0
    BY <1>5, <1>8, <1>11
  <2>3. w[7] = a /\ w[8] = b
    BY <1>5, <1>8, <1>11
  <2>4. w[9] = c /\ w[10] = d
    BY <1>4, <1>8, <1>11
  <2>5. Len(w) = 10
    BY <1>10
  <2> QED BY <1>9, <2>1, <2>2, <2>3, <2>4, <2>5
<1>13. <<x, y>> \o Bytes8(Number4(a, b, c, d)) = w
  BY <1>2 DEF w, n, s
<1> QED BY <1>12, <1>13 DEF AreTen

\* The header that frame_encode writes for an accepted one, byte by byte.
LEMMA EncodedAgain ==
  ASSUME CodecInv, kind = "header", Accepted, MaskBit(buf) = 1
  PROVE  buf = encoded_header(buf[1] >= 128, buf[1] % 16, Length(buf),
                              SubSeq(buf, All(buf) - 3, All(buf)))
<1> DEFINE key == SubSeq(buf, All(buf) - 3, All(buf))
           b0  == (IF buf[1] >= 128 THEN 128 ELSE 0) + (buf[1] % 16)
           enc == encoded_header(buf[1] >= 128, buf[1] % 16, Length(buf), key)
<1>1. buf \in Seq(Byte) /\ 2 <= Len(buf) /\ ~BadOpcode(buf)
  BY AcceptedWhole
<1>2. buf[1] \in Byte /\ buf[2] \in Byte
  BY <1>1, ByteAt
<1>3. buf[1] = b0 /\ buf[2] = 128 + Len7(buf)
  BY <1>1, <1>2, FirstTwoBytes DEF BadOpcode, Len7, MaskBit
<1>4. ASSUME NEW n \in {2, 4, 10}, All(buf) = n + 4
      PROVE  /\ Len(buf) = n + 4
             /\ key \in Seq(Byte) /\ Len(key) = 4
             /\ \A i \in 1..4 : key[i] = buf[n + i]
  <2>1. Len(buf) = n + 4
    BY <1>4, AcceptedWhole
  <2>2. n \in Nat
    OBVIOUS
  <2> DEFINE t == SubSeq(buf, n + 1, n + 4)
  <2>3. t \in Seq(Byte) /\ Len(t) = 4 /\ \A i \in 1..4 : t[i] = buf[n + i]
    BY <1>1, <2>1, <2>2
  <2>4. All(buf) - 3 = n + 1
    BY <1>4, <2>2
  <2>5. key = t
    BY <1>4, <2>4
  <2> QED BY <2>1, <2>3, <2>5
<1>5. /\ Length(buf) <= 125 => enc = <<b0, 128 + Length(buf)>> \o key
      /\ ~(Length(buf) <= 125) /\ Length(buf) <= UINT16_MAX =>
           enc = <<b0, 128 + 126>> \o Bytes2(Length(buf)) \o key
      /\ ~(Length(buf) <= 125) /\ ~(Length(buf) <= UINT16_MAX) =>
           enc = <<b0, 128 + 127>> \o Bytes8(Length(buf)) \o key
  <2> HIDE DEF key
  <2> QED BY DEF encoded_header
<1> HIDE DEF b0, key, enc
<1>6. ASSUME NEW n \in {2, 4, 10}, All(buf) = n + 4,
             NEW h \in Seq(Byte), Len(h) = n, \A i \in 1..n : h[i] = buf[i]
      PROVE  buf = h \o key
  <2>1. /\ Len(buf) = n + 4 /\ key \in Seq(Byte) /\ Len(key) = 4
        /\ \A i \in 1..4 : key[i] = buf[n + i]
    BY <1>4, <1>6
  <2> QED BY <1>1, <1>6, <2>1, KeyBehind
<1>7. CASE Len7(buf) # 126 /\ Len7(buf) # 127
  <2>1. All(buf) = 2 + 4
    BY <1>1, <1>7, Sizes
  <2>2. Length(buf) = Len7(buf) /\ Length(buf) \in 0..125
    BY <1>7, ShortForm
  <2> DEFINE h == <<buf[1], buf[2]>>
  <2>3. h \in Seq(Byte) /\ Len(h) = 2 /\ \A i \in 1..2 : h[i] = buf[i]
    BY <1>2
  <2> HIDE DEF h
  <2>4. buf = h \o key
    BY <1>6, <2>1, <2>3
  <2>5. h = <<b0, 128 + Length(buf)>>
    BY <1>3, <2>2 DEF h
  <2>6. Length(buf) <= 125
    BY <2>2
  <2> QED BY <1>5, <2>4, <2>5, <2>6 DEF enc, key
<1>8. CASE Len7(buf) = 126
  <2>1. All(buf) = 4 + 4
    BY <1>1, <1>8, Sizes
  <2>2. /\ buf[3] \in Byte /\ buf[4] \in Byte
        /\ Length(buf) = Number2(buf[3], buf[4])
        /\ Length(buf) \in Nat /\ ~(Length(buf) < 126) /\ Length(buf) <= UINT16_MAX
    BY <1>8, MiddleForm
  <2> DEFINE h == <<buf[1], buf[2]>> \o Bytes2(Number2(buf[3], buf[4]))
  <2>3. AreFour(h, buf[1], buf[2], buf[3], buf[4])
    BY <1>2, <2>2, MiddleHeader
  <2> HIDE DEF h
  <2>4. h \in Seq(Byte) /\ Len(h) = 4 /\ \A i \in 1..4 : h[i] = buf[i]
    BY <2>3 DEF AreFour
  <2>5. buf = h \o key
    BY <1>6, <2>1, <2>4
  <2>6. h = <<b0, 128 + 126>> \o Bytes2(Length(buf))
    BY <1>3, <1>8, <2>2 DEF h
  <2>7. ~(Length(buf) <= 125)
    BY <2>2
  <2> QED BY <1>5, <2>2, <2>5, <2>6, <2>7 DEF enc, key
<1>9. CASE Len7(buf) = 127
  <2>1. All(buf) = 10 + 4
    BY <1>1, <1>9, Sizes
  <2>2. /\ buf[7] \in Byte /\ buf[8] \in Byte /\ buf[9] \in Byte /\ buf[10] \in Byte
        /\ buf[3] = 0 /\ buf[4] = 0 /\ buf[5] = 0 /\ buf[6] = 0
        /\ Length(buf) = Number4(buf[7], buf[8], buf[9], buf[10])
        /\ Length(buf) \in Nat /\ ~(Length(buf) <= UINT16_MAX)
    BY <1>9, LongForm
  <2> DEFINE h == <<buf[1], buf[2]>> \o Bytes8(Number4(buf[7], buf[8], buf[9], buf[10]))
  <2>3. AreTen(h, buf[1], buf[2], buf[7], buf[8], buf[9], buf[10])
    BY <1>2, <2>2, LongHeader
  <2> HIDE DEF h
  <2>4. h \in Seq(Byte) /\ Len(h) = 10 /\ \A i \in 1..10 : h[i] = buf[i]
    BY <2>2, <2>3 DEF AreTen
  <2>5. buf = h \o key
    BY <1>6, <2>1, <2>4
  <2>6. h = <<b0, 128 + 127>> \o Bytes8(Length(buf))
    BY <1>3, <1>9, <2>2 DEF h
  <2>7. ~(Length(buf) <= 125)
    BY <2>2 DEF UINT16_MAX
  <2> QED BY <1>5, <2>2, <2>5, <2>6, <2>7 DEF enc, key
<1> QED BY <1>7, <1>8, <1>9

\* A header is accepted only in the one form that frame_encode gives to it, no byte of
\* it is left and none of the payload is asked for, for every length below 2^32.
THEOREM HeadersAreCanonical == Spec => []AcceptsCanonicalHeaders
<1>1. CodecInv => AcceptsCanonicalHeaders
  <2> DEFINE f == frame_decode(buf)
  <2>1. CodecInv /\ kind = "header" => AsksForHeaderBytesOnly
    BY AsksForNoPayload
  <2>2. ASSUME CodecInv, kind = "header", Accepted
        PROVE  /\ f.delta = Len(buf)
               /\ f.mask = 1 =>
                    buf = encoded_header(f.fin, f.opcode, f.payload_len, SubSeq(buf, f.delta - 3, f.delta))
    <3>1. /\ f.delta = All(buf) /\ f.mask = MaskBit(buf) /\ f.fin = (buf[1] >= 128)
          /\ f.opcode = buf[1] % 16 /\ f.payload_len = Length(buf)
      BY <2>2, AcceptedWhole DEF FrameOf
    <3>2. All(buf) = Len(buf)
      BY <2>2, AcceptedWhole
    <3> HIDE DEF f
    <3> QED BY <2>2, <3>1, <3>2, EncodedAgain
  <2> QED BY <2>1, <2>2 DEF AcceptsCanonicalHeaders
<1> QED BY <1>1, CodecInvariant, PTL

-------------------------------------------------------------------------------
(* UTF-8 *)

\* utf8_validate agrees with the Unicode standard on every text, of any length.
THEOREM ValidationIsUnicode == Spec => []ValidateAgreesWithUnicode
<1>1. CodecInv => ValidateAgreesWithUnicode
  BY ValidateIsExact DEF CodecInv, ValidateAgreesWithUnicode
<1> QED BY <1>1, CodecInvariant, PTL

\* utf8_maybe_valid decides exactly whether what is kept of a cut character begins one.
THEOREM StartsAreUnicode == Spec => []MaybeValidExact
<1>1. CodecInv => MaybeValidExact
  <2> SUFFICES ASSUME CodecInv, kind = "text", Len(buf) \in 2..3, Len(buf) < utf8_len(buf[1])
               PROVE  utf8_maybe_valid(buf) <=> IsCharStart(buf)
    BY DEF MaybeValidExact
  <2>1. buf \in Seq(Byte) /\ 1 < Len(buf)
    BY DEF CodecInv
  <2> QED BY <2>1, MaybeValidIsExact
<1> QED BY <1>1, CodecInvariant, PTL

-------------------------------------------------------------------------------
(* Header lines *)

\* A set of numbers has its minimum, ...
LEMMA MinOfNumbers ==
  ASSUME NEW T, T \subseteq Nat, T # {}
  PROVE  Min(T) \in T /\ \A y \in T : Min(T) <= y
<1>1. \E x \in T : \A y \in T : x <= y
  BY LeastNumber
<1>2. Min(T) = CHOOSE x \in T : \A y \in T : x <= y
  BY DEF Min
<1> QED BY <1>1, <1>2

\* ... and its maximum if it is bounded.
LEMMA MaxOfNumbers ==
  ASSUME NEW n \in Nat, NEW T, T \subseteq 0..n, T # {}
  PROVE  Max(T) \in T /\ \A y \in T : y <= Max(T)
<1>1. \E x \in T : \A y \in T : x >= y
  <2>1. PICK x \in T : \A y \in T : y <= x
    BY GreatestNumber
  <2>2. \A y \in T : y \in Int /\ x \in Int
    OBVIOUS
  <2> QED BY <2>1, <2>2
<1>2. Max(T) \in T /\ \A y \in T : Max(T) >= y
  BY <1>1 DEF Max
<1>3. \A y \in T : y \in Int
  OBVIOUS
<1> QED BY <1>2, <1>3

\* What cws_trim leaves of s starts at first and ends at last: there is space only
\* around it, and none at its ends.
TrimmedAt(s, first, last) ==
  /\ first \in 1..Len(s) + 1 /\ last \in 0..Len(s) /\ first - 1 <= last
  /\ \A i \in 1..Len(s) : i < first => isspace(s[i])
  /\ \A i \in 1..Len(s) : last < i => isspace(s[i])
  /\ first <= last => ~isspace(s[first]) /\ ~isspace(s[last])

\* Both loops of cws_trim end where they should.
LEMMA TrimStops ==
  ASSUME NEW s \in Seq(Byte)
  PROVE  \E first, last \in Nat : TrimmedAt(s, first, last) /\ cws_trim(s) = SubSeq(s, first, last)
<1> DEFINE F     == {i \in 1..Len(s) : ~isspace(s[i])} \cup {Len(s) + 1}
           first == Min(F)
           L     == {i \in first..Len(s) : ~isspace(s[i])} \cup {first - 1}
           last  == Max(L)
<1>1. Len(s) \in Nat
  OBVIOUS
<1>2. first \in F /\ \A i \in F : first <= i
  <2>1. F \subseteq Nat /\ F # {}
    BY <1>1
  <2> HIDE DEF F
  <2> QED BY <2>1, MinOfNumbers
<1>3. first \in 1..Len(s) + 1
  <2> HIDE DEF first
  <2> QED BY <1>1, <1>2
<1>4. \A i \in 1..Len(s) : i < first => isspace(s[i])
  <2> HIDE DEF first
  <2> QED BY <1>1, <1>2, <1>3
<1>5. last \in L /\ \A i \in L : i <= last
  <2> HIDE DEF first
  <2>1. L \subseteq 0..Len(s) /\ L # {}
    BY <1>1, <1>3
  <2> HIDE DEF L
  <2> QED BY <1>1, <2>1, MaxOfNumbers
<1>6. last \in 0..Len(s) /\ first - 1 <= last
  <2> HIDE DEF first, last
  <2> QED BY <1>1, <1>3, <1>5
<1>7. ASSUME NEW i \in 1..Len(s), last < i PROVE isspace(s[i])
  <2> HIDE DEF last
  <2>1. CASE i < first
    BY <1>4, <2>1
  <2>2. CASE ~(i < first)
    <3> HIDE DEF first
    <3>1. i \in first..Len(s)
      BY <1>1, <1>3, <2>2
    <3>2. i \in L => i <= last
      BY <1>5
    <3>3. ~(i <= last)
      BY <1>1, <1>6, <1>7
    <3> QED BY <3>1, <3>2, <3>3
  <2> QED BY <2>1, <2>2
<1>8. ASSUME first <= last PROVE ~isspace(s[first]) /\ ~isspace(s[last])
  <2> HIDE DEF first, last
  <2>1. first # Len(s) + 1
    BY <1>1, <1>3, <1>6, <1>8
  <2>2. last # first - 1
    BY <1>3, <1>6, <1>8
  <2> QED BY <1>2, <1>5, <2>1, <2>2
<1>9. TrimmedAt(s, first, last)
  <2> HIDE DEF first, last
  <2> QED BY <1>3, <1>4, <1>6, <1>7, <1>8 DEF TrimmedAt
<1>10. cws_trim(s) = SubSeq(s, first, last)
  BY DEF cws_trim
<1>11. first \in Nat /\ last \in Nat
  <2> HIDE DEF first, last
  <2> QED BY <1>3, <1>6
<1> HIDE DEF first, last
<1> QED BY <1>9, <1>10, <1>11

\* The letters of a string, in lower case, are numbers.
LEMMA LowerIsNumber ==
  ASSUME NEW c \in Byte
  PROVE  tolower(c) \in Int /\ (isspace(c) <=> isspace(tolower(c)))
BY DEF Byte, tolower, isspace

\* The first n bytes are the same but for their case.
SameLetters(s, t, n) == \A i \in 1..n : tolower(s[i]) = tolower(t[i])

\* cws_strncasecmp tells whether they are.
LEMMA CompareIgnoresCase ==
  ASSUME NEW s \in Seq(Byte), NEW t \in Seq(Byte), NEW n \in Nat, n <= Len(s), n <= Len(t)
  PROVE  cws_strncasecmp(s, t, n) = 0 <=> SameLetters(s, t, n)
<1> DEFINE diff(i) == tolower(byte(s, i)) - tolower(byte(t, i))
           D       == {i \in 1..n : diff(i) # 0} \cup {n}
<1>1. CASE n = 0
  BY <1>1 DEF cws_strncasecmp, SameLetters
<1>2. CASE n # 0
  <2>1. cws_strncasecmp(s, t, n) = diff(Min(D))
    BY <1>2 DEF cws_strncasecmp
  <2>2. ASSUME NEW i \in 1..n PROVE diff(i) = 0 <=> tolower(s[i]) = tolower(t[i])
    <3>1. i <= Len(s) /\ i <= Len(t) /\ s[i] \in Byte /\ t[i] \in Byte
      OBVIOUS
    <3>2. byte(s, i) = s[i] /\ byte(t, i) = t[i]
      BY <3>1 DEF byte
    <3>3. tolower(s[i]) \in Int /\ tolower(t[i]) \in Int
      BY <3>1, LowerIsNumber
    <3> QED BY <3>2, <3>3
  <2> HIDE DEF diff
  <2>3. D \subseteq Nat /\ D # {} /\ n \in 1..n
    BY <1>2
  <2>4. Min(D) \in D /\ \A i \in D : Min(D) <= i
    <3> HIDE DEF D
    <3> QED BY <2>3, MinOfNumbers
  <2>5. Min(D) \in 1..n
    BY <2>3, <2>4
  <2>6. ASSUME NEW i \in 1..n, diff(i) # 0 PROVE diff(Min(D)) # 0
    <3>1. i \in D
      BY <2>6
    <3>2. Min(D) <= i
      BY <2>4, <3>1
    <3>3. CASE Min(D) = n
      <4>1. i = n
        BY <3>2, <3>3
      <4> QED BY <2>6, <3>3, <4>1
    <3>4. CASE Min(D) # n
      BY <2>4, <3>4
    <3> QED BY <3>3, <3>4
  <2>7. diff(Min(D)) = 0 <=> \A i \in 1..n : diff(i) = 0
    BY <2>5, <2>6
  <2> QED BY <2>1, <2>2, <2>7 DEF SameLetters
<1> QED BY <1>1, <1>2

\* A name to look for: it begins and ends with something else than space.
Name(prefix) ==
  /\ prefix \in Seq(Byte) /\ prefix # << >>
  /\ ~isspace(prefix[1]) /\ ~isspace(prefix[Len(prefix)])

\* A line without space in front of it is one that begins with the name.
LEMMA PrefixOfTrimmed ==
  ASSUME NEW s \in Seq(Byte), NEW prefix, Name(prefix), NEW first \in Nat, NEW last \in Nat,
         TrimmedAt(s, first, last), cws_trim(s) = SubSeq(s, first, last)
  PROVE  cws_has_prefix(s, prefix) <=>
           /\ first + Len(prefix) <= last + 1
           /\ \A i \in 1..Len(prefix) : tolower(s[first + i - 1]) = tolower(prefix[i])
<1> DEFINE t == SubSeq(s, first, last)
           k == Len(prefix)
<1>1. /\ Len(s) \in Nat /\ prefix \in Seq(Byte) /\ k \in Nat /\ 1 <= first /\ last <= Len(s)
      /\ first - 1 <= last
  BY DEF TrimmedAt, Name
<1>2. /\ t \in Seq(Byte) /\ Len(t) = IF first <= last THEN last - first + 1 ELSE 0
      /\ \A i \in 1..last - first + 1 : t[i] = s[first + i - 1]
  <2>1. \A i \in first..last : s[i] \in Byte
    BY <1>1
  <2> QED BY <1>1, <2>1, SubSeqProperties
<1>3. Len(t) = last - first + 1 /\ Len(t) \in Nat
  <2> HIDE DEF t
  <2> QED BY <1>1, <1>2
<1>4. cws_has_prefix(s, prefix) <=> k <= Len(t) /\ cws_strncasecmp(t, prefix, k) = 0
  BY DEF cws_has_prefix
<1>5. ASSUME k <= Len(t)
      PROVE  cws_strncasecmp(t, prefix, k) = 0
               <=> \A i \in 1..k : tolower(s[first + i - 1]) = tolower(prefix[i])
  <2> HIDE DEF t, k
  <2>1. cws_strncasecmp(t, prefix, k) = 0 <=> SameLetters(t, prefix, k)
    <3>1. k <= Len(prefix)
      BY DEF k
    <3> QED BY <1>1, <1>2, <1>5, <3>1, CompareIgnoresCase
  <2>2. \A i \in 1..k : t[i] = s[first + i - 1]
    <3>1. \A i \in 1..k : i \in 1..last - first + 1
      BY <1>1, <1>3, <1>5
    <3> QED BY <1>2, <3>1
  <2> QED BY <2>1, <2>2 DEF SameLetters
<1>6. k <= Len(t) <=> first + k <= last + 1
  <2> HIDE DEF t
  <2> QED BY <1>1, <1>3
<1> HIDE DEF t, k
<1> QED BY <1>4, <1>5, <1>6 DEF k

\* Both parts of a cut.
LEMMA CutInTwo ==
  ASSUME NEW s \in Seq(Byte), NEW i \in 0..Len(s)
  PROVE  LET a == SubSeq(s, 1, i)
             b == SubSeq(s, i + 1, Len(s))
         IN  /\ <<a, b>> \in Cuts(s)
             /\ a \in Seq(Byte) /\ Len(a) = i /\ \A j \in 1..i : a[j] = s[j]
             /\ b \in Seq(Byte) /\ Len(b) = Len(s) - i /\ \A j \in 1..Len(s) - i : b[j] = s[i + j]
<1> DEFINE a == SubSeq(s, 1, i)
           b == SubSeq(s, i + 1, Len(s))
<1>1. /\ Len(s) \in Nat /\ i \in Int /\ 0 <= i /\ i <= Len(s)
      /\ i + 1 \in Int /\ Len(s) \in Int /\ 1 \in Int
  OBVIOUS
<1>2. <<a, b>> \in Cuts(s)
  BY DEF Cuts
<1>3. a \in Seq(Byte) /\ Len(a) = i /\ \A j \in 1..i : a[j] = s[j]
  <2>1. \A j \in 1..i : s[j] \in Byte
    BY <1>1
  <2>2. /\ a \in Seq(Byte) /\ Len(a) = IF 1 <= i THEN i - 1 + 1 ELSE 0
        /\ \A j \in 1..i - 1 + 1 : a[j] = s[1 + j - 1]
    BY <1>1, <2>1, SubSeqProperties
  <2>3. i - 1 + 1 = i
    BY <1>1
  <2> HIDE DEF a
  <2> QED BY <1>1, <2>2, <2>3
<1>4. b \in Seq(Byte) /\ Len(b) = Len(s) - i /\ \A j \in 1..Len(s) - i : b[j] = s[i + j]
  <2>1. \A j \in i + 1..Len(s) : s[j] \in Byte
    BY <1>1
  <2>2. /\ b \in Seq(Byte) /\ Len(b) = IF i + 1 <= Len(s) THEN Len(s) - (i + 1) + 1 ELSE 0
        /\ \A j \in 1..Len(s) - (i + 1) + 1 : b[j] = s[i + 1 + j - 1]
    BY <1>1, <2>1, SubSeqProperties
  <2> HIDE DEF b
  <2>3. Len(b) = Len(s) - i
    <3>1. CASE i + 1 <= Len(s)
      BY <1>1, <2>2, <3>1
    <3>2. CASE ~(i + 1 <= Len(s))
      BY <1>1, <2>2, <3>2
    <3> QED BY <3>1, <3>2
  <2>4. ASSUME NEW j \in 1..Len(s) - i PROVE b[j] = s[i + j]
    <3>1. j \in 1..Len(s) - (i + 1) + 1 /\ i + 1 + j - 1 = i + j
      BY <1>1
    <3>2. b[j] = s[i + 1 + j - 1]
      BY <2>2, <3>1
    <3> QED BY <3>1, <3>2
  <2> QED BY <2>2, <2>3, <2>4
<1> QED BY <1>2, <1>3, <1>4

\* cws_has_prefix finds a name behind any space and in any case, and nothing else.
LEMMA FoundByName ==
  ASSUME NEW s \in Seq(Byte), NEW prefix, Name(prefix)
  PROVE  cws_has_prefix(s, prefix)
           <=> \E cut \in Cuts(s) : Space(cut[1]) /\ BeginsWith(cut[2], prefix)
<1> DEFINE k == Len(prefix)
<1>1. PICK first \in Nat, last \in Nat :
        TrimmedAt(s, first, last) /\ cws_trim(s) = SubSeq(s, first, last)
  BY TrimStops
<1>2. cws_has_prefix(s, prefix) <=>
        /\ first + k <= last + 1
        /\ \A i \in 1..k : tolower(s[first + i - 1]) = tolower(prefix[i])
  BY <1>1, PrefixOfTrimmed
<1>3. /\ Len(s) \in Nat /\ k \in Nat /\ 1 <= first /\ last <= Len(s) /\ first - 1 <= last
      /\ first <= Len(s) + 1 /\ 0 < k
  BY <1>1 DEF TrimmedAt, Name
<1>4. ASSUME first + k <= last + 1,
             \A i \in 1..k : tolower(s[first + i - 1]) = tolower(prefix[i])
      PROVE  \E cut \in Cuts(s) : Space(cut[1]) /\ BeginsWith(cut[2], prefix)
  <2> HIDE DEF k
  <2> DEFINE a == SubSeq(s, 1, first - 1)
             b == SubSeq(s, first, Len(s))
  <2>1. first - 1 \in 0..Len(s) /\ (first - 1) + 1 = first
    BY <1>3
  <2>2. /\ <<a, b>> \in Cuts(s)
        /\ Len(a) = first - 1 /\ \A j \in 1..first - 1 : a[j] = s[j]
        /\ Len(b) = Len(s) - (first - 1)
        /\ \A j \in 1..Len(s) - (first - 1) : b[j] = s[first - 1 + j]
    <3> DEFINE i == first - 1
    <3>1. i \in 0..Len(s) /\ i + 1 = first
      BY <2>1
    <3> HIDE DEF i
    <3>2. LET c == SubSeq(s, i + 1, Len(s))
          IN  /\ <<SubSeq(s, 1, i), c>> \in Cuts(s)
              /\ Len(SubSeq(s, 1, i)) = i /\ \A j \in 1..i : SubSeq(s, 1, i)[j] = s[j]
              /\ Len(c) = Len(s) - i
              /\ \A j \in 1..Len(s) - i : c[j] = s[i + j]
      BY <3>1, CutInTwo
    <3> QED BY <3>1, <3>2 DEF i
  <2> HIDE DEF a, b
  <2>3. Space(a)
    <3>1. \A j \in 1..first - 1 : j \in 1..Len(s) /\ j < first
      BY <1>3
    <3> QED BY <1>1, <2>2, <3>1 DEF Space, TrimmedAt
  <2>4. BeginsWith(b, prefix)
    <3>1. k <= Len(b)
      BY <1>3, <1>4, <2>2
    <3>2. ASSUME NEW j \in 1..k PROVE tolower(b[j]) = tolower(prefix[j])
      <4>1. j \in 1..Len(s) - (first - 1) /\ first - 1 + j = first + j - 1
        BY <1>3, <2>2, <3>1
      <4> QED BY <1>4, <2>2, <4>1
    <3> QED BY <3>1, <3>2 DEF BeginsWith, k
  <2>5. <<a, b>>[1] = a /\ <<a, b>>[2] = b
    OBVIOUS
  <2> QED BY <2>2, <2>3, <2>4, <2>5
<1>5. ASSUME NEW cut \in Cuts(s), Space(cut[1]), BeginsWith(cut[2], prefix)
      PROVE  /\ first + k <= last + 1
             /\ \A i \in 1..k : tolower(s[first + i - 1]) = tolower(prefix[i])
  <2>1. PICK n \in 0..Len(s) : cut = <<SubSeq(s, 1, n), SubSeq(s, n + 1, Len(s))>>
    BY DEF Cuts
  <2> DEFINE a == SubSeq(s, 1, n)
             b == SubSeq(s, n + 1, Len(s))
  <2>2. /\ Len(a) = n /\ \A j \in 1..n : a[j] = s[j]
        /\ Len(b) = Len(s) - n /\ \A j \in 1..Len(s) - n : b[j] = s[n + j]
    BY CutInTwo
  <2>3. Space(a) /\ BeginsWith(b, prefix)
    BY <1>5, <2>1
  <2> HIDE DEF a, b
  <2>4. k <= Len(s) - n /\ \A j \in 1..k : tolower(s[n + j]) = tolower(prefix[j])
    <3>1. k <= Len(b) /\ \A j \in 1..k : tolower(b[j]) = tolower(prefix[j])
      BY <2>3 DEF BeginsWith
    <3> HIDE DEF k
    <3>2. \A j \in 1..k : j \in 1..Len(s) - n
      BY <1>3, <2>2, <3>1
    <3> QED BY <2>2, <3>1, <3>2
  <2>5. /\ ~isspace(s[n + 1]) /\ n + 1 \in 1..Len(s)
        /\ ~isspace(s[n + k]) /\ n + k \in 1..Len(s)
    <3>1. ASSUME NEW j \in 1..k, ~isspace(prefix[j])
          PROVE  ~isspace(s[n + j]) /\ n + j \in 1..Len(s)
      <4>1. n + j \in 1..Len(s)
        BY <1>3, <2>4
      <4>2. s[n + j] \in Byte /\ prefix[j] \in Byte
        BY <4>1 DEF Name
      <4> QED BY <2>4, <3>1, <4>1, <4>2, LowerIsNumber
    <3>2. ~isspace(prefix[1]) /\ ~isspace(prefix[k]) /\ 1 \in 1..k /\ k \in 1..k
      BY <1>3 DEF Name
    <3> QED BY <3>1, <3>2
  <2>6. n + 1 = first
    <3>1. ~(n + 1 < first)
      BY <1>1, <2>5 DEF TrimmedAt
    <3>2. ASSUME first < n + 1 PROVE FALSE
      <4>1. first \in 1..n /\ first \in 1..Len(s)
        BY <1>3, <3>2
      <4>2. isspace(s[first])
        BY <2>2, <2>3, <4>1 DEF Space
      <4>3. first <= last
        <5>1. ASSUME last < first PROVE FALSE
          <6>1. last < n + 1
            BY <1>3, <3>2, <5>1
          <6> QED BY <1>1, <2>5, <6>1 DEF TrimmedAt
        <5> QED BY <1>3, <5>1
      <4> QED BY <1>1, <4>2, <4>3 DEF TrimmedAt
    <3> QED BY <1>3, <3>1, <3>2
  <2>7. first + k <= last + 1
    <3>1. ~(last < n + k)
      BY <1>1, <2>5 DEF TrimmedAt
    <3> HIDE DEF k
    <3> QED BY <1>3, <2>6, <3>1
  <2>8. \A i \in 1..k : first + i - 1 = n + i
    BY <1>3, <2>6
  <2> QED BY <2>4, <2>7, <2>8
<1> HIDE DEF k
<1> QED BY <1>2, <1>4, <1>5

\* cws_trim takes off the space around a string, and nothing else.
LEMMA TrimTakesSpace ==
  ASSUME NEW s \in Seq(Byte)
  PROVE  IsTrimmed(cws_trim(s), s)
<1>1. PICK first \in Nat, last \in Nat :
        TrimmedAt(s, first, last) /\ cws_trim(s) = SubSeq(s, first, last)
  BY TrimStops
<1>2. /\ Len(s) \in Nat /\ 1 <= first /\ last <= Len(s) /\ first - 1 <= last /\ first <= Len(s) + 1
  BY <1>1 DEF TrimmedAt
<1> DEFINE t == cws_trim(s)
           i == first - 1
           a == SubSeq(s, 1, i)
           r == SubSeq(s, i + 1, Len(s))
           n == last - i
           u == SubSeq(r, 1, n)
           b == SubSeq(r, n + 1, Len(r))
<1>3. i \in 0..Len(s) /\ i + 1 = first /\ n \in 0..Len(s) - i /\ i + n = last
  BY <1>2
<1> HIDE DEF i, n
<1>4. /\ <<a, r>> \in Cuts(s) /\ Len(a) = i /\ \A j \in 1..i : a[j] = s[j]
      /\ r \in Seq(Byte) /\ Len(r) = Len(s) - i /\ \A j \in 1..Len(s) - i : r[j] = s[i + j]
  BY <1>3, CutInTwo
<1> HIDE DEF a, r
<1>5. /\ <<u, b>> \in Cuts(r) /\ Len(u) = n /\ \A j \in 1..n : u[j] = r[j]
      /\ Len(b) = Len(r) - n /\ \A j \in 1..Len(r) - n : b[j] = r[n + j]
  <2>1. n \in 0..Len(r)
    BY <1>3, <1>4
  <2> QED BY <1>4, <2>1, CutInTwo
<1>6. t = u
  <2>1. t = SubSeq(s, i + 1, i + n)
    BY <1>1, <1>3
  <2>2. SubSeq(s, i + 1, i + n) = u
    <3>1. /\ i + n <= Len(s) /\ i \in Nat /\ n \in Nat
      BY <1>2, <1>3
    <3> QED BY <3>1 DEF u, r
  <2> QED BY <2>1, <2>2
<1> HIDE DEF t, u, b
<1>7. Space(a)
  <2>1. \A j \in 1..i : j \in 1..Len(s) /\ j < first
    BY <1>2, <1>3
  <2> QED BY <1>1, <1>4, <2>1 DEF Space, TrimmedAt
<1>8. Space(b)
  <2> SUFFICES ASSUME NEW j \in 1..Len(b) PROVE isspace(b[j])
    BY DEF Space
  <2>1. /\ j \in 1..Len(r) - n /\ n + j \in 1..Len(s) - i
        /\ i + (n + j) \in 1..Len(s) /\ last < i + (n + j)
    BY <1>2, <1>3, <1>4, <1>5
  <2>2. b[j] = s[i + (n + j)]
    BY <1>4, <1>5, <2>1
  <2> QED BY <1>1, <2>1, <2>2 DEF TrimmedAt
<1>9. ASSUME t # << >> PROVE ~isspace(t[1]) /\ ~isspace(t[Len(t)])
  <2>1. 0 < n
    <3>1. u \in Seq(Byte)
      BY <1>3, <1>4, CutInTwo DEF u
    <3>2. Len(u) # 0
      BY <1>6, <1>9, <3>1
    <3> QED BY <1>3, <1>5, <3>2
  <2>2. first <= last
    BY <1>2, <1>3, <2>1
  <2>3. 1 \in 1..n /\ n \in 1..n /\ 1 \in 1..Len(s) - i /\ n \in 1..Len(s) - i
    BY <1>2, <1>3, <2>1
  <2>4. t[1] = s[first] /\ t[Len(t)] = s[last]
    BY <1>3, <1>4, <1>5, <1>6, <2>3
  <2> QED BY <1>1, <2>2, <2>4 DEF TrimmedAt
<1>10. \E left \in Cuts(s) : \E right \in Cuts(left[2]) :
         Space(left[1]) /\ right[1] = t /\ Space(right[2])
  <2>1. <<a, r>>[1] = a /\ <<a, r>>[2] = r /\ <<u, b>>[1] = u /\ <<u, b>>[2] = b
    OBVIOUS
  <2> QED BY <1>4, <1>5, <1>6, <1>7, <1>8, <2>1
<1> QED BY <1>9, <1>10 DEF IsTrimmed, t

\* Both prefixes of the model are names, ...
LEMMA PrefixesAreNames ==
  ASSUME NEW prefix \in Prefixes
  PROVE  Name(prefix)
<1>1. ASSUME NEW a \in Byte, NEW b \in Byte, ~isspace(a), ~isspace(b)
      PROVE  Name(<<a, b>>)
  <2>1. <<a, b>> \in Seq(Byte) /\ <<a, b>> # << >> /\ Len(<<a, b>>) = 2
    OBVIOUS
  <2>2. <<a, b>>[1] = a /\ <<a, b>>[2] = b
    OBVIOUS
  <2> QED BY <1>1, <2>1, <2>2 DEF Name
<1>2. 97 \in Byte /\ 58 \in Byte /\ 98 \in Byte
  BY DEF Byte
<1>3. ~isspace(97) /\ ~isspace(58) /\ ~isspace(98)
  BY DEF isspace
<1>4. Name(<<97, 58>>) /\ Name(<<97, 98>>)
  BY <1>1, <1>2, <1>3, SMT
<1> QED BY <1>4, SMT DEF Prefixes

\* ... and for them header.c finds a line by its name, in any case, and the value behind it,
\* in lines of any length over any bytes.
THEOREM LinesAreSplit == Spec => []HeaderLinesAreSplit
<1>1. CodecInv => HeaderLinesAreSplit
  <2> SUFFICES ASSUME buf \in Seq(Byte), NEW prefix \in Prefixes
               PROVE  /\ cws_has_prefix(buf, prefix) <=>
                           \E cut \in Cuts(buf) : Space(cut[1]) /\ BeginsWith(cut[2], prefix)
                      /\ cws_has_prefix(buf, prefix) /\ ~isspace(buf[1]) =>
                           IsTrimmed(header_value(buf, prefix), SubSeq(buf, Len(prefix) + 1, Len(buf)))
    BY DEF CodecInv, HeaderLinesAreSplit
  <2>1. Name(prefix)
    BY PrefixesAreNames
  <2>2. ASSUME cws_has_prefix(buf, prefix)
        PROVE  IsTrimmed(header_value(buf, prefix), SubSeq(buf, Len(prefix) + 1, Len(buf)))
    <3> DEFINE v == SubSeq(buf, Len(prefix) + 1, Len(buf))
    <3>1. PICK first \in Nat, last \in Nat :
            TrimmedAt(buf, first, last) /\ cws_trim(buf) = SubSeq(buf, first, last)
      BY TrimStops
    <3>2. first + Len(prefix) <= last + 1
      BY <2>1, <2>2, <3>1, PrefixOfTrimmed
    <3>3. Len(prefix) \in 0..Len(buf)
      <4>1. Len(prefix) \in Nat /\ Len(buf) \in Nat /\ 1 <= first /\ last <= Len(buf)
        BY <2>1, <3>1 DEF TrimmedAt, Name
      <4> QED BY <3>2, <4>1
    <3>4. v \in Seq(Byte)
      BY <3>3, CutInTwo
    <3>5. header_value(buf, prefix) = cws_trim(v)
      BY DEF header_value
    <3> HIDE DEF v
    <3>6. IsTrimmed(cws_trim(v), v)
      BY <3>4, TrimTakesSpace
    <3> QED BY <3>5, <3>6 DEF v
  <2> QED BY <2>1, <2>2, FoundByName
<1> QED BY <1>1, CodecInvariant, PTL

-------------------------------------------------------------------------------
(* The configuration *)

\* The fields of a handle, and the options of curl.
Fields  == {"failed", "headers", "follow_redirects", "verbose", "max_payload_size",
            "data_block_size", "control_block_size", "url", "expected_key_header",
            "ws_protocols_requested", "opts"}
Options == {"URL", "FOLLOWLOCATION", "MAXREDIRS", "VERBOSE", "HTTPHEADER"}

\* The request after the steps "ws_workarounds", "ws_key", "ws_protocols" and "http_headers".
WithEncoding(c) == Append(IF c.expect = 1 THEN <<Library("Expect")>> ELSE << >>,
                          Library("Transfer-Encoding"))
WithKey(c)      == Append(WithEncoding(c), Library("Sec-WebSocket-Key"))
WithProtocol(c) == IF c.websocket_protocols = Unset THEN WithKey(c)
                   ELSE Append(WithKey(c), Library("Sec-WebSocket-Protocol"))
Extras(c)       == [i \in 1..Len(c.extra_headers) |-> Extra(c.extra_headers[i])]
WithAll(c)      == WithProtocol(c) \o (ws_headers \o Extras(c))

\* The request after the k-th step.
LinesAfter(c, k) ==
  IF k < 7 THEN << >>
  ELSE IF k = 7 THEN WithEncoding(c)
  ELSE IF k = 8 THEN WithKey(c)
  ELSE IF k = 9 THEN WithProtocol(c)
  ELSE WithAll(c)

\* The blocks of the pools.
BlockSizes(h, c) ==
  /\ h.max_payload_size = IF c.max_payload_size = 0 THEN 1024 ELSE c.max_payload_size
  /\ h.data_block_size = BufOverhead + (h.max_payload_size + WS_FRAME_HEADER_MAX)
  /\ h.control_block_size = BufOverhead + WS_CTL_FRAME_MAX

\* What is known of a handle after the k-th step, if no step has failed.
Built(h, c, k) ==
  /\ DOMAIN h = Fields /\ DOMAIN h.opts = Options
  /\ ~h.failed =>
       /\ 0 < k => BlockSizes(h, c)
       /\ FollowsWithCurl(h, c)
       /\ h.headers = LinesAfter(c, k)
       /\ 6 < k => c.expect \in {0, 1}
       /\ 9 < k => /\ h.opts["HTTPHEADER"] = h.headers
                   /\ \A i \in 1..Len(c.extra_headers) : c.extra_headers[i] \notin disallowed

\* A step that fails leaves no promise.
LEMMA Failing ==
  ASSUME NEW h, NEW c, NEW k, DOMAIN h = Fields, DOMAIN h.opts = Options
  PROVE  Built(fails(h), c, k)
BY DEF Built, fails, Fields

\* A step that changes no field that counts.
LEMMA Unchanging ==
  ASSUME NEW h, NEW g, NEW c, NEW k \in 1..11, k \notin {1, 7, 8, 9, 10}, Built(h, c, k - 1),
         DOMAIN g = Fields, DOMAIN g.opts = Options,
         g.failed = h.failed,
         ~g.failed => /\ BlockSizes(h, c) => BlockSizes(g, c)
                      /\ FollowsWithCurl(g, c)
                      /\ g.headers = h.headers
                      /\ g.opts["HTTPHEADER"] = h.opts["HTTPHEADER"]
  PROVE  Built(g, c, k)
<1>1. LinesAfter(c, k) = LinesAfter(c, k - 1)
  BY DEF LinesAfter
<1>2. (0 < k => 0 < k - 1) /\ (6 < k => 6 < k - 1) /\ (9 < k => 9 < k - 1)
  OBVIOUS
<1> QED BY <1>1, <1>2 DEF Built

\* The blocks are sized first.
LEMMA MemorypoolBuilds ==
  ASSUME NEW c, NEW h, Built(h, c, 0), NEW g \in config_memorypool(c, h)
  PROVE  Built(g, c, 1)
<1>1. DOMAIN h = Fields /\ DOMAIN h.opts = Options
  BY DEF Built
<1> DEFINE max == IF c.max_payload_size = 0 THEN 1024 ELSE c.max_payload_size
           data == BufOverhead + (max + WS_FRAME_HEADER_MAX)
           ctrl == BufOverhead + WS_CTL_FRAME_MAX
<1>2. g = [h EXCEPT !.max_payload_size = max, !.data_block_size = data, !.control_block_size = ctrl]
  BY DEF config_memorypool, send_get_memory_needed
<1> HIDE DEF max, data, ctrl
<1>3. /\ DOMAIN g = Fields /\ g.opts = h.opts /\ g.failed = h.failed /\ g.headers = h.headers
      /\ g.follow_redirects = h.follow_redirects
      /\ g.max_payload_size = max /\ g.data_block_size = data /\ g.control_block_size = ctrl
  BY <1>1, <1>2 DEF Fields
<1>4. BlockSizes(g, c)
  BY <1>3 DEF BlockSizes, max, data, ctrl
<1>5. LinesAfter(c, 1) = LinesAfter(c, 0)
  BY DEF LinesAfter
<1> QED BY <1>1, <1>3, <1>4, <1>5 DEF Built, FollowsWithCurl

\* A handle that differs in no field but the url.
LEMMA UrlBuilds ==
  ASSUME NEW c, NEW h, Built(h, c, 1), NEW g \in config_url(c, h)
  PROVE  Built(g, c, 2)
<1> DEFINE url == cws_rewrite_url(c.url)
           set == [h EXCEPT !.url = url, !.opts["URL"] = url]
<1>1. DOMAIN h = Fields /\ DOMAIN h.opts = Options
  BY DEF Built
<1> HIDE DEF url
<1>2. /\ DOMAIN set = Fields /\ DOMAIN set.opts = Options /\ set.failed = h.failed
      /\ set.headers = h.headers /\ set.follow_redirects = h.follow_redirects
      /\ set.max_payload_size = h.max_payload_size /\ set.data_block_size = h.data_block_size
      /\ set.control_block_size = h.control_block_size
      /\ \A o \in {"FOLLOWLOCATION", "MAXREDIRS", "HTTPHEADER"} : set.opts[o] = h.opts[o]
  BY <1>1 DEF Fields, Options
<1> HIDE DEF set
<1>3. g \in {fails(h), set, fails(set)}
  BY DEF config_url, set_or_fails, set, url
<1>4. Built(set, c, 2)
  <2>1. ~h.failed => FollowsWithCurl(h, c)
    BY DEF Built
  <2>2. ~set.failed => FollowsWithCurl(set, c)
    BY <1>2, <2>1 DEF FollowsWithCurl
  <2>3. BlockSizes(h, c) => BlockSizes(set, c)
    BY <1>2 DEF BlockSizes
  <2>4. 2 \in 1..11 /\ 2 \notin {1, 7, 8, 9, 10} /\ 2 - 1 = 1
    OBVIOUS
  <2> QED BY <1>2, <2>2, <2>3, <2>4, Unchanging
<1> QED BY <1>1, <1>2, <1>3, <1>4, Failing

\* The steps "security", "callbacks" and "configure" only succeed or fail.
LEMMA OptionBuilds ==
  ASSUME NEW c, NEW k \in {3, 5, 11}, NEW h, Built(h, c, k - 1), NEW g \in {h, fails(h)}
  PROVE  Built(g, c, k)
<1>1. DOMAIN h = Fields /\ DOMAIN h.opts = Options /\ (~h.failed => FollowsWithCurl(h, c))
  BY DEF Built
<1>2. k \in 1..11 /\ k \notin {1, 7, 8, 9, 10}
  OBVIOUS
<1>3. Built(h, c, k)
  BY <1>1, <1>2, Unchanging
<1> QED BY <1>1, <1>3, Failing

\* Redirections are followed by both or by none.
LEMMA RedirectsBuilds ==
  ASSUME NEW c, NEW h, Built(h, c, 3), NEW g \in config_redirects(c, h)
  PROVE  Built(g, c, 4)
<1> DEFINE set == [h EXCEPT !.follow_redirects       = TRUE,
                            !.opts["FOLLOWLOCATION"] = 1,
                            !.opts["MAXREDIRS"]      = c.max_redirects]
<1>1. DOMAIN h = Fields /\ DOMAIN h.opts = Options /\ (~h.failed => FollowsWithCurl(h, c))
  BY DEF Built
<1>2. /\ DOMAIN set = Fields /\ DOMAIN set.opts = Options /\ set.failed = h.failed
      /\ set.headers = h.headers /\ set.opts["HTTPHEADER"] = h.opts["HTTPHEADER"]
      /\ set.max_payload_size = h.max_payload_size /\ set.data_block_size = h.data_block_size
      /\ set.control_block_size = h.control_block_size
      /\ set.follow_redirects = TRUE /\ set.opts["FOLLOWLOCATION"] = 1
      /\ set.opts["MAXREDIRS"] = c.max_redirects
  BY <1>1 DEF Fields, Options
<1> HIDE DEF set
<1>3. g \in {h, fails(h), set, fails(set)}
  BY DEF config_redirects, set_or_fails, set
<1>4. 4 \in 1..11 /\ 4 \notin {1, 7, 8, 9, 10} /\ 4 - 1 = 3
  OBVIOUS
<1>5. Built(h, c, 4)
  BY <1>1, <1>4, Unchanging
<1>6. Built(set, c, 4)
  <2>1. FollowsWithCurl(set, c)
    BY <1>2 DEF FollowsWithCurl
  <2>2. BlockSizes(h, c) => BlockSizes(set, c)
    BY <1>2 DEF BlockSizes
  <2> QED BY <1>2, <1>4, <2>1, <2>2, Unchanging
<1> QED BY <1>1, <1>2, <1>3, <1>5, <1>6, Failing

\* What is logged concerns nothing else.
LEMMA VerbosityBuilds ==
  ASSUME NEW c, NEW h, Built(h, c, 5), NEW g \in config_verbosity(c, h)
  PROVE  Built(g, c, 6)
<1> DEFINE set(n)  == [h EXCEPT !.verbose = n]
           curl(n) == [h EXCEPT !.verbose = n, !.opts["VERBOSE"] = 1]
<1>1. DOMAIN h = Fields /\ DOMAIN h.opts = Options /\ (~h.failed => FollowsWithCurl(h, c))
  BY DEF Built
<1>2. \/ g = fails(h)
      \/ g = set(c.verbose)
      \/ \E n : g = curl(n) \/ g = fails(curl(n))
  BY Zenon DEF config_verbosity, set_or_fails
<1>3. ASSUME NEW n, NEW r, r = set(n) \/ r = curl(n) PROVE Built(r, c, 6)
  <2>1. /\ DOMAIN r = Fields /\ DOMAIN r.opts = Options /\ r.failed = h.failed
        /\ r.headers = h.headers /\ r.follow_redirects = h.follow_redirects
        /\ r.max_payload_size = h.max_payload_size /\ r.data_block_size = h.data_block_size
        /\ r.control_block_size = h.control_block_size
        /\ r.opts["FOLLOWLOCATION"] = h.opts["FOLLOWLOCATION"]
        /\ r.opts["MAXREDIRS"] = h.opts["MAXREDIRS"] /\ r.opts["HTTPHEADER"] = h.opts["HTTPHEADER"]
    <3>1. CASE r = set(n)
      BY <1>1, <3>1 DEF Fields, Options
    <3>2. CASE r = curl(n)
      BY <1>1, <3>2 DEF Fields, Options
    <3> QED BY <1>3, <3>1, <3>2
  <2> HIDE DEF set, curl
  <2>2. ~r.failed => FollowsWithCurl(r, c)
    BY <1>1, <2>1 DEF FollowsWithCurl
  <2>3. BlockSizes(h, c) => BlockSizes(r, c)
    BY <2>1 DEF BlockSizes
  <2>4. 6 \in 1..11 /\ 6 \notin {1, 7, 8, 9, 10} /\ 6 - 1 = 5
    OBVIOUS
  <2> QED BY <2>1, <2>2, <2>3, <2>4, Unchanging
<1>4. ASSUME NEW n PROVE DOMAIN curl(n) = Fields /\ DOMAIN curl(n).opts = Options
  BY <1>1 DEF Fields, Options
<1>5. ASSUME NEW n PROVE Built(set(n), c, 6) /\ Built(curl(n), c, 6) /\ Built(fails(curl(n)), c, 6)
  <2>1. Built(set(n), c, 6) /\ Built(curl(n), c, 6)
    <3> HIDE DEF set, curl
    <3> QED BY <1>3
  <2>2. Built(fails(curl(n)), c, 6)
    <3> HIDE DEF set, curl
    <3> QED BY <1>4, Failing
  <2> QED BY <2>1, <2>2
<1>6. Built(fails(h), c, 6)
  BY <1>1, Failing
<1> HIDE DEF set, curl
<1> QED BY <1>2, <1>5, <1>6

\* Two handles that differ in the request only.
SameButLines(g, h) ==
  /\ DOMAIN g = Fields /\ DOMAIN g.opts = Options /\ g.failed = h.failed
  /\ g.follow_redirects = h.follow_redirects /\ g.opts = h.opts
  /\ g.max_payload_size = h.max_payload_size /\ g.data_block_size = h.data_block_size
  /\ g.control_block_size = h.control_block_size

\* A line more, ...
LEMMA LineAppended ==
  ASSUME NEW h, NEW line, DOMAIN h = Fields, DOMAIN h.opts = Options
  PROVE  SameButLines(append(h, line), h) /\ append(h, line).headers = Append(h.headers, line)
BY DEF append, SameButLines, Fields

\* ... and what it leaves known before the extra headers.
LEMMA LineBuilds ==
  ASSUME NEW c, NEW k \in 7..9, NEW h, NEW g, Built(h, c, k - 1), SameButLines(g, h),
         ~h.failed => g.headers = LinesAfter(c, k) /\ c.expect \in {0, 1}
  PROVE  Built(g, c, k)
<1>1. 0 < k - 1 /\ ~(9 < k)
  OBVIOUS
<1>2. ~h.failed => BlockSizes(g, c) /\ FollowsWithCurl(g, c)
  BY <1>1 DEF Built, SameButLines, BlockSizes, FollowsWithCurl
<1> QED BY <1>1, <1>2 DEF Built, SameButLines

\* The lines against the habits of curl.
LEMMA WorkaroundsBuilds ==
  ASSUME NEW c, NEW h, Built(h, c, 6), NEW g \in config_ws_workarounds(c, h)
  PROVE  Built(g, c, 7)
<1> DEFINE e == IF c.expect = 1 THEN append(h, Library("Expect")) ELSE h
           r == append(e, Library("Transfer-Encoding"))
<1>1. DOMAIN h = Fields /\ DOMAIN h.opts = Options
  BY DEF Built
<1>2. /\ SameButLines(e, h)
      /\ e.headers = IF c.expect = 1 THEN Append(h.headers, Library("Expect")) ELSE h.headers
  BY <1>1, LineAppended DEF SameButLines
<1> HIDE DEF e
<1>3. SameButLines(r, e) /\ r.headers = Append(e.headers, Library("Transfer-Encoding"))
  BY <1>2, LineAppended DEF SameButLines
<1> HIDE DEF r
<1>4. g \in {fails(h), fails(e), fails(r)} \/ (g = r /\ c.expect \in {0, 1})
  BY DEF config_ws_workarounds, set_or_fails, e, r
<1>5. CASE g \in {fails(h), fails(e), fails(r)}
  BY <1>1, <1>2, <1>3, <1>5, Failing DEF SameButLines
<1>6. CASE g = r /\ c.expect \in {0, 1}
  <2>1. ~h.failed => h.headers = << >>
    BY DEF Built, LinesAfter
  <2>2. Append(<< >>, Library("Expect")) = <<Library("Expect")>>
    OBVIOUS
  <2>3. ~h.failed => r.headers = LinesAfter(c, 7)
    BY <1>2, <1>3, <2>1, <2>2 DEF LinesAfter, WithEncoding
  <2>4. 7 \in 7..9 /\ 7 - 1 = 6
    OBVIOUS
  <2>5. SameButLines(r, h)
    BY <1>2, <1>3 DEF SameButLines
  <2> QED BY <1>6, <2>3, <2>4, <2>5, LineBuilds
<1> QED BY <1>4, <1>5, <1>6

\* The key, and what the server has to make of it.
LEMMA KeyBuilds ==
  ASSUME NEW c, NEW h, Built(h, c, 7), NEW g \in config_ws_key(c, h)
  PROVE  Built(g, c, 8)
<1> DEFINE e == append(h, Library("Sec-WebSocket-Key"))
           r == [e EXCEPT !.expected_key_header = "sha1"]
<1>1. DOMAIN h = Fields /\ DOMAIN h.opts = Options
  BY DEF Built
<1>2. SameButLines(e, h) /\ e.headers = Append(h.headers, Library("Sec-WebSocket-Key"))
  BY <1>1, LineAppended
<1>3. g \in {fails(h), r}
  BY DEF config_ws_key
<1> HIDE DEF e
<1>4. SameButLines(r, h) /\ r.headers = e.headers
  BY <1>2 DEF SameButLines, Fields
<1> HIDE DEF r
<1>5. Built(r, c, 8)
  <2>1. ~h.failed => h.headers = WithEncoding(c) /\ c.expect \in {0, 1}
    BY DEF Built, LinesAfter
  <2>2. ~h.failed => r.headers = LinesAfter(c, 8) /\ c.expect \in {0, 1}
    BY <1>2, <1>4, <2>1 DEF LinesAfter, WithKey
  <2>3. 8 \in 7..9 /\ 8 - 1 = 7
    OBVIOUS
  <2> QED BY <1>4, <2>2, <2>3, LineBuilds
<1> QED BY <1>1, <1>3, <1>5, Failing

\* The protocols, if there are any.
LEMMA ProtocolsBuilds ==
  ASSUME NEW c, NEW h, Built(h, c, 8), NEW g \in config_ws_protocols(c, h)
  PROVE  Built(g, c, 9)
<1> DEFINE e == append(h, Library("Sec-WebSocket-Protocol"))
           r == [e EXCEPT !.ws_protocols_requested = c.websocket_protocols]
<1>1. DOMAIN h = Fields /\ DOMAIN h.opts = Options
  BY DEF Built
<1>2. SameButLines(e, h) /\ e.headers = Append(h.headers, Library("Sec-WebSocket-Protocol"))
  BY <1>1, LineAppended
<1>3. \/ g = h /\ c.websocket_protocols = Unset
      \/ g \in {fails(h), fails(e)}
      \/ g = r /\ c.websocket_protocols # Unset
  BY DEF config_ws_protocols
<1> HIDE DEF e
<1>4. SameButLines(r, h) /\ r.headers = e.headers
  BY <1>2 DEF SameButLines, Fields
<1> HIDE DEF r
<1>5. ~h.failed => h.headers = WithKey(c) /\ c.expect \in {0, 1}
  BY DEF Built, LinesAfter
<1>6. 9 \in 7..9 /\ 9 - 1 = 8
  OBVIOUS
<1>7. CASE g = h /\ c.websocket_protocols = Unset
  <2>1. SameButLines(g, h)
    BY <1>1, <1>7 DEF SameButLines
  <2>2. ~h.failed => g.headers = LinesAfter(c, 9) /\ c.expect \in {0, 1}
    BY <1>5, <1>7 DEF LinesAfter, WithProtocol
  <2> QED BY <1>6, <2>1, <2>2, LineBuilds
<1>8. CASE g \in {fails(h), fails(e)}
  BY <1>1, <1>2, <1>8, Failing DEF SameButLines
<1>9. CASE g = r /\ c.websocket_protocols # Unset
  <2>1. ~h.failed => r.headers = LinesAfter(c, 9) /\ c.expect \in {0, 1}
    BY <1>2, <1>4, <1>5, <1>9 DEF LinesAfter, WithProtocol
  <2> QED BY <1>4, <1>6, <1>9, <2>1, LineBuilds
<1> QED BY <1>3, <1>7, <1>8, <1>9

\* The names of the library's own lines, and the lines there are if the application's have
\* names in S.
OwnNames == {"Expect", "Transfer-Encoding", "Sec-WebSocket-Key", "Sec-WebSocket-Protocol",
             "Connection", "Upgrade", "Sec-WebSocket-Version"}
Line(S)  == [name : OwnNames \cup S, from : {"library", "application"}]

\* Two sequences, one behind the other.
LEMMA Joined ==
  ASSUME NEW T, NEW q \in Seq(T), NEW r \in Seq(T)
  PROVE  /\ q \o r \in Seq(T) /\ Len(q \o r) = Len(q) + Len(r)
         /\ \A i \in 1..Len(q) : (q \o r)[i] = q[i]
         /\ \A i \in 1..Len(r) : (q \o r)[Len(q) + i] = r[i]
<1> DEFINE t == q \o r
<1>1. /\ t \in Seq(T) /\ Len(t) = Len(q) + Len(r)
      /\ \A i \in 1..Len(q) + Len(r) : t[i] = IF i <= Len(q) THEN q[i] ELSE r[i - Len(q)]
  BY ConcatProperties
<1> HIDE DEF t
<1>2. Len(q) \in Nat /\ Len(r) \in Nat
  OBVIOUS
<1>3. ASSUME NEW i \in 1..Len(q) PROVE t[i] = q[i]
  BY <1>1, <1>2
<1>4. ASSUME NEW i \in 1..Len(r) PROVE t[Len(q) + i] = r[i]
  <2>1. /\ Len(q) + i \in 1..Len(q) + Len(r) /\ ~(Len(q) + i <= Len(q))
        /\ Len(q) + i - Len(q) = i
    BY <1>2
  <2> QED BY <1>1, <2>1
<1> QED BY <1>1, <1>3, <1>4 DEF t

\* The lines of the upgrade, and those of the application behind them.
LEMMA UpgradeLines ==
  ASSUME NEW c, NEW S, c.extra_headers \in Seq(S)
  PROVE  LET lines == ws_headers \o Extras(c)
         IN  /\ lines \in Seq(Line(S)) /\ Len(lines) = 3 + Len(c.extra_headers)
             /\ SubSeq(lines, 1, Len(lines)) = lines
             /\ lines[1] = Library("Connection") /\ lines[2] = Library("Upgrade")
             /\ lines[3] = Library("Sec-WebSocket-Version")
             /\ \A i \in 1..Len(c.extra_headers) : lines[3 + i] = Extra(c.extra_headers[i])
<1> DEFINE lines == ws_headers \o Extras(c)
<1>1. Len(c.extra_headers) \in Nat /\ Len(Extras(c)) = Len(c.extra_headers)
      /\ \A i \in 1..Len(c.extra_headers) : Extras(c)[i] = Extra(c.extra_headers[i])
  BY DEF Extras
<1>2. /\ ws_headers \in Seq(Line(S)) /\ Len(ws_headers) = 3
      /\ ws_headers[1] = Library("Connection") /\ ws_headers[2] = Library("Upgrade")
      /\ ws_headers[3] = Library("Sec-WebSocket-Version")
      /\ Extras(c) \in Seq(Line(S))
  <2>1. \A n \in OwnNames \cup S : Library(n) \in Line(S) /\ Extra(n) \in Line(S)
    BY DEF Library, Extra, Line
  <2>2. /\ ws_headers \in Seq(Line(S)) /\ Len(ws_headers) = 3
        /\ ws_headers[1] = Library("Connection") /\ ws_headers[2] = Library("Upgrade")
        /\ ws_headers[3] = Library("Sec-WebSocket-Version")
    <3>1. ASSUME NEW x \in Line(S), NEW y \in Line(S), NEW z \in Line(S), ws_headers = <<x, y, z>>
          PROVE  /\ ws_headers \in Seq(Line(S)) /\ Len(ws_headers) = 3
                 /\ ws_headers[1] = x /\ ws_headers[2] = y /\ ws_headers[3] = z
      BY <3>1
    <3>2. /\ Library("Connection") \in Line(S) /\ Library("Upgrade") \in Line(S)
          /\ Library("Sec-WebSocket-Version") \in Line(S)
      BY <2>1 DEF OwnNames
    <3>3. ws_headers = <<Library("Connection"), Library("Upgrade"), Library("Sec-WebSocket-Version")>>
      BY DEF ws_headers
    <3> QED BY <3>1, <3>2, <3>3, Zenon
  <2>3. \A i \in 1..Len(c.extra_headers) : c.extra_headers[i] \in S
    OBVIOUS
  <2>4. Extras(c) \in Seq(Line(S))
    <3>1. Extras(c) \in [1..Len(c.extra_headers) -> Line(S)]
      BY <2>1, <2>3 DEF Extras
    <3> QED BY <1>1, <3>1, SeqDef
  <2> QED BY <2>2, <2>4
<1>3. /\ lines \in Seq(Line(S)) /\ Len(lines) = Len(ws_headers) + Len(Extras(c))
      /\ \A i \in 1..Len(ws_headers) : lines[i] = ws_headers[i]
      /\ \A i \in 1..Len(Extras(c)) : lines[Len(ws_headers) + i] = Extras(c)[i]
  <2>1. ws_headers \in Seq(Line(S)) /\ Extras(c) \in Seq(Line(S))
    BY <1>2
  <2> QED BY <2>1, Joined, SMTT(30)
<1>4. ASSUME NEW q \in Seq(Line(S)) PROVE SubSeq(q, 1, Len(q)) = q
  OBVIOUS
<1> HIDE DEF lines
<1>5. lines[1] = ws_headers[1] /\ lines[2] = ws_headers[2] /\ lines[3] = ws_headers[3]
  BY <1>2, <1>3
<1>6. ASSUME NEW i \in 1..Len(c.extra_headers) PROVE lines[3 + i] = Extra(c.extra_headers[i])
  BY <1>1, <1>2, <1>3
<1>7. SubSeq(lines, 1, Len(lines)) = lines
  BY <1>3, <1>4
<1> QED BY <1>1, <1>2, <1>3, <1>5, <1>6, <1>7 DEF lines

\* The lines of the upgrade and those of the application, if none of them is disallowed.
LEMMA HttpHeadersBuilds ==
  ASSUME NEW c, NEW S, c.extra_headers \in Seq(S), NEW h, Built(h, c, 9),
         NEW g \in config_http_headers(c, h)
  PROVE  Built(g, c, 10)
<1> DEFINE lines    == ws_headers \o Extras(c)
           first(n) == [h EXCEPT !.headers = @ \o SubSeq(lines, 1, n)]
           bad      == {i \in 1..Len(lines) : /\ lines[i].from = "application"
                                             /\ lines[i].name \in disallowed}
           all      == first(Len(lines))
           set      == [all EXCEPT !.opts["HTTPHEADER"] = all.headers]
<1>1. DOMAIN h = Fields /\ DOMAIN h.opts = Options
  BY DEF Built
<1>2. Len(c.extra_headers) \in Nat
  OBVIOUS
<1>3. /\ Len(lines) = 3 + Len(c.extra_headers) /\ SubSeq(lines, 1, Len(lines)) = lines
      /\ \A i \in 1..Len(c.extra_headers) : lines[3 + i] = Extra(c.extra_headers[i])
  BY UpgradeLines
<1> HIDE DEF lines
<1>4. \/ \E n : g = fails(first(n))
      \/ bad = {} /\ g \in {set, fails(set)}
  BY Zenon DEF config_http_headers, set_or_fails, lines, Extras
<1>5. ASSUME NEW n PROVE Built(fails(first(n)), c, 10)
  <2>1. DOMAIN first(n) = Fields /\ DOMAIN first(n).opts = Options
    BY <1>1 DEF Fields
  <2> HIDE DEF first
  <2> QED BY <2>1, Failing
<1>6. /\ DOMAIN set = Fields /\ DOMAIN set.opts = Options /\ set.failed = h.failed
      /\ set.headers = h.headers \o lines /\ set.follow_redirects = h.follow_redirects
      /\ set.max_payload_size = h.max_payload_size /\ set.data_block_size = h.data_block_size
      /\ set.control_block_size = h.control_block_size
      /\ set.opts["FOLLOWLOCATION"] = h.opts["FOLLOWLOCATION"]
      /\ set.opts["MAXREDIRS"] = h.opts["MAXREDIRS"]
      /\ set.opts["HTTPHEADER"] = set.headers
  BY <1>1, <1>3 DEF Fields, Options
<1> HIDE DEF first, set
<1>7. ASSUME bad = {} PROVE Built(set, c, 10)
  <2>1. ASSUME NEW i \in 1..Len(c.extra_headers) PROVE c.extra_headers[i] \notin disallowed
    <3>1. 3 + i \in 1..Len(lines) /\ lines[3 + i] = Extra(c.extra_headers[i])
      BY <1>2, <1>3
    <3>2. lines[3 + i].from = "application" /\ lines[3 + i].name = c.extra_headers[i]
      BY <3>1 DEF Extra
    <3> QED BY <1>7, <3>1, <3>2
  <2>2. ~h.failed => /\ h.headers = WithProtocol(c) /\ c.expect \in {0, 1}
                     /\ BlockSizes(h, c) /\ FollowsWithCurl(h, c)
    BY DEF Built, LinesAfter
  <2>3. ~h.failed => set.headers = LinesAfter(c, 10)
    <3>1. LinesAfter(c, 10) = WithProtocol(c) \o lines
      BY DEF LinesAfter, WithAll, lines
    <3> QED BY <1>6, <2>2, <3>1
  <2>4. ~h.failed => BlockSizes(set, c) /\ FollowsWithCurl(set, c)
    BY <1>6, <2>2 DEF BlockSizes, FollowsWithCurl
  <2> QED BY <1>6, <2>1, <2>2, <2>3, <2>4 DEF Built
<1>8. Built(fails(set), c, 10)
  BY <1>6, Failing
<1> QED BY <1>4, <1>5, <1>7, <1>8

\* No more is known of a new handle.
LEMMA NewBuilds ==
  ASSUME NEW c
  PROVE  Built(NewHandle, c, 0)
<1>1. /\ DOMAIN NewHandle = Fields /\ DOMAIN NewHandle.opts = Options
      /\ NewHandle.headers = << >> /\ NewHandle.follow_redirects = FALSE
      /\ NewHandle.opts["FOLLOWLOCATION"] = Unset
  BY DEF NewHandle, Fields, Options
<1>2. FollowsWithCurl(NewHandle, c)
  BY <1>1, RequestAssumption DEF FollowsWithCurl
<1>3. LinesAfter(c, 0) = << >>
  BY DEF LinesAfter
<1> QED BY <1>1, <1>2, <1>3 DEF Built

\* The names of the steps in their order.
LEMMA StepNames ==
  /\ Len(ConfigSteps) = 11
  /\ ConfigSteps[1] = "memorypool" /\ ConfigSteps[2] = "url" /\ ConfigSteps[3] = "security"
  /\ ConfigSteps[4] = "redirects" /\ ConfigSteps[5] = "callbacks" /\ ConfigSteps[6] = "verbosity"
  /\ ConfigSteps[7] = "ws_workarounds" /\ ConfigSteps[8] = "ws_key"
  /\ ConfigSteps[9] = "ws_protocols" /\ ConfigSteps[10] = "http_headers"
  /\ ConfigSteps[11] = "configure"
BY DEF ConfigSteps

\* Each step adds to what is known.
LEMMA StepBuilds ==
  ASSUME NEW c, NEW S, c.extra_headers \in Seq(S), NEW k \in 1..11, NEW h, Built(h, c, k - 1),
         NEW g \in step(ConfigSteps[k], c, h)
  PROVE  Built(g, c, k)
<1>1. CASE k = 1
  <2>1. g \in config_memorypool(c, h) /\ Built(h, c, 0)
    BY <1>1, StepNames DEF step
  <2> QED BY <1>1, <2>1, MemorypoolBuilds
<1>2. CASE k = 2
  <2>1. g \in config_url(c, h) /\ Built(h, c, 1)
    BY <1>2, StepNames DEF step
  <2> QED BY <1>2, <2>1, UrlBuilds
<1>3. CASE k \in {3, 5, 11}
  <2>1. g \in {h, fails(h)}
    BY <1>3, StepNames DEF step, config_security, init_callbacks, configure, set_or_fails
  <2> QED BY <1>3, <2>1, OptionBuilds
<1>4. CASE k = 4
  <2>1. g \in config_redirects(c, h) /\ Built(h, c, 3)
    BY <1>4, StepNames DEF step
  <2> QED BY <1>4, <2>1, RedirectsBuilds
<1>6. CASE k = 6
  <2>1. g \in config_verbosity(c, h) /\ Built(h, c, 5)
    BY <1>6, StepNames DEF step
  <2> QED BY <1>6, <2>1, VerbosityBuilds
<1>7. CASE k = 7
  <2>1. g \in config_ws_workarounds(c, h) /\ Built(h, c, 6)
    BY <1>7, StepNames DEF step
  <2> QED BY <1>7, <2>1, WorkaroundsBuilds
<1>8. CASE k = 8
  <2>1. g \in config_ws_key(c, h) /\ Built(h, c, 7)
    BY <1>8, StepNames DEF step
  <2> QED BY <1>8, <2>1, KeyBuilds
<1>9. CASE k = 9
  <2>1. g \in config_ws_protocols(c, h) /\ Built(h, c, 8)
    BY <1>9, StepNames DEF step
  <2> QED BY <1>9, <2>1, ProtocolsBuilds
<1>10. CASE k = 10
  <2>1. g \in config_http_headers(c, h) /\ Built(h, c, 9)
    BY <1>10, StepNames DEF step
  <2> QED BY <1>10, <2>1, HttpHeadersBuilds
<1> QED BY <1>1, <1>2, <1>3, <1>4, <1>6, <1>7, <1>8, <1>9, <1>10

\* The handles of a set after one step more.
Stepped(c, k, H) == UNION {step(ConfigSteps[k], c, h) : h \in H}

\* f lists the handles after each of the k steps.
IsAfter(c, f, k) ==
  f = [i \in 0..k |-> IF i = 0 THEN {NewHandle} ELSE Stepped(c, i, f[i - 1])]

\* There is such a list as far as k if there is one as far as k - 1.
LEMMA AfterGoesOn ==
  ASSUME NEW c, NEW k \in Nat, k # 0, NEW f, IsAfter(c, f, k - 1)
  PROVE  \E g : IsAfter(c, g, k)
<1> DEFINE g == [i \in 0..k |-> IF i = k THEN Stepped(c, k, f[k - 1]) ELSE f[i]]
<1>1. \A i \in 0..k - 1 : f[i] = IF i = 0 THEN {NewHandle} ELSE Stepped(c, i, f[i - 1])
  BY DEF IsAfter
<1>2. \A i \in 0..k : g[i] = IF i = 0 THEN {NewHandle} ELSE Stepped(c, i, g[i - 1])
  <2> TAKE i \in 0..k
  <2>1. k - 1 \in 0..k /\ k - 1 # k
    OBVIOUS
  <2>2. CASE i = k
    BY <2>1, <2>2
  <2>3. CASE i # k /\ i # 0
    <3>1. i \in 0..k - 1 /\ i - 1 \in 0..k /\ i - 1 # k
      BY <2>3
    <3>2. g[i] = f[i] /\ g[i - 1] = f[i - 1]
      BY <2>3, <3>1
    <3> QED BY <1>1, <2>3, <3>1, <3>2
  <2>4. CASE i = 0
    BY <1>1, <2>1, <2>4
  <2> QED BY <2>2, <2>3, <2>4
<1>3. IsAfter(c, g, k)
  <2>1. \A i \in 0..k : IF i = 0 THEN TRUE ELSE i - 1 \in 0..k
    OBVIOUS
  <2>2. g = [i \in 0..k |-> g[i]]
    OBVIOUS
  <2> HIDE DEF g
  <2> QED BY <1>2, <2>2 DEF IsAfter
<1> QED BY <1>3

\* So there is one of all steps.
LEMMA AfterIsDefined ==
  ASSUME NEW c
  PROVE  \E f : IsAfter(c, f, 11)
<1> DEFINE Missing == {k \in 0..11 : ~ \E f : IsAfter(c, f, k)}
<1>1. \E f : IsAfter(c, f, 0)
  <2>1. IsAfter(c, [i \in 0..0 |-> {NewHandle}], 0)
    BY DEF IsAfter
  <2> QED BY <2>1
<1>2. ASSUME Missing # {} PROVE FALSE
  <2>1. PICK k \in Missing : \A j \in Missing : k <= j
    <3>1. Missing \subseteq Nat
      OBVIOUS
    <3> HIDE DEF Missing
    <3> QED BY <1>2, <3>1, LeastNumber
  <2>2. k \in 0..11 /\ k # 0 /\ ~ \E f : IsAfter(c, f, k)
    BY <1>1, <2>1
  <2>3. k - 1 \in 0..11 /\ k - 1 \notin Missing
    BY <2>1, <2>2
  <2> QED BY <2>2, <2>3, AfterGoesOn
<1> QED BY <1>2

\* What is known of every handle after all steps.
LEMMA AllAreBuilt ==
  ASSUME NEW c, NEW S, c.extra_headers \in Seq(S), NEW h \in after(c, 11)
  PROVE  Built(h, c, 11)
<1> DEFINE f == CHOOSE f : IsAfter(c, f, 11)
<1>1. IsAfter(c, f, 11)
  BY AfterIsDefined
<1>2. after(c, 11) = f[11]
  BY DEF after, IsAfter, Stepped
<1> HIDE DEF f
<1>3. f[0] = {NewHandle} /\ \A i \in 1..11 : f[i] = Stepped(c, i, f[i - 1])
  <2>1. \A i \in 0..11 : f[i] = IF i = 0 THEN {NewHandle} ELSE Stepped(c, i, f[i - 1])
    BY <1>1 DEF IsAfter
  <2> QED BY <2>1
<1> DEFINE Known(i) == \A g \in f[i] : Built(g, c, i)
<1>4. Known(0)
  BY <1>3, NewBuilds
<1>5. ASSUME NEW i \in 1..11, Known(i - 1) PROVE Known(i)
  <2>1. SUFFICES ASSUME NEW g \in f[i] PROVE Built(g, c, i)
    OBVIOUS
  <2>2. PICK k \in f[i - 1] : g \in step(ConfigSteps[i], c, k)
    BY <1>3 DEF Stepped
  <2>3. Built(k, c, i - 1)
    BY <1>5
  <2> QED BY <2>2, <2>3, StepBuilds
<1> DEFINE Unknown == {i \in 0..11 : ~Known(i)}
<1>6. ASSUME Unknown # {} PROVE FALSE
  <2> HIDE DEF Known
  <2>1. PICK k \in Unknown : \A j \in Unknown : k <= j
    <3>1. Unknown \subseteq Nat
      OBVIOUS
    <3> HIDE DEF Unknown
    <3> QED BY <1>6, <3>1, LeastNumber
  <2>2. k \in 1..11 /\ ~Known(k)
    BY <1>4, <2>1
  <2>3. k - 1 \in 0..11 /\ k - 1 \notin Unknown
    BY <2>1, <2>2
  <2> QED BY <1>5, <2>2, <2>3
<1>7. Known(11)
  BY <1>6
<1> QED BY <1>2, <1>7

\* One line more.
LEMMA LineMore ==
  ASSUME NEW T, NEW q \in Seq(T), NEW x \in T
  PROVE  /\ Append(q, x) \in Seq(T) /\ Len(Append(q, x)) = Len(q) + 1
         /\ Append(q, x)[Len(q) + 1] = x
         /\ \A i \in 1..Len(q) : Append(q, x)[i] = q[i]
OBVIOUS

\* The name of the i-th line of a request, of which the library sends e + p + 5: e of them
\* expect, and p ask for protocols.
OwnName(e, p, i) ==
  IF i = e THEN "Expect"
  ELSE IF i = e + 1 THEN "Transfer-Encoding"
  ELSE IF i = e + 2 THEN "Sec-WebSocket-Key"
  ELSE IF i = e + p + 3 THEN "Connection"
  ELSE IF i = e + p + 4 THEN "Upgrade"
  ELSE IF i = e + p + 5 THEN "Sec-WebSocket-Version"
  ELSE "Sec-WebSocket-Protocol"

Expecting(c) == IF c.expect = 1 THEN 1 ELSE 0
Asking(c)    == IF c.websocket_protocols = Unset THEN 0 ELSE 1

\* The lines before those that every request has.
LEMMA FirstLines ==
  ASSUME NEW c, NEW S
  PROVE  LET e == Expecting(c)  p == Asking(c)
         IN  /\ WithProtocol(c) \in Seq(Line(S)) /\ Len(WithProtocol(c)) = e + p + 2
             /\ \A i \in 1..e + p + 2 : WithProtocol(c)[i] = Library(OwnName(e, p, i))
<1> DEFINE e == Expecting(c)
           p == Asking(c)
           q == IF c.expect = 1 THEN <<Library("Expect")>> ELSE << >>
<1>1. e \in {0, 1} /\ p \in {0, 1}
  BY DEF Expecting, Asking
<1>2. \A n \in OwnNames : Library(n) \in Line(S)
  BY DEF Library, Line
<1>3. /\ Library("Expect") \in Line(S) /\ Library("Transfer-Encoding") \in Line(S)
      /\ Library("Sec-WebSocket-Key") \in Line(S) /\ Library("Sec-WebSocket-Protocol") \in Line(S)
  BY <1>2 DEF OwnNames
<1>4. q \in Seq(Line(S)) /\ Len(q) = e /\ (e = 1 => q[1] = Library("Expect"))
  <2>1. ASSUME NEW x \in Line(S)
        PROVE  <<x>> \in Seq(Line(S)) /\ Len(<<x>>) = 1 /\ <<x>>[1] = x
    OBVIOUS
  <2>2. << >> \in Seq(Line(S)) /\ Len(<< >>) = 0
    OBVIOUS
  <2> QED BY <1>3, <2>1, <2>2 DEF Expecting
<1>5. /\ WithEncoding(c) \in Seq(Line(S)) /\ Len(WithEncoding(c)) = e + 1
      /\ (e = 1 => WithEncoding(c)[1] = Library("Expect"))
      /\ WithEncoding(c)[e + 1] = Library("Transfer-Encoding")
  <2>1. WithEncoding(c) = Append(q, Library("Transfer-Encoding"))
    BY DEF WithEncoding
  <2> HIDE DEF q, e
  <2> QED BY <1>1, <1>3, <1>4, <2>1, LineMore
<1> HIDE DEF q, e, p
<1>6. /\ WithKey(c) \in Seq(Line(S)) /\ Len(WithKey(c)) = e + 2
      /\ (e = 1 => WithKey(c)[1] = Library("Expect"))
      /\ WithKey(c)[e + 1] = Library("Transfer-Encoding")
      /\ WithKey(c)[e + 2] = Library("Sec-WebSocket-Key")
  <2>1. WithKey(c) = Append(WithEncoding(c), Library("Sec-WebSocket-Key"))
    BY DEF WithKey
  <2> QED BY <1>1, <1>3, <1>5, <2>1, LineMore
<1>7. /\ WithProtocol(c) \in Seq(Line(S)) /\ Len(WithProtocol(c)) = e + p + 2
      /\ (e = 1 => WithProtocol(c)[1] = Library("Expect"))
      /\ WithProtocol(c)[e + 1] = Library("Transfer-Encoding")
      /\ WithProtocol(c)[e + 2] = Library("Sec-WebSocket-Key")
      /\ (p = 1 => WithProtocol(c)[e + 3] = Library("Sec-WebSocket-Protocol"))
  <2>1. CASE p = 0
    <3>1. WithProtocol(c) = WithKey(c)
      BY <2>1 DEF WithProtocol, p, Asking
    <3> QED BY <1>1, <1>6, <2>1, <3>1
  <2>2. CASE p = 1
    <3>1. WithProtocol(c) = Append(WithKey(c), Library("Sec-WebSocket-Protocol"))
      BY <2>2 DEF WithProtocol, p, Asking
    <3> QED BY <1>1, <1>3, <1>6, <2>2, <3>1, LineMore
  <2> QED BY <1>1, <2>1, <2>2
<1>8. ASSUME NEW i \in 1..e + p + 2 PROVE WithProtocol(c)[i] = Library(OwnName(e, p, i))
  <2>1. (e = 0 \/ e = 1) /\ (p = 0 \/ p = 1)
    BY <1>1
  <2>2. (i = e /\ e = 1) \/ i = e + 1 \/ i = e + 2 \/ (i = e + 3 /\ p = 1)
    BY <2>1
  <2> QED BY <1>7, <2>1, <2>2 DEF OwnName
<1> QED BY <1>7, <1>8 DEF e, p

\* All lines of the request: those of the library, then those of the application.
LEMMA AllLines ==
  ASSUME NEW c, NEW S, c.extra_headers \in Seq(S)
  PROVE  LET e == Expecting(c)  p == Asking(c)  n == Len(c.extra_headers)  q == WithAll(c)
         IN  /\ Len(q) = e + p + 5 + n
             /\ \A i \in 1..e + p + 5 : q[i] = Library(OwnName(e, p, i))
             /\ \A i \in 1..n : q[e + p + 5 + i] = Extra(c.extra_headers[i])
<1> DEFINE e == Expecting(c)
           p == Asking(c)
           n == Len(c.extra_headers)
           r == ws_headers \o Extras(c)
           w == WithProtocol(c)
           q == WithAll(c)
<1>1. e \in Nat /\ p \in Nat /\ n \in Nat /\ (e = 0 \/ e = 1) /\ (p = 0 \/ p = 1)
  BY DEF Expecting, Asking
<1>2. /\ r \in Seq(Line(S)) /\ Len(r) = 3 + n
      /\ r[1] = Library("Connection") /\ r[2] = Library("Upgrade")
      /\ r[3] = Library("Sec-WebSocket-Version")
      /\ \A i \in 1..n : r[3 + i] = Extra(c.extra_headers[i])
  BY UpgradeLines
<1>3. /\ w \in Seq(Line(S)) /\ Len(w) = e + p + 2
      /\ \A i \in 1..e + p + 2 : w[i] = Library(OwnName(e, p, i))
  BY FirstLines
<1>4. q = w \o r
  BY DEF WithAll
<1> HIDE DEF e, p, n, r, w, q
<1>5. /\ Len(q) = e + p + 2 + (3 + n)
      /\ \A i \in 1..e + p + 2 : q[i] = w[i]
      /\ \A i \in 1..3 + n : q[e + p + 2 + i] = r[i]
  <2>1. /\ Len(w \o r) = Len(w) + Len(r)
        /\ \A i \in 1..Len(w) : (w \o r)[i] = w[i]
        /\ \A i \in 1..Len(r) : (w \o r)[Len(w) + i] = r[i]
    <3>1. w \in Seq(Line(S)) /\ r \in Seq(Line(S))
      BY <1>2, <1>3
    <3> QED BY <3>1, Joined
  <2>2. Len(w) = e + p + 2 /\ Len(r) = 3 + n
    BY <1>2, <1>3
  <2> QED BY <1>4, <2>1, <2>2, Zenon
<1>6. ASSUME NEW i \in 1..e + p + 5 PROVE q[i] = Library(OwnName(e, p, i))
  <2>1. CASE i \in 1..e + p + 2
    BY <1>3, <1>5, <2>1
  <2>2. CASE i \notin 1..e + p + 2
    <3>1. i = e + p + 3 \/ i = e + p + 4 \/ i = e + p + 5
      BY <1>1, <2>2
    <3>2. /\ q[e + p + 2 + 1] = r[1] /\ q[e + p + 2 + 2] = r[2] /\ q[e + p + 2 + 3] = r[3]
          /\ e + p + 2 + 1 = e + p + 3 /\ e + p + 2 + 2 = e + p + 4 /\ e + p + 2 + 3 = e + p + 5
      BY <1>1, <1>5
    <3>3. /\ OwnName(e, p, e + p + 3) = "Connection" /\ OwnName(e, p, e + p + 4) = "Upgrade"
          /\ OwnName(e, p, e + p + 5) = "Sec-WebSocket-Version"
      BY <1>1 DEF OwnName
    <3> QED BY <1>2, <3>1, <3>2, <3>3
  <2> QED BY <2>1, <2>2
<1>7. ASSUME NEW i \in 1..n PROVE q[e + p + 5 + i] = Extra(c.extra_headers[i])
  <2>1. 3 + i \in 1..3 + n /\ e + p + 2 + (3 + i) = e + p + 5 + i
    BY <1>1
  <2> QED BY <1>2, <1>5, <2>1
<1>8. Len(q) = e + p + 5 + n
  BY <1>1, <1>5
<1> QED BY <1>6, <1>7, <1>8 DEF e, p, n, q

\* A line that the library sends is there once, if the application may not add it.
LEMMA SentOnce ==
  ASSUME NEW c, NEW S, c.extra_headers \in Seq(S), NEW h, h.headers = WithAll(c),
         \A i \in 1..Len(c.extra_headers) : c.extra_headers[i] \notin disallowed,
         NEW name \in disallowed
  PROVE  LET e == Expecting(c)  p == Asking(c)
         IN  Named(h, name) = {i \in 1..e + p + 5 : OwnName(e, p, i) = name}
<1> DEFINE e == Expecting(c)
           p == Asking(c)
           n == Len(c.extra_headers)
<1>1. e \in Nat /\ p \in Nat /\ n \in Nat
  BY DEF Expecting, Asking
<1>2. /\ Len(h.headers) = e + p + 5 + n
      /\ \A i \in 1..e + p + 5 : h.headers[i] = Library(OwnName(e, p, i))
      /\ \A i \in 1..n : h.headers[e + p + 5 + i] = Extra(c.extra_headers[i])
  BY AllLines
<1> HIDE DEF e, p, n
<1>3. \A m : Library(m).name = m /\ Extra(m).name = m
  BY DEF Library, Extra
<1>4. ASSUME NEW i \in 1..e + p + 5 + n, i \notin 1..e + p + 5 PROVE h.headers[i].name # name
  <2>1. i - (e + p + 5) \in 1..n /\ e + p + 5 + (i - (e + p + 5)) = i
    BY <1>1, <1>4
  <2>2. h.headers[i] = Extra(c.extra_headers[i - (e + p + 5)])
    BY <1>2, <2>1
  <2>3. c.extra_headers[i - (e + p + 5)] \notin disallowed
    BY <1>1, <2>1 DEF n
  <2> QED BY <1>3, <2>2, <2>3
<1>5. \A i \in 1..e + p + 5 : i \in 1..e + p + 5 + n /\ h.headers[i].name = OwnName(e, p, i)
  BY <1>1, <1>2, <1>3
<1> QED BY <1>2, <1>4, <1>5 DEF Named, e, p

\* The positions of the names.
LEMMA NamePositions ==
  ASSUME NEW e \in {0, 1}, NEW p \in {0, 1}
  PROVE  LET At(name) == {i \in 1..e + p + 5 : OwnName(e, p, i) = name}
         IN  /\ At("Expect") = IF e = 1 THEN {1} ELSE {}
             /\ At("Transfer-Encoding") = {e + 1} /\ At("Sec-WebSocket-Key") = {e + 2}
             /\ At("Sec-WebSocket-Protocol") = IF p = 1 THEN {e + 3} ELSE {}
             /\ At("Connection") = {e + p + 3} /\ At("Upgrade") = {e + p + 4}
             /\ At("Sec-WebSocket-Version") = {e + p + 5}
<1> DEFINE At(name) == {i \in 1..e + p + 5 : OwnName(e, p, i) = name}
<1>1. (e = 0 \/ e = 1) /\ (p = 0 \/ p = 1)
  OBVIOUS
<1>2. At("Expect") = IF e = 1 THEN {1} ELSE {}
  BY <1>1 DEF OwnName
<1>3. At("Transfer-Encoding") = {e + 1} /\ At("Sec-WebSocket-Key") = {e + 2}
  BY <1>1 DEF OwnName
<1>4. At("Sec-WebSocket-Protocol") = IF p = 1 THEN {e + 3} ELSE {}
  BY <1>1 DEF OwnName
<1>5. At("Connection") = {e + p + 3} /\ At("Upgrade") = {e + p + 4}
  BY <1>1 DEF OwnName
<1>6. At("Sec-WebSocket-Version") = {e + p + 5}
  BY <1>1 DEF OwnName
<1> QED BY <1>2, <1>3, <1>4, <1>5, <1>6

\* So the request is an upgrade, ...
LEMMA IsUpgrade ==
  ASSUME NEW c, NEW S, c.extra_headers \in Seq(S), NEW h, ~h.failed, Built(h, c, 11)
  PROVE  RequestIsUpgrade(h, c)
<1> DEFINE e == Expecting(c)
           p == Asking(c)
           n == Len(c.extra_headers)
           At(name) == {i \in 1..e + p + 5 : OwnName(e, p, i) = name}
<1>1. /\ h.headers = WithAll(c) /\ c.expect \in {0, 1} /\ h.opts["HTTPHEADER"] = h.headers
      /\ \A i \in 1..Len(c.extra_headers) : c.extra_headers[i] \notin disallowed
  BY DEF Built, LinesAfter
<1>2. /\ e \in {0, 1} /\ p \in {0, 1} /\ c.expect = e
      /\ p = IF c.websocket_protocols = Unset THEN 0 ELSE 1
  BY <1>1 DEF Expecting, Asking
<1>3. \A name \in disallowed : Named(h, name) = At(name)
  BY <1>1, SentOnce
<1>4. /\ "Expect" \in disallowed /\ "Transfer-Encoding" \in disallowed
      /\ "Sec-WebSocket-Key" \in disallowed /\ "Sec-WebSocket-Protocol" \in disallowed
      /\ "Connection" \in disallowed /\ "Upgrade" \in disallowed
      /\ "Sec-WebSocket-Version" \in disallowed
  BY DEF disallowed
<1>5. /\ Len(h.headers) = e + p + 5 + n /\ n \in Nat
      /\ \A i \in 1..e + p + 5 : h.headers[i] = Library(OwnName(e, p, i))
      /\ \A i \in 1..n : h.headers[e + p + 5 + i] = Extra(c.extra_headers[i])
  BY <1>1, AllLines
<1> HIDE DEF e, p, n
<1>6. /\ At("Expect") = IF e = 1 THEN {1} ELSE {}
      /\ At("Transfer-Encoding") = {e + 1} /\ At("Sec-WebSocket-Key") = {e + 2}
      /\ At("Sec-WebSocket-Protocol") = IF p = 1 THEN {e + 3} ELSE {}
      /\ At("Connection") = {e + p + 3} /\ At("Upgrade") = {e + p + 4}
      /\ At("Sec-WebSocket-Version") = {e + p + 5}
  BY <1>2, NamePositions
<1> HIDE DEF At
<1>7. (\A x : Cardinality({x}) = 1) /\ Cardinality({}) = 0
  BY FS_Singleton, FS_EmptySet
<1>8. /\ Cardinality(Named(h, "Transfer-Encoding")) = 1
      /\ Cardinality(Named(h, "Sec-WebSocket-Key")) = 1
      /\ Cardinality(Named(h, "Connection")) = 1
      /\ Cardinality(Named(h, "Upgrade")) = 1
      /\ Cardinality(Named(h, "Sec-WebSocket-Version")) = 1
  <2>1. /\ Named(h, "Transfer-Encoding") = {e + 1} /\ Named(h, "Sec-WebSocket-Key") = {e + 2}
        /\ Named(h, "Connection") = {e + p + 3} /\ Named(h, "Upgrade") = {e + p + 4}
        /\ Named(h, "Sec-WebSocket-Version") = {e + p + 5}
    BY <1>3, <1>4, <1>6, Zenon
  <2> QED BY <1>7, <2>1, Zenon
<1>9. Cardinality(Named(h, "Expect")) = c.expect
  <2>1. Named(h, "Expect") = IF e = 1 THEN {1} ELSE {}
    BY <1>3, <1>4, <1>6, Zenon
  <2>2. (Named(h, "Expect") = {1} /\ e = 1) \/ (Named(h, "Expect") = {} /\ e = 0)
    BY <1>2, <2>1
  <2> QED BY <1>2, <1>7, <2>2, Zenon
<1>10. Cardinality(Named(h, "Sec-WebSocket-Protocol"))
         = IF c.websocket_protocols = Unset THEN 0 ELSE 1
  <2>1. Named(h, "Sec-WebSocket-Protocol") = IF p = 1 THEN {e + 3} ELSE {}
    BY <1>3, <1>4, <1>6, Zenon
  <2>2. \/ Named(h, "Sec-WebSocket-Protocol") = {e + 3} /\ p = 1
        \/ Named(h, "Sec-WebSocket-Protocol") = {} /\ p = 0
    BY <1>2, <2>1
  <2>3. Cardinality(Named(h, "Sec-WebSocket-Protocol")) = p
    BY <1>7, <2>2, Zenon
  <2> QED BY <1>2, <2>3
<1>11. /\ \A i \in 1..Len(h.headers) - n : h.headers[i].from = "library"
       /\ \A i \in 1..n : h.headers[Len(h.headers) - n + i] = Extra(c.extra_headers[i])
  <2>1. Len(h.headers) - n = e + p + 5
    BY <1>2, <1>5
  <2>2. \A m : Library(m).from = "library"
    BY DEF Library
  <2> QED BY <1>5, <2>1, <2>2
<1> QED BY <1>1, <1>8, <1>9, <1>10, <1>11 DEF RequestIsUpgrade, n

\* ... and the blocks hold their frames.
LEMMA FramesHaveBlocks ==
  ASSUME NEW c, c.max_payload_size \in Nat, NEW h, ~h.failed, Built(h, c, 11)
  PROVE  BlocksHoldFrames(h)
<1>1. /\ h.max_payload_size \in Nat
      /\ h.data_block_size = BufOverhead + (h.max_payload_size + 14)
      /\ h.control_block_size = BufOverhead + 131
  BY DEF Built, BlockSizes, WS_FRAME_HEADER_MAX, WS_CTL_FRAME_MAX, WS_FRAME_HEADER_MIN,
         WS_FRAME_HEADER_MASK, WS_CTL_PAYLOAD_MAX
<1>2. BufOverhead \in Nat
  BY RequestAssumption
<1>3. /\ h.data_block_size - BufOverhead = h.max_payload_size + 14
      /\ h.control_block_size - BufOverhead = 131
  BY <1>1, <1>2
<1>4. ASSUME NEW n \in Nat, NEW room \in Nat, n + 14 <= room \/ (n <= 125 /\ n + 6 <= room)
      PROVE  frame_encode(n, room) \in 1..room
  <2>1. /\ encoded_header_len(n) \in 6..14
        /\ n <= 125 => encoded_header_len(n) = 6
    BY DEF encoded_header_len, WS_FRAME_HEADER_MAX, WS_FRAME_HEADER_MIN, WS_FRAME_HEADER_MASK
  <2> QED BY <1>4, <2>1 DEF frame_encode, WS_FRAME_HEADER_MIN, WS_FRAME_HEADER_MASK
<1>5. ASSUME NEW n \in {0, 1, 125, 126, 65535, 65536}, n <= h.max_payload_size
      PROVE  frame_encode(n, h.max_payload_size + 14) \in 1..h.max_payload_size + 14
  BY <1>1, <1>4, <1>5
<1>6. ASSUME NEW n \in {0, 1, WS_CTL_PAYLOAD_MAX} PROVE frame_encode(n, 131) \in 1..131
  <2>1. n \in Nat /\ n <= 125 /\ n + 6 <= 131 /\ 131 \in Nat
    BY DEF WS_CTL_PAYLOAD_MAX
  <2> QED BY <1>4, <2>1
<1> QED BY <1>3, <1>5, <1>6 DEF BlocksHoldFrames

\* Whatever the configuration, and whatever fails on the way: a handle that cws_create returns
\* asks for the upgrade once, follows redirections together with curl, and holds its frames.
THEOREM CreatedHandlesAreUsable == Spec => []CreatedIsUsable
<1>1. ASSUME NEW c, NEW S, c.extra_headers \in Seq(S), c.max_payload_size \in Nat,
             NEW h \in created(c)
      PROVE  RequestIsUpgrade(h, c) /\ FollowsWithCurl(h, c) /\ BlocksHoldFrames(h)
  <2>1. h \in after(c, 11) /\ ~h.failed
    BY StepNames DEF created
  <2>2. Built(h, c, 11)
    BY <1>1, <2>1, AllAreBuilt
  <2> QED BY <1>1, <2>1, <2>2, IsUpgrade, FramesHaveBlocks DEF Built
<1>2. ASSUME NEW c \in Configs
      PROVE  c.extra_headers \in Seq({"Host", "Cookie", "Upgrade"}) /\ c.max_payload_size \in Nat
  <2> DEFINE T == {"Host", "Cookie", "Upgrade"}
             X == {<< >>, <<"Host", "Cookie">>, <<"Host", "Upgrade", "Cookie">>}
  <2>1. << >> \in Seq(T) /\ \A x, y, z \in T : <<x, y>> \in Seq(T) /\ <<x, y, z>> \in Seq(T)
    <3> HIDE DEF T
    <3> QED OBVIOUS
  <2>2. X \subseteq Seq(T)
    <3>1. "Host" \in T /\ "Cookie" \in T /\ "Upgrade" \in T
      OBVIOUS
    <3> HIDE DEF T
    <3>2. /\ << >> \in Seq(T) /\ <<"Host", "Cookie">> \in Seq(T)
          /\ <<"Host", "Upgrade", "Cookie">> \in Seq(T)
      BY <2>1, <3>1, Zenon
    <3> QED BY <3>2, Zenon
  <2>3. c.extra_headers \in X /\ c.max_payload_size \in {0, 1, 126, 65536}
    BY DEF Configs
  <2>4. c.extra_headers \in Seq(T)
    <3> HIDE DEF T, X
    <3> QED BY <2>2, <2>3
  <2>5. c.max_payload_size \in Nat
    BY <2>3
  <2> QED BY <2>4, <2>5
<1>3. CodecInv => CreatedIsUsable
  <2> SUFFICES ASSUME CodecInv, kind = "config", buf # << >>, NEW h \in created(buf[1])
               PROVE  /\ RequestIsUpgrade(h, buf[1]) /\ FollowsWithCurl(h, buf[1])
                      /\ BlocksHoldFrames(h)
    BY DEF CreatedIsUsable
  <2>1. PICK c \in Configs : buf = <<c>>
    BY DEF CodecInv
  <2>2. buf[1] = c
    BY <2>1
  <2> QED BY <1>1, <1>2, <2>2
<1> QED BY <1>3, CodecInvariant, PTL
===============================================================================
