----------------------------- MODULE ReceiveProofs -----------------------------
(***************************************************************************)
(* Theorems about Receive and Delivery, for every byte stream and every    *)
(* cutting of it: nothing is written behind the fixed buffers of struct    *)
(* recv (header, control payload and cut character), a piece of text is    *)
(* whole characters of well-formed UTF-8, and the application is told of   *)
(* the end of the connection once, after everything else.  ReceiverInv is  *)
(* the inductive invariant.                                                *)
(*                                                                         *)
(* The second half relates the receiver to ByteReceiver: but for the steps *)
(* that TextStrays names, the application is told what ByteReceiver makes  *)
(* of the bytes one by one (ByteInv); and in every step the handlers have  *)
(* told and buffered what they owe for that (HandlersInv).                 *)
(***************************************************************************)
EXTENDS Delivery, Utf8Proofs

-------------------------------------------------------------------------------
(* The decoder *)

\* An element of a sequence of bytes.
LEMMA ByteAt ==
  ASSUME NEW buf \in Seq(Byte), NEW i \in Nat, 0 < i, i <= Len(buf)
  PROVE  buf[i] \in 0..255
<1>1. i \in 1..Len(buf)
  BY LenProperties
<1> QED BY <1>1, ElementOfSeq DEF Byte

\* Two bytes as a number.
LEMMA Pair ==
  ASSUME NEW a \in 0..255, NEW b \in 0..255
  PROVE  a * 256 + b \in Nat
OBVIOUS

\* A number with two bytes behind it.
LEMMA Shifted ==
  ASSUME NEW a \in Nat, NEW b \in Nat
  PROVE  a * 65536 + b \in Nat
OBVIOUS

\* Eight bytes are a number.
LEMMA Value8Type ==
  ASSUME NEW buf \in Seq(Byte), 10 <= Len(buf)
  PROVE  Value8(buf) \in Nat
<1> DEFINE two(i) == buf[i] * 256 + buf[i + 1]
<1>1. Len(buf) \in Nat
  BY LenProperties
<1>2. ASSUME NEW i \in 1..9 PROVE two(i) \in Nat
  <2>1. buf[i] \in 0..255
    BY <1>1, ByteAt
  <2>2. buf[i + 1] \in 0..255
    BY <1>1, ByteAt
  <2> QED BY <2>1, <2>2, Pair
<1>3. two(3) \in Nat /\ two(5) \in Nat /\ two(7) \in Nat /\ two(9) \in Nat
  BY <1>2
<1> DEFINE four  == two(3) * 65536 + two(5)
           six   == four * 65536 + two(7)
           eight == six * 65536 + two(9)
<1> HIDE DEF two
<1>4. four \in Nat
  BY <1>3, Shifted
<1> HIDE DEF four
<1>5. six \in Nat
  BY <1>3, <1>4, Shifted
<1> HIDE DEF six
<1>6. eight \in Nat
  BY <1>3, <1>5, Shifted
<1>7. Value8(buf) = eight
  BY DEF Value8, eight, six, four, two
<1> HIDE DEF eight
<1> QED BY <1>6, <1>7

\* The cases of the two operators on the length in the second byte.
LEMMA ExtLenBytes ==
  ASSUME NEW n
  PROVE  /\ n = 126 => ext_len_bytes(n) = 2
         /\ n = 127 => ext_len_bytes(n) = 8
         /\ n # 126 /\ n # 127 => ext_len_bytes(n) = 0
BY DEF ext_len_bytes

\* What payload_length reads, by the length in the second byte.
LEMMA PayloadLength ==
  ASSUME NEW buf, NEW n
  PROVE  /\ n = 126 => payload_length(buf, n) = buf[3] * 256 + buf[4]
         /\ n = 127 => payload_length(buf, n) = Value8(buf)
         /\ n # 126 /\ n # 127 => payload_length(buf, n) = n
BY DEF payload_length

\* The two parts of the second byte of a header.
LEMMA Split ==
  ASSUME NEW b \in 0..255
  PROVE  b % 128 \in 0..127 /\ b \div 128 \in 0..1
OBVIOUS

\* What frame_decode returns: it asks for no more than a header can have, fails, or
\* gives a frame.
LEMMA Decoded ==
  ASSUME NEW buf \in Seq(Byte)
  PROVE  LET d == frame_decode(buf)
         IN  /\ d.err \in Int /\ d.delta \in Int
             /\ d.err = 0 /\ d.delta < 0 => Len(buf) - d.delta <= WS_FRAME_HEADER_MAX
             /\ d.err = 0 /\ 0 < d.delta =>
                  /\ d.fin \in BOOLEAN /\ d.is_control \in BOOLEAN
                  /\ d.opcode \in DataOpcodes \cup ControlOpcodes
                  /\ d.payload_len \in Nat
<1> DEFINE len7   == buf[2] % 128
           mask   == buf[2] \div 128
           opcode == buf[1] % 16
           body   == WS_FRAME_HEADER_MIN + ext_len_bytes(len7)
           all    == body + mask * WS_FRAME_HEADER_MASK
           n      == payload_length(buf, len7)
           d      == frame_decode(buf)
<1>1. Len(buf) \in Nat
  BY LenProperties
<1>2. CASE Len(buf) < WS_FRAME_HEADER_MIN
  BY <1>1, <1>2 DEF frame_decode, NeedMore, WS_FRAME_HEADER_MIN, WS_FRAME_HEADER_MAX
<1>3. CASE WS_FRAME_HEADER_MIN <= Len(buf)
  <2>1. len7 \in 0..127 /\ mask \in 0..1
    <3>1. buf[2] \in 0..255
      BY <1>1, <1>3, ByteAt DEF WS_FRAME_HEADER_MIN
    <3> QED BY <3>1, Split
  <2> HIDE DEF len7, mask
  <2>2. body \in {2, 4, 10} /\ (len7 = 126 => body = 4) /\ (len7 = 127 => body = 10)
    BY <2>1, ExtLenBytes DEF WS_FRAME_HEADER_MIN
  <2> HIDE DEF body
  <2>3. all \in 2..14 /\ body <= all
    BY <2>1, <2>2 DEF WS_FRAME_HEADER_MASK
  <2> HIDE DEF n
  <2>4. ASSUME body <= Len(buf) PROVE n \in Nat
    <3>1. CASE len7 = 126
      <4>1. buf[3] \in 0..255 /\ buf[4] \in 0..255
        BY <1>1, <2>2, <2>4, <3>1, ByteAt
      <4>2. n = buf[3] * 256 + buf[4]
        BY <3>1, PayloadLength DEF n
      <4> QED BY <4>1, <4>2, Pair
    <3>2. CASE len7 = 127
      <4>1. Value8(buf) \in Nat
        BY <1>1, <2>2, <2>4, <3>2, Value8Type
      <4> QED BY <3>2, <4>1, PayloadLength DEF n
    <3>3. CASE len7 # 126 /\ len7 # 127
      BY <2>1, <3>3, PayloadLength DEF n
    <3> QED BY <3>1, <3>2, <3>3
  <2> HIDE DEF all
  <2>5. \/ \E e \in {-1, -2, -3, -4, -5} : d = DecodeError(e)
        \/ Len(buf) < body /\ d = NeedMore(Len(buf) - body)
        \/ Len(buf) < all /\ d = NeedMore(Len(buf) - all)
        \/ /\ body <= Len(buf)
           /\ opcode \in DataOpcodes \cup ControlOpcodes
           /\ d = [err |-> 0, delta |-> all, fin |-> buf[1] >= 128, opcode |-> opcode,
                   is_control |-> opcode \in ControlOpcodes, mask |-> mask, payload_len |-> n]
    <3> DEFINE Whole == [err |-> 0, delta |-> all, fin |-> buf[1] >= 128, opcode |-> opcode,
                         is_control |-> opcode \in ControlOpcodes, mask |-> mask,
                         payload_len |-> n]
              Reserved  == (buf[1] \div 16) % 8 # 0
              Fits7     == len7 = 126 /\ n < 126
              TopBit    == len7 = 127 /\ buf[3] >= 128
              Fits16    == len7 = 127 /\ n <= UINT16_MAX
    <3>1. ~(Len(buf) < WS_FRAME_HEADER_MIN)
      BY <1>1, <1>3 DEF WS_FRAME_HEADER_MIN
    <3>2. \/ d \in {DecodeError(-1), DecodeError(-2), DecodeError(-3), DecodeError(-4), DecodeError(-5)}
          \/ Len(buf) < body /\ d = NeedMore(Len(buf) - body)
          \/ Len(buf) < all /\ d = NeedMore(Len(buf) - all)
          \/ ~(Len(buf) < body) /\ opcode \in DataOpcodes \cup ControlOpcodes /\ d = Whole
      <4>1. d = IF Reserved                                      THEN DecodeError(-1)
                ELSE IF opcode \notin DataOpcodes \cup ControlOpcodes THEN DecodeError(-2)
                ELSE IF Len(buf) < body                          THEN NeedMore(Len(buf) - body)
                ELSE IF Fits7                                    THEN DecodeError(-3)
                ELSE IF TopBit                                   THEN DecodeError(-4)
                ELSE IF Fits16                                   THEN DecodeError(-5)
                ELSE IF Len(buf) < all                           THEN NeedMore(Len(buf) - all)
                ELSE Whole
        BY <3>1, SMT DEF frame_decode, len7, mask, body, all, n
      <4> HIDE DEF Whole, Reserved, Fits7, TopBit, Fits16, d
      <4> QED BY <4>1, Zenon
    <3> HIDE DEF Whole
    <3>3. ~(Len(buf) < body) => body <= Len(buf)
      BY <1>1, <2>2
    <3> QED BY <3>2, <3>3 DEF Whole
  <2>6. CASE \E e \in {-1, -2, -3, -4, -5} : d = DecodeError(e)
    BY <2>6 DEF DecodeError
  <2>7. CASE Len(buf) < body /\ d = NeedMore(Len(buf) - body)
    BY <1>1, <2>2, <2>3, <2>7 DEF NeedMore, WS_FRAME_HEADER_MAX
  <2>8. CASE Len(buf) < all /\ d = NeedMore(Len(buf) - all)
    BY <1>1, <2>3, <2>8 DEF NeedMore, WS_FRAME_HEADER_MAX
  <2>9. CASE /\ body <= Len(buf)
             /\ opcode \in DataOpcodes \cup ControlOpcodes
             /\ d = [err |-> 0, delta |-> all, fin |-> buf[1] >= 128, opcode |-> opcode,
                     is_control |-> opcode \in ControlOpcodes, mask |-> mask, payload_len |-> n]
    BY <2>3, <2>4, <2>9
  <2> QED BY <2>5, <2>6, <2>7, <2>8, <2>9
<1> QED BY <1>1, <1>2, <1>3 DEF WS_FRAME_HEADER_MIN

-------------------------------------------------------------------------------
(* The invariant *)

\* The chunk lies within the stream.
InStream ==
  /\ stream \in Streams /\ stream \in Seq(Byte)
  /\ at \in Nat /\ len \in Nat /\ prev_len \in Nat
  /\ at + len <= Len(stream)
  /\ pc = "idle" => len = 0

\* A control frame is one by its opcode, and short.
FrameIsValid ==
  /\ frame \in [opcode : {-1} \cup DataOpcodes \cup ControlOpcodes, fin : BOOLEAN,
                is_control : BOOLEAN, payload_len : Nat]
  /\ frame.is_control => frame.payload_len <= WS_CTL_PAYLOAD_MAX

\* The header buffer, and room in it for the bytes that are asked for.
HeaderFits ==
  /\ header \in [buf : Seq(Byte), needed : Nat]
  /\ Len(header.buf) <= WS_FRAME_HEADER_MAX
  /\ ~close_received => Len(header.buf) + header_needed <= WS_FRAME_HEADER_MAX

\* The control buffer holds bytes of the control frame that is read, if any.  (After a
\* close frame they stay there.)
ControlFits ==
  /\ control \in Seq(Byte)
  /\ Len(control) <= (IF frame.is_control THEN frame.payload_len ELSE WS_CTL_PAYLOAD_MAX)
  /\ ~frame.is_control /\ ~close_received => control = << >>

\* The loop never runs after a close.
LoopIsOpen ==
  /\ pc \in {"idle", "loop"}
  /\ close_received \in BOOLEAN
  /\ pc = "loop" => ~close_received

RecvInv == InStream /\ FrameIsValid /\ HeaderFits /\ ControlFits /\ LoopIsOpen

-------------------------------------------------------------------------------
(* What the helpers of the receiver do *)

\* Sequences of bytes, put together and cut.
LEMMA Joined ==
  ASSUME NEW s \in Seq(Byte), NEW t \in Seq(Byte)
  PROVE  s \o t \in Seq(Byte) /\ Len(s \o t) = Len(s) + Len(t)
OBVIOUS

\* A part of a sequence of bytes.
LEMMA Cut ==
  ASSUME NEW s \in Seq(Byte), NEW m \in Int, NEW n \in Int, 0 < m, m <= n + 1, n <= Len(s)
  PROVE  SubSeq(s, m, n) \in Seq(Byte) /\ Len(SubSeq(s, m, n)) = n - m + 1
OBVIOUS

\* The bytes that are taken from the chunk.
LEMMA TakenBytes ==
  ASSUME InStream, NEW k \in Nat, k <= len
  PROVE  Taken(k) \in Seq(Byte) /\ Len(Taken(k)) = k
<1>1. Len(stream) \in Nat
  BY LenProperties DEF InStream
<1>2. /\ at + 1 \in Int /\ at + k \in Int /\ 0 < at + 1
      /\ at + 1 <= at + k + 1 /\ at + k <= Len(stream)
      /\ at + k - (at + 1) + 1 = k
  BY <1>1 DEF InStream
<1> QED BY <1>2, Cut DEF Taken, InStream

\* The loop goes on within the chunk, and never after a close.
LEMMA Advances ==
  ASSUME InStream, NEW l \in Nat, l <= len, NEW closed \in BOOLEAN,
         advance(l, closed), stream' = stream
  PROVE  InStream' /\ pc' \in {"idle", "loop"} /\ (closed => pc' = "idle")
<1>1. Len(stream) \in Nat
  BY LenProperties DEF InStream
<1> QED BY <1>1 DEF InStream, advance

\* What one more call of _process_frame_header takes and decodes.
LEMMA HeaderBytes ==
  ASSUME RecvInv, pc = "loop"
  PROVE  /\ header_needed \in Nat /\ 0 < header_needed
         /\ header_taken \in Nat /\ header_taken <= len /\ header_taken <= header_needed
         /\ header_bytes \in Seq(Byte)
         /\ Len(header_bytes) = Len(header.buf) + header_taken
         /\ Len(header_bytes) <= WS_FRAME_HEADER_MAX
<1>1. header_needed \in Nat /\ 0 < header_needed
  BY DEF RecvInv, HeaderFits, header_needed, WS_FRAME_HEADER_MIN
<1>2. header_taken \in Nat /\ header_taken <= len /\ header_taken <= header_needed
  BY <1>1 DEF RecvInv, InStream, header_taken, MinOf
<1>3. Taken(header_taken) \in Seq(Byte) /\ Len(Taken(header_taken)) = header_taken
  BY <1>2, TakenBytes DEF RecvInv
<1>4. header.buf \in Seq(Byte) /\ Len(header.buf) \in Nat
  BY LenProperties DEF RecvInv, HeaderFits
<1>5. /\ header_bytes \in Seq(Byte)
      /\ Len(header_bytes) = Len(header.buf) + header_taken
  BY <1>3, <1>4, Joined DEF header_bytes
<1>6. Len(header.buf) + header_needed <= WS_FRAME_HEADER_MAX
  BY DEF RecvInv, HeaderFits, LoopIsOpen
<1>7. Len(header_bytes) <= WS_FRAME_HEADER_MAX
  BY <1>1, <1>2, <1>4, <1>5, <1>6 DEF WS_FRAME_HEADER_MAX
<1> QED BY <1>1, <1>2, <1>5, <1>7

\* What one more call of _process_control_frame has.
LEMMA ControlBytes ==
  ASSUME RecvInv, InControl
  PROVE  /\ control_bytes \in Seq(Byte)
         /\ control_taken \in Nat /\ control_taken <= len
         /\ Len(control_bytes) <= frame.payload_len
<1> DEFINE k == MinOf(frame.payload_len - Len(control), len)
<1>1. Len(control) \in Nat /\ Len(control) <= frame.payload_len /\ frame.payload_len \in Nat
  BY LenProperties DEF RecvInv, ControlFits, FrameIsValid, InControl
<1>2. k \in Nat /\ k <= len /\ k <= frame.payload_len - Len(control)
  BY <1>1 DEF RecvInv, InStream, MinOf
<1> HIDE DEF k
<1>3. Taken(k) \in Seq(Byte) /\ Len(Taken(k)) = k
  BY <1>2, TakenBytes DEF RecvInv
<1>4. control \o Taken(k) \in Seq(Byte) /\ Len(control \o Taken(k)) = Len(control) + k
  BY <1>3, Joined DEF RecvInv, ControlFits
<1>5. control_bytes = control \o Taken(k)
  BY DEF control_bytes, k
<1> QED BY <1>1, <1>2, <1>4, <1>5 DEF control_taken

\* A control frame that passes frame_validate is short.
LEMMA Validated ==
  ASSUME NEW f, frame_validate_S2C(f) = 0, f.is_control \in BOOLEAN, f.fin \in BOOLEAN,
         f.payload_len \in Nat
  PROVE  f.is_control => f.payload_len <= WS_CTL_PAYLOAD_MAX
BY DEF frame_validate_S2C, WS_CTL_PAYLOAD_MAX

\* No more is asked for than fits.
LEMMA HeaderLimit ==
  ASSUME RecvInv, pc = "loop"
  PROVE  header_needed \in Nat /\ header_needed <= WS_FRAME_HEADER_MAX
<1>1. Len(header.buf) \in Nat
  BY LenProperties DEF RecvInv, HeaderFits
<1> QED BY <1>1, HeaderBytes DEF RecvInv, HeaderFits, LoopIsOpen, WS_FRAME_HEADER_MAX

\* An empty header buffer has room.
LEMMA EmptyHeader ==
  ASSUME NEW n \in Nat, n <= WS_FRAME_HEADER_MAX, header' = [buf |-> << >>, needed |-> n]
  PROVE  HeaderFits'
<1>1. header'.buf = << >> /\ header'.needed = n /\ Len(<< >>) = 0
  OBVIOUS
<1>2. header' \in [buf : Seq(Byte), needed : Nat]
  OBVIOUS
<1> QED BY <1>1, <1>2 DEF HeaderFits, header_needed, WS_FRAME_HEADER_MIN, WS_FRAME_HEADER_MAX

\* No frame is open.
LEMMA NoFrameFits ==
  ASSUME frame' = NoFrame
  PROVE  FrameIsValid' /\ ~frame'.is_control
BY DEF NoFrame, FrameIsValid

-------------------------------------------------------------------------------
(* The steps *)

\* Chunks are not empty.
LEMMA ChunksAreNat ==
  ASSUME RecvInv, stream \in Streams, NEW n \in ChunkSizes[stream]
  PROVE  n \in Nat
BY ReceiveAssumption

\* A stutter changes nothing.
LEMMA Unchanged ==
  ASSUME RecvInv, UNCHANGED vars
  PROVE  RecvInv'
BY DEF RecvInv, InStream, FrameIsValid, HeaderFits, header_needed, ControlFits, LoopIsOpen, vars

\* A new chunk comes from curl.
LEMMA ReceiveCb ==
  ASSUME RecvInv, NEW n \in Nat, receive_cb(n) \/ receive_cb_ignored(n)
  PROVE  RecvInv'
<1>1. Len(stream) \in Nat
  BY LenProperties DEF RecvInv, InStream
<1>2. InStream'
  BY <1>1 DEF RecvInv, InStream, receive_cb, receive_cb_ignored
<1>3. LoopIsOpen'
  BY DEF RecvInv, LoopIsOpen, receive_cb, receive_cb_ignored
<1>4. UNCHANGED <<frame, header, control, close_received>>
  BY DEF receive_cb, receive_cb_ignored, assembly
<1>5. FrameIsValid' /\ HeaderFits' /\ ControlFits'
  BY <1>4 DEF RecvInv, FrameIsValid, HeaderFits, header_needed, ControlFits
<1> QED BY <1>2, <1>3, <1>5 DEF RecvInv

\* A header is refused: the rest of the chunk is dropped.
LEMMA HeaderRejected ==
  ASSUME RecvInv, header_rejected
  PROVE  RecvInv'
<1>1. pc = "loop"
  BY DEF header_rejected, Reading
<1>2. InStream' /\ pc' = "idle"
  <2>1. InStream /\ len \in Nat /\ len <= len
    BY DEF RecvInv, InStream
  <2>2. advance(len, TRUE) /\ stream' = stream
    BY DEF header_rejected
  <2> QED BY <2>1, <2>2, Advances
<1>3. close_received' = TRUE /\ frame' = frame /\ control' = control
  BY DEF header_rejected, _error_close, assembly
<1>4. LoopIsOpen' /\ FrameIsValid' /\ ControlFits'
  BY <1>2, <1>3 DEF RecvInv, LoopIsOpen, FrameIsValid, ControlFits
<1>5. header' = [buf |-> header_bytes, needed |-> header_needed - header_taken]
  BY DEF header_rejected
<1>6. HeaderFits'
  BY <1>1, <1>3, <1>5, HeaderBytes DEF HeaderFits
<1> QED BY <1>2, <1>4, <1>6 DEF RecvInv

\* The bytes of a header that the chunk ends in are kept.
LEMMA HeaderIncomplete ==
  ASSUME RecvInv, header_incomplete
  PROVE  RecvInv'
<1>1. pc = "loop" /\ decoded.err = 0 /\ decoded.delta < 0
  BY DEF header_incomplete, Reading
<1>2. InStream' /\ pc' \in {"idle", "loop"}
  <2>1. len - header_taken \in Nat /\ len - header_taken <= len
    BY <1>1, HeaderBytes DEF RecvInv, InStream
  <2> QED BY <2>1, Advances DEF RecvInv, header_incomplete
<1>3. UNCHANGED <<frame, control, close_received>>
  BY DEF header_incomplete, assembly
<1>4. LoopIsOpen' /\ FrameIsValid' /\ ControlFits'
  BY <1>1, <1>2, <1>3 DEF RecvInv, LoopIsOpen, FrameIsValid, ControlFits
<1>5. header' = [buf |-> header_bytes, needed |-> -decoded.delta]
  BY DEF header_incomplete
<1>6. header_bytes \in Seq(Byte) /\ Len(header_bytes) \in Nat
      /\ Len(header_bytes) <= WS_FRAME_HEADER_MAX
  BY <1>1, HeaderBytes, LenProperties
<1>7. decoded.delta \in Int /\ Len(header_bytes) - decoded.delta <= WS_FRAME_HEADER_MAX
  BY <1>1, <1>6, Decoded DEF decoded
<1>8. header'.buf = header_bytes /\ header'.needed = -decoded.delta
      /\ header' \in [buf : Seq(Byte), needed : Nat]
  BY <1>1, <1>5, <1>6, <1>7
<1>9. header_needed' = -decoded.delta
  BY <1>1, <1>7, <1>8 DEF header_needed
<1>10. HeaderFits'
  BY <1>6, <1>7, <1>8, <1>9 DEF HeaderFits, WS_FRAME_HEADER_MAX
<1> QED BY <1>2, <1>4, <1>10 DEF RecvInv

\* A header that passes frame_validate.
LEMMA HeaderValid ==
  ASSUME RecvInv, header_valid
  PROVE  /\ pc = "loop" /\ frame = NoFrame
         /\ decoded.fin \in BOOLEAN /\ decoded.is_control \in BOOLEAN
         /\ decoded.opcode \in DataOpcodes \cup ControlOpcodes
         /\ decoded.payload_len \in Nat
         /\ decoded.is_control => decoded.payload_len <= WS_CTL_PAYLOAD_MAX
<1>1. pc = "loop" /\ frame = NoFrame /\ decoded.err = 0 /\ 0 < decoded.delta
      /\ frame_validate_S2C(decoded) = 0
  BY DEF header_valid, Reading
<1>2. header_bytes \in Seq(Byte)
  BY <1>1, HeaderBytes
<1>3. /\ decoded.fin \in BOOLEAN /\ decoded.is_control \in BOOLEAN
      /\ decoded.opcode \in DataOpcodes \cup ControlOpcodes
      /\ decoded.payload_len \in Nat
  BY <1>1, <1>2, Decoded DEF decoded
<1>4. decoded.is_control => decoded.payload_len <= WS_CTL_PAYLOAD_MAX
  BY <1>1, <1>3, Validated
<1> QED BY <1>1, <1>3, <1>4

\* A header is complete and its frame is opened.
LEMMA HeaderComplete ==
  ASSUME RecvInv, header_complete
  PROVE  RecvInv'
<1>1. header_valid
  BY DEF header_complete
<1>2. /\ header_taken \in Nat /\ header_taken <= len /\ header_taken <= header_needed
      /\ header_needed \in Nat
  BY <1>1, HeaderValid, HeaderBytes
<1>3. InStream'
  <2>1. at' = at + header_taken /\ len' = len - header_taken
        /\ UNCHANGED <<stream, pc, prev_len>> /\ pc = "loop"
    BY <1>1, HeaderValid DEF header_complete
  <2>2. Len(stream) \in Nat
    BY LenProperties DEF RecvInv, InStream
  <2> QED BY <1>2, <2>1, <2>2 DEF RecvInv, InStream
<1>4. LoopIsOpen' /\ UNCHANGED <<control, close_received>>
  BY DEF RecvInv, LoopIsOpen, header_complete
<1>5. frame' = [opcode |-> decoded.opcode, fin |-> decoded.fin,
                is_control |-> decoded.is_control, payload_len |-> decoded.payload_len]
  BY DEF header_complete
<1>6. FrameIsValid'
  BY <1>1, <1>5, HeaderValid DEF FrameIsValid
<1>7. control = << >>
  BY <1>1, HeaderValid DEF RecvInv, ControlFits, LoopIsOpen, NoFrame
<1>8. ControlFits'
  <2>1. Len(control') = 0 /\ control' \in Seq(Byte)
    BY <1>4, <1>7
  <2>2. frame'.payload_len \in Nat
    BY <1>6 DEF FrameIsValid
  <2> QED BY <1>4, <1>7, <2>1, <2>2 DEF ControlFits, WS_CTL_PAYLOAD_MAX
<1>9. header' = [buf |-> << >>, needed |-> header_needed - header_taken]
  BY DEF header_complete
<1>10. header_needed - header_taken \in Nat
       /\ header_needed - header_taken <= WS_FRAME_HEADER_MAX
  BY <1>1, <1>2, HeaderLimit, HeaderValid DEF WS_FRAME_HEADER_MAX
<1>11. HeaderFits'
  BY <1>9, <1>10, EmptyHeader
<1> QED BY <1>3, <1>4, <1>6, <1>8, <1>11 DEF RecvInv

\* A complete header comes out of order.
LEMMA HeaderOutOfOrder ==
  ASSUME RecvInv, header_out_of_order
  PROVE  RecvInv'
<1>1. header_valid
  BY DEF header_out_of_order
<1>2. /\ header_taken \in Nat /\ header_taken <= len /\ header_taken <= header_needed
      /\ header_needed \in Nat
  BY <1>1, HeaderValid, HeaderBytes
<1>3. InStream' /\ pc' = "idle"
  <2>1. len - header_taken \in Nat /\ len - header_taken <= len
    BY <1>2 DEF RecvInv, InStream
  <2> QED BY <2>1, Advances DEF RecvInv, header_out_of_order
<1>4. close_received' = TRUE /\ frame' = frame /\ control' = control
  BY DEF header_out_of_order, _error_close, assembly
<1>5. LoopIsOpen' /\ FrameIsValid' /\ ControlFits'
  BY <1>3, <1>4 DEF RecvInv, LoopIsOpen, FrameIsValid, ControlFits
<1>6. header' = [buf |-> << >>, needed |-> header_needed - header_taken]
  BY DEF header_out_of_order
<1>7. header_needed - header_taken \in Nat
      /\ header_needed - header_taken <= WS_FRAME_HEADER_MAX
  BY <1>1, <1>2, HeaderLimit, HeaderValid DEF WS_FRAME_HEADER_MAX
<1>8. HeaderFits'
  BY <1>6, <1>7, EmptyHeader
<1> QED BY <1>3, <1>5, <1>8 DEF RecvInv

\* The bytes of a control frame that the chunk ends in are kept.
LEMMA ControlIncomplete ==
  ASSUME RecvInv, control_incomplete
  PROVE  RecvInv'
<1>1. InControl
  BY DEF control_incomplete
<1>2. InStream' /\ pc' \in {"idle", "loop"}
  <2>1. len - control_taken \in Nat /\ len - control_taken <= len
    BY <1>1, ControlBytes DEF RecvInv, InStream
  <2> QED BY <2>1, Advances DEF RecvInv, control_incomplete
<1>3. UNCHANGED <<frame, header, close_received>> /\ control' = control_bytes
  BY DEF control_incomplete
<1>4. LoopIsOpen' /\ FrameIsValid' /\ HeaderFits'
  BY <1>1, <1>2, <1>3 DEF RecvInv, LoopIsOpen, FrameIsValid, HeaderFits, header_needed, InControl
<1>5. ControlFits'
  BY <1>1, <1>3, ControlBytes DEF ControlFits, InControl
<1> QED BY <1>2, <1>4, <1>5 DEF RecvInv

\* A ping or a pong is handed on.
LEMMA ControlDispatched ==
  ASSUME RecvInv, control_dispatched
  PROVE  RecvInv'
<1>1. InControl
  BY DEF control_dispatched
<1>2. InStream' /\ pc' \in {"idle", "loop"}
  <2>1. len - control_taken \in Nat /\ len - control_taken <= len
    BY <1>1, ControlBytes DEF RecvInv, InStream
  <2> QED BY <2>1, Advances DEF RecvInv, control_dispatched
<1>3. /\ frame' = NoFrame /\ control' = << >> /\ close_received' = close_received
      /\ header' = [buf |-> << >>, needed |-> WS_FRAME_HEADER_MIN]
  BY DEF control_dispatched
<1>4. LoopIsOpen'
  BY <1>1, <1>2, <1>3 DEF RecvInv, LoopIsOpen, InControl
<1>5. FrameIsValid' /\ ControlFits'
  <2>1. Len(control') = 0 /\ control' \in Seq(Byte)
    BY <1>3
  <2> QED BY <1>3, <2>1, NoFrameFits DEF ControlFits, WS_CTL_PAYLOAD_MAX
<1>6. HeaderFits'
  BY <1>3, EmptyHeader DEF WS_FRAME_HEADER_MIN, WS_FRAME_HEADER_MAX
<1> QED BY <1>2, <1>4, <1>5, <1>6 DEF RecvInv

\* A close frame is handed on and ends the connection.
LEMMA CloseHandled ==
  ASSUME RecvInv, close_handled
  PROVE  RecvInv'
<1>1. InControl
  BY DEF close_handled
<1>2. InStream' /\ pc' = "idle"
  <2>1. len - control_taken \in Nat /\ len - control_taken <= len
    BY <1>1, ControlBytes DEF RecvInv, InStream
  <2> QED BY <2>1, Advances DEF RecvInv, close_handled
<1>3. /\ frame' = NoFrame /\ control' = control_bytes /\ close_received' = TRUE
      /\ header' = header
  BY DEF close_handled
<1>4. LoopIsOpen' /\ HeaderFits'
  BY <1>2, <1>3 DEF RecvInv, LoopIsOpen, HeaderFits
<1>5. control_bytes \in Seq(Byte) /\ Len(control_bytes) \in Nat
      /\ Len(control_bytes) <= WS_CTL_PAYLOAD_MAX
  <2>1. control_bytes \in Seq(Byte) /\ Len(control_bytes) <= frame.payload_len
    BY <1>1, ControlBytes
  <2>2. Len(control_bytes) \in Nat
    BY <2>1, LenProperties
  <2>3. frame.payload_len \in Nat /\ frame.payload_len <= WS_CTL_PAYLOAD_MAX
    BY <1>1 DEF RecvInv, FrameIsValid, InControl
  <2> QED BY <2>1, <2>2, <2>3 DEF WS_CTL_PAYLOAD_MAX
<1>6. FrameIsValid' /\ ControlFits'
  BY <1>3, <1>5, NoFrameFits DEF ControlFits
<1> QED BY <1>2, <1>4, <1>6 DEF RecvInv

\* A text that is not UTF-8 ends the connection.
LEMMA TextRejected ==
  ASSUME RecvInv, text_rejected
  PROVE  RecvInv'
<1>1. InStream' /\ pc' = "idle"
  <2>1. InStream /\ len \in Nat /\ len <= len
    BY DEF RecvInv, InStream
  <2>2. advance(len, TRUE) /\ stream' = stream
    BY DEF text_rejected
  <2> QED BY <2>1, <2>2, Advances
<1>2. close_received' = TRUE /\ UNCHANGED <<frame, header, control>>
  BY DEF text_rejected, _error_close
<1>3. LoopIsOpen' /\ FrameIsValid' /\ HeaderFits' /\ ControlFits'
  BY <1>1, <1>2 DEF RecvInv, LoopIsOpen, FrameIsValid, HeaderFits, ControlFits
<1> QED BY <1>1, <1>3 DEF RecvInv

\* The data of a frame is handed on.
LEMMA DataDelivered ==
  ASSUME RecvInv, data_delivered
  PROVE  RecvInv'
<1>1. pc = "loop" /\ ~frame.is_control /\ frame # NoFrame
  BY DEF data_delivered, InData
<1>2. /\ frame.payload_len \in Nat
      /\ data_taken \in Nat /\ data_taken <= len /\ data_taken <= frame.payload_len
  BY DEF RecvInv, InStream, FrameIsValid, data_taken, MinOf
<1>3. InStream' /\ pc' \in {"idle", "loop"}
  <2>1. len - data_taken \in Nat /\ len - data_taken <= len
    BY <1>2 DEF RecvInv, InStream
  <2> QED BY <2>1, Advances DEF RecvInv, data_delivered
<1>4. UNCHANGED <<header, control, close_received>>
  BY DEF data_delivered
<1>5. LoopIsOpen' /\ HeaderFits'
  BY <1>1, <1>3, <1>4 DEF RecvInv, LoopIsOpen, HeaderFits, header_needed
<1>6. FrameIsValid' /\ ~frame'.is_control
  <2>1. CASE frame' = NoFrame
    BY <2>1, NoFrameFits
  <2>2. CASE frame' = [frame EXCEPT !.payload_len = data_left]
    <3>1. data_left \in Nat
      BY <1>2 DEF data_left
    <3> QED BY <1>1, <2>2, <3>1 DEF RecvInv, FrameIsValid
  <2> QED BY <2>1, <2>2 DEF data_delivered
<1>7. ControlFits'
  BY <1>1, <1>4, <1>6 DEF RecvInv, ControlFits
<1> QED BY <1>3, <1>5, <1>6, <1>7 DEF RecvInv

\* Every step keeps the invariant of the buffers.
LEMMA Steps ==
  ASSUME RecvInv, Next \/ UNCHANGED vars
  PROVE  RecvInv'
<1>1. ASSUME NEW n \in ChunkSizes[stream], receive_cb(n) \/ receive_cb_ignored(n)
      PROVE  RecvInv'
  BY <1>1, ReceiveCb, ChunksAreNat DEF RecvInv, InStream
<1>2. CASE process_frame
  BY <1>2, HeaderRejected, HeaderIncomplete, HeaderComplete, HeaderOutOfOrder, ControlIncomplete,
     ControlDispatched, CloseHandled, TextRejected, DataDelivered DEF process_frame
<1>3. CASE Terminated \/ UNCHANGED vars
  BY <1>3, Unchanged DEF Terminated
<1> QED BY <1>1, <1>2, <1>3 DEF Next

\* A step of the receiver with its handlers is a step of the receiver.
LEMMA DeliverySteps ==
  ASSUME DeliveryNext \/ UNCHANGED delivery_vars
  PROVE  Next \/ UNCHANGED vars
BY DEF DeliveryNext, curl_delivers, handled_frame, fragment_handled, control_frame_handled,
       unhandled, Next, process_frame, delivery_vars

\* It holds in the beginning.
LEMMA Initially ==
  ASSUME Init
  PROVE  RecvInv
<1>1. Len(stream) \in Nat /\ stream \in Seq(Byte)
  BY ReceiveAssumption, LenProperties DEF Init
<1>2. InStream
  <2>1. at = 0 /\ len = 0 /\ prev_len = 0 /\ stream \in Streams
    BY DEF Init
  <2> QED BY <1>1, <2>1 DEF InStream
<1>3. LoopIsOpen
  BY DEF Init, LoopIsOpen
<1>4. FrameIsValid
  BY DEF Init, NoFrame, FrameIsValid
<1>5. header.buf = << >> /\ header.needed = 0 /\ control = << >> /\ Len(<< >>) = 0
  BY DEF Init
<1>6. HeaderFits
  BY <1>5 DEF Init, HeaderFits, header_needed, WS_FRAME_HEADER_MIN, WS_FRAME_HEADER_MAX
<1>7. ControlFits
  BY <1>5 DEF Init, NoFrame, ControlFits, WS_CTL_PAYLOAD_MAX
<1> QED BY <1>2, <1>3, <1>4, <1>6, <1>7 DEF RecvInv

-------------------------------------------------------------------------------
(* The character buffer *)

\* The character that a chunk cuts has room in utf8.buf, with what it still needs.
CharacterFits ==
  /\ utf8 \in [buf : Seq(Byte), needed : Nat]
  /\ Len(utf8.buf) + utf8.needed <= 4

\* What is kept of a text after a call of _process_text_stream.
LEMMA TextKept ==
  ASSUME RecvInv, CharacterFits, InData
  PROVE  /\ data_result.utf8 \in [buf : Seq(Byte), needed : Nat]
         /\ Len(data_result.utf8.buf) + data_result.utf8.needed <= 4
<1> DEFINE bytes == Taken(data_taken)
           Fits(u) == u \in [buf : Seq(Byte), needed : Nat] /\ Len(u.buf) + u.needed <= 4
<1>1. data_taken \in Nat /\ data_taken <= len
  BY DEF RecvInv, InStream, FrameIsValid, data_taken, MinOf
<1>2. bytes \in Seq(Byte) /\ Len(bytes) \in Nat
  BY <1>1, TakenBytes, LenProperties DEF RecvInv
<1> HIDE DEF bytes
<1>3. Fits(utf8)
  BY DEF CharacterFits
<1>4. Fits([buf |-> << >>, needed |-> 0])
  OBVIOUS
<1>5. Fits(complete_character(bytes).utf8)
  <2> DEFINE m == MinOf(utf8.needed, Len(bytes))
             u == [buf |-> utf8.buf \o SubSeq(bytes, 1, m), needed |-> utf8.needed - m]
  <2>1. m \in Nat /\ m <= Len(bytes) /\ m <= utf8.needed
    BY <1>2 DEF CharacterFits, MinOf
  <2> HIDE DEF m
  <2>2. SubSeq(bytes, 1, m) \in Seq(Byte) /\ Len(SubSeq(bytes, 1, m)) = m
    <3>1. 1 \in Int /\ m \in Int /\ 0 < 1 /\ 1 <= m + 1 /\ m - 1 + 1 = m
      BY <2>1
    <3> QED BY <1>2, <2>1, <3>1, Cut
  <2>3. /\ utf8.buf \o SubSeq(bytes, 1, m) \in Seq(Byte)
        /\ Len(utf8.buf \o SubSeq(bytes, 1, m)) = Len(utf8.buf) + m
    BY <2>2, Joined DEF CharacterFits
  <2>4. Len(utf8.buf) \in Nat /\ utf8.needed \in Nat
    BY LenProperties DEF CharacterFits
  <2>5. Fits(u)
    BY <2>1, <2>3, <2>4 DEF CharacterFits
  <2> HIDE DEF u, Fits
  <2>6. complete_character(bytes).utf8 \in {u, [buf |-> << >>, needed |-> 0]}
    BY DEF complete_character, TextOk, TextError, u, m
  <2> QED BY <1>4, <2>5, <2>6
<1>6. Fits(whole_characters(bytes).utf8)
  <2> DEFINE v    == utf8_validate(bytes)
             rest == SubSeq(bytes, v.len + 1, Len(bytes))
             u    == [buf |-> rest, needed |-> utf8_get_size(rest[1]) - Len(rest)]
  <2>1. ASSUME v.rv = 0, v.len # Len(bytes) PROVE Fits(u)
    <3>1. v.len \in 0..Len(bytes) - 1 /\ Len(bytes) - v.len < utf8_len(bytes[v.len + 1])
      BY <1>2, <2>1, LessThanCharacterLeft DEF LeavesCutCharacter
    <3> HIDE DEF v
    <3>2. v.len + 1 \in 1..Len(bytes)
      BY <1>2, <3>1
    <3>3. rest \in Seq(Byte) /\ Len(rest) = Len(bytes) - v.len
      <4>1. /\ v.len + 1 \in Int /\ Len(bytes) \in Int /\ 0 < v.len + 1
            /\ v.len + 1 <= Len(bytes) + 1 /\ Len(bytes) <= Len(bytes)
            /\ Len(bytes) - (v.len + 1) + 1 = Len(bytes) - v.len
        BY <1>2, <3>1
      <4> QED BY <1>2, <4>1, Cut
    <3>4. rest[1] = bytes[v.len + 1]
      BY <1>2, <3>1, <3>2
    <3>5. bytes[v.len + 1] \in Byte
      BY <1>2, <3>2, ElementOfSeq
    <3> HIDE DEF rest
    <3>6. Len(rest) \in Nat /\ Len(rest) < utf8_len(rest[1])
      BY <1>2, <3>1, <3>3, <3>4
    <3>7. utf8_len(rest[1]) \in 0..4
      BY CharacterLength
    <3>8. utf8_get_size(rest[1]) = utf8_len(rest[1])
      BY DEF utf8_get_size
    <3> QED BY <3>3, <3>6, <3>7, <3>8
  <2> HIDE DEF u, Fits
  <2>2. \/ whole_characters(bytes).utf8 = utf8
        \/ v.rv = 0 /\ v.len # Len(bytes) /\ whole_characters(bytes).utf8 = u
    BY DEF whole_characters, TextOk, TextError, u, v, rest
  <2> QED BY <1>3, <2>1, <2>2
<1> HIDE DEF Fits
<1>7. \/ data_result.utf8 = utf8
      \/ data_result.utf8 = complete_character(bytes).utf8
      \/ data_result.utf8 = whole_characters(bytes).utf8
  BY DEF data_result, process_text_stream, TextOk, bytes
<1>8. Fits(data_result.utf8)
  BY <1>3, <1>5, <1>6, <1>7
<1> QED BY <1>8 DEF Fits

\* Every step keeps it.
LEMMA CharacterSteps ==
  ASSUME RecvInv, CharacterFits, Next \/ UNCHANGED vars
  PROVE  CharacterFits'
<1>1. CASE text_rejected
  <2>1. InData /\ utf8' = data_result.utf8
    BY <1>1 DEF text_rejected
  <2> QED BY <2>1, TextKept DEF CharacterFits
<1>2. CASE data_delivered
  <2>1. InData /\ utf8' = data_result.utf8
    BY <1>2 DEF data_delivered
  <2> QED BY <2>1, TextKept DEF CharacterFits
<1>3. CASE utf8' = utf8
  BY <1>3 DEF CharacterFits
<1>4. text_rejected \/ data_delivered \/ utf8' = utf8
  BY ZenonT(40)
     DEF Next, process_frame, receive_cb, receive_cb_ignored, header_rejected, header_incomplete,
         header_complete, header_out_of_order, control_incomplete, control_dispatched,
         close_handled, Terminated, assembly, vars
<1> QED BY <1>1, <1>2, <1>3, <1>4

-------------------------------------------------------------------------------
(* What the application is told *)

\* The callbacks that end the connection.
EndCalls == {"on_close", "error"}

\* None of them is among the calls.
NoEnd(items) == \A i \in 1..Len(items) : items[i].fn \notin EndCalls

\* The callbacks so far, and that the end is the last of them; the types of the message
\* that is open and of the last piece, and that a piece of text is whole characters.
ToldInv ==
  /\ stream_type \in {"none", "BINARY", "TEXT"}
  /\ fragment_info \subseteq Info
  /\ piece \in [type : {"none", "BINARY", "TEXT"}, info : SUBSET Info, data : Seq(Byte)]
  /\ TextPieceWhole
  /\ out \in Seq(Item)
  /\ EndIsLast

\* Nothing is text.
LEMMA EmptyIsText == IsText(<< >>)
<1> DEFINE t == << >>
<1>1. t \in Seq(Byte) /\ Len(t) = 0
  OBVIOUS
<1> HIDE DEF t
<1>2. CutsIntoChars(t, {0}, 0, 0)
  BY DEF CutsIntoChars
<1>3. IsText(SubSeq(t, 1, 0))
  <2>1. 0 \in Nat /\ 0 <= Len(t)
    BY <1>1
  <2> QED BY <1>1, <1>2, <2>1, CutsMakeText
<1>4. SubSeq(t, 1, 0) = << >>
  BY DEF t
<1> QED BY <1>3, <1>4

\* The whole of a sequence is a part of it.
LEMMA AllOfIt ==
  ASSUME NEW s \in Seq(Byte)
  PROVE  SubSeq(s, 1, Len(s)) = s
OBVIOUS

\* What _process_text_stream passes on is whole characters.
LEMMA TextSent ==
  ASSUME RecvInv, CharacterFits, InData, data_result.ok
  PROVE  /\ data_result.send \in Seq(Byte)
         /\ stream_type = "TEXT" => IsText(data_result.send)
<1> DEFINE bytes == Taken(data_taken)
           Whole(r) == r.ok => r.send \in Seq(Byte) /\ IsText(r.send)
<1>1. bytes \in Seq(Byte) /\ Len(bytes) \in Nat
  <2>1. data_taken \in Nat /\ data_taken <= len
    BY DEF RecvInv, InStream, FrameIsValid, data_taken, MinOf
  <2> QED BY <2>1, TakenBytes, LenProperties DEF RecvInv
<1> HIDE DEF bytes
<1>2. Whole(complete_character(bytes))
  <2> DEFINE m == MinOf(utf8.needed, Len(bytes))
             u == [buf |-> utf8.buf \o SubSeq(bytes, 1, m), needed |-> utf8.needed - m]
             v == utf8_validate(u.buf)
  <2>1. m \in Nat /\ m <= Len(bytes)
    BY <1>1 DEF CharacterFits, MinOf
  <2> HIDE DEF m
  <2>2. SubSeq(bytes, 1, m) \in Seq(Byte)
    <3>1. 1 \in Int /\ m \in Int /\ 0 < 1 /\ 1 <= m + 1
      BY <2>1
    <3> QED BY <1>1, <2>1, <3>1, Cut
  <2>3. u.buf \in Seq(Byte)
    BY <2>2, Joined DEF CharacterFits
  <2> HIDE DEF u
  <2>4. ASSUME v.rv = 0, v.len = Len(u.buf) PROVE IsText(u.buf)
    <3>1. IsText(SubSeq(u.buf, 1, Len(u.buf)))
      BY <2>3, <2>4, ValidatedIsText
    <3> QED BY <2>3, <3>1, AllOfIt
  <2> HIDE DEF v
  <2> DEFINE r == complete_character(bytes)
  <2>5. \/ r.ok = FALSE
        \/ r.send = << >>
        \/ r.send = u.buf /\ v.rv = 0 /\ v.len = Len(u.buf)
    BY DEF complete_character, TextOk, TextError, u, m, v
  <2> HIDE DEF r
  <2>6. << >> \in Seq(Byte)
    OBVIOUS
  <2>7. Whole(r)
    BY <2>3, <2>4, <2>5, <2>6, EmptyIsText
  <2> QED BY <2>7 DEF r
<1>3. Whole(whole_characters(bytes))
  <2> DEFINE v == utf8_validate(bytes)
             r == whole_characters(bytes)
  <2>1. \/ r.ok = FALSE
        \/ v.rv = 0 /\ v.len = Len(bytes) /\ r.send = bytes
        \/ v.rv = 0 /\ r.send = SubSeq(bytes, 1, v.len)
    BY DEF whole_characters, TextOk, TextError
  <2>2. ASSUME v.rv = 0
        PROVE  IsText(SubSeq(bytes, 1, v.len)) /\ SubSeq(bytes, 1, v.len) \in Seq(Byte)
    <3>1. v.len \in 0..Len(bytes) /\ IsText(SubSeq(bytes, 1, v.len))
      BY <1>1, <2>2, ValidatedIsText
    <3> HIDE DEF v
    <3>2. 1 \in Int /\ v.len \in Int /\ 0 < 1 /\ 1 <= v.len + 1 /\ v.len <= Len(bytes)
      BY <1>1, <3>1
    <3> QED BY <1>1, <3>1, <3>2, Cut
  <2>3. v.len = Len(bytes) => SubSeq(bytes, 1, v.len) = bytes
    BY <1>1, AllOfIt
  <2> HIDE DEF v, r
  <2>4. Whole(r)
    BY <1>1, <2>1, <2>2, <2>3
  <2> QED BY <2>4 DEF r
<1>4. \/ /\ stream_type = "TEXT"
         /\ \/ data_result = complete_character(bytes)
            \/ data_result = whole_characters(bytes)
      \/ stream_type # "TEXT" /\ data_result.send = bytes
  BY DEF data_result, process_text_stream, TextOk, bytes
<1> QED BY <1>1, <1>2, <1>3, <1>4

\* Items have their type.
LEMMA Items ==
  /\ \A code \in Nat : Failed(code) \in Item
  /\ \A type \in {"none", "BINARY", "TEXT"} : Started(type) \in Item
  /\ Ended \in Item
  /\ \A data \in Seq(Byte) : Control("on_ping", data) \in Item /\ Control("on_pong", data) \in Item
  /\ \A data \in Seq(Byte), code \in Nat : Closed(code, data) \in Item
  /\ \A b \in Byte : DataByte(b) \in Item
<1>1. << >> \in Seq(Byte) /\ \A b \in Byte : <<b>> \in Seq(Byte)
  OBVIOUS
<1>2. \A code \in Nat : Failed(code) \in Item
  BY <1>1 DEF Failed, Item
<1>3. \A type \in {"none", "BINARY", "TEXT"} : Started(type) \in Item
  BY <1>1 DEF Started, Item
<1>4. Ended \in Item
  BY <1>1 DEF Ended, Item
<1>5. \A data \in Seq(Byte) : Control("on_ping", data) \in Item /\ Control("on_pong", data) \in Item
  BY DEF Control, Item
<1>6. \A data \in Seq(Byte), code \in Nat : Closed(code, data) \in Item
  BY DEF Closed, Item
<1>7. \A b \in Byte : DataByte(b) \in Item
  BY <1>1 DEF DataByte, Item
<1> QED BY <1>2, <1>3, <1>4, <1>5, <1>6, <1>7

\* The bytes of a piece are calls and none of them is the end.
LEMMA DataItems ==
  ASSUME NEW data \in Seq(Byte)
  PROVE  DataBytes(data) \in Seq(Item) /\ NoEnd(DataBytes(data))
<1>1. Len(data) \in Nat /\ \A i \in 1..Len(data) : data[i] \in Byte
  BY LenProperties, ElementOfSeq
<1>2. \A i \in 1..Len(data) : DataByte(data[i]) \in Item
  BY <1>1, Items
<1>3. DataBytes(data) \in [1..Len(data) -> Item]
  BY <1>2 DEF DataBytes
<1>4. DataBytes(data) \in Seq(Item) /\ Len(DataBytes(data)) = Len(data)
  BY <1>1, <1>3
<1>5. \A i \in 1..Len(data) : DataBytes(data)[i].fn = "byte"
  BY DEF DataBytes, DataByte
<1> QED BY <1>4, <1>5 DEF NoEnd, EndCalls

\* Before the end is told, EndIsLast says that it is not among the calls.
LEMMA EndIsLastIs ==
  /\ ~close_received /\ EndIsLast => NoEnd(out)
  /\ NoEnd(out) /\ close_received = FALSE => EndIsLast
BY DEF EndIsLast, NoEnd, EndCalls

\* The end is told.
LEMMA EndTold ==
  ASSUME out \in Seq(Item), NoEnd(out), NEW item \in Item, item.fn \in EndCalls,
         out' = Append(out, item), close_received' = TRUE
  PROVE  out' \in Seq(Item) /\ EndIsLast'
<1>1. Len(out) \in Nat
  BY LenProperties
<1>2. /\ out' \in Seq(Item) /\ Len(out') = Len(out) + 1
      /\ out'[Len(out) + 1] = item
      /\ \A i \in 1..Len(out) : out'[i] = out[i]
  OBVIOUS
<1>3. \E i \in 1..Len(out') : out'[i].fn \in EndCalls
  BY <1>1, <1>2
<1>4. ASSUME NEW i \in 1..Len(out'), out'[i].fn \in EndCalls PROVE i = Len(out')
  <2>1. i \notin 1..Len(out)
    BY <1>2, <1>4 DEF NoEnd
  <2> QED BY <1>1, <1>2, <2>1
<1> QED BY <1>2, <1>3, <1>4 DEF EndIsLast, EndCalls

\* Something else is told.
LEMMA MoreTold ==
  ASSUME NEW o \in Seq(Item), NoEnd(o), NEW s \in Seq(Item), NoEnd(s)
  PROVE  o \o s \in Seq(Item) /\ NoEnd(o \o s)
<1>1. Len(o) \in Nat /\ Len(s) \in Nat
  BY LenProperties
<1>2. /\ o \o s \in Seq(Item) /\ Len(o \o s) = Len(o) + Len(s)
      /\ \A i \in 1..Len(o) : (o \o s)[i] = o[i]
      /\ \A i \in Len(o) + 1..Len(o) + Len(s) : (o \o s)[i] = s[i - Len(o)]
  OBVIOUS
<1>3. ASSUME NEW i \in 1..Len(o \o s) PROVE (o \o s)[i].fn \notin EndCalls
  <2>1. CASE i \in 1..Len(o)
    BY <1>2, <2>1 DEF NoEnd
  <2>2. CASE i \notin 1..Len(o)
    <3>1. i \in Len(o) + 1..Len(o) + Len(s) /\ i - Len(o) \in 1..Len(s)
      BY <1>1, <1>2, <2>2
    <3> QED BY <1>2, <3>1 DEF NoEnd
  <2> QED BY <2>1, <2>2
<1> QED BY <1>2, <1>3 DEF NoEnd

\* One call that is not the end.
LEMMA OneItem ==
  ASSUME NEW item \in Item, item.fn \notin EndCalls
  PROVE  <<item>> \in Seq(Item) /\ NoEnd(<<item>>)
BY DEF NoEnd

\* A close frame ends the connection, with its code and reason or with an error.
LEMMA CloseOutcome ==
  ASSUME NEW data \in Seq(Byte)
  PROVE  close_outcome(data) \in Item /\ close_outcome(data).fn \in EndCalls
<1> DEFINE reason == SubSeq(data, 3, Len(data))
<1>1. Len(data) \in Nat
  BY LenProperties
<1>2. ASSUME Len(data) # 1, data # << >>
      PROVE  reason \in Seq(Byte) /\ close_code(data) \in Nat
  <2>1. 2 <= Len(data)
    <3>1. Len(data) # 0
      BY <1>2, EmptySeq
    <3>2. \A k \in Nat : k # 0 /\ k # 1 => 2 <= k
      OBVIOUS
    <3> QED BY <1>1, <1>2, <3>1, <3>2, Zenon
  <2>2. /\ 3 \in Int /\ Len(data) \in Int /\ 0 < 3 /\ 3 <= Len(data) + 1 /\ Len(data) <= Len(data)
    BY <1>1, <2>1
  <2>3. reason \in Seq(Byte)
    BY <2>2, Cut
  <2>4. data[1] \in 0..255 /\ data[2] \in 0..255
    BY <1>1, <2>1, ByteAt
  <2> QED BY <2>3, <2>4, Pair DEF close_code
<1>3. \/ \E code \in Nat : close_outcome(data) = Failed(code)
      \/ close_outcome(data) = Closed(1005, << >>)
      \/ /\ Len(data) # 1 /\ data # << >>
         /\ close_outcome(data) = Closed(close_code(data), reason)
  <2>1. 1002 \in Nat /\ 1007 \in Nat
    OBVIOUS
  <2> HIDE DEF reason
  <2> QED BY <2>1 DEF close_outcome, reason
<1> HIDE DEF reason
<1>4. << >> \in Seq(Byte) /\ 1005 \in Nat
  OBVIOUS
<1>5. close_outcome(data) \in Item
  <2>1. \A code \in Nat : Failed(code) \in Item
    BY Items
  <2>2. Closed(1005, << >>) \in Item
    BY ZenonT(40), <1>4, Items
  <2>3. reason \in Seq(Byte) /\ close_code(data) \in Nat
          => Closed(close_code(data), reason) \in Item
    BY Items
  <2> QED BY <1>2, <1>3, <2>1, <2>2, <2>3
<1>6. /\ \A code : Failed(code).fn \in EndCalls
      /\ \A code, r : Closed(code, r).fn \in EndCalls
  BY DEF Failed, Closed, EndCalls
<1>7. close_outcome(data).fn \in EndCalls
  BY <1>3, <1>6
<1> QED BY <1>5, <1>7

\* An error closes the connection.
LEMMA ErrorTold ==
  ASSUME ToldInv, ~close_received, NEW code \in Nat, _error_close(code)
  PROVE  out' \in Seq(Item) /\ EndIsLast'
<1>1. out \in Seq(Item) /\ NoEnd(out)
  BY EndIsLastIs DEF ToldInv
<1>2. Failed(code) \in Item /\ Failed(code).fn \in EndCalls
  BY Items DEF Failed, EndCalls
<1>3. out' = Append(out, Failed(code)) /\ close_received' = TRUE
  BY DEF _error_close
<1> QED BY <1>1, <1>2, <1>3, EndTold

\* Steps that leave the message alone.
LEMMA MessageKept ==
  ASSUME ToldInv, UNCHANGED <<stream_type, fragment_info, piece>>, out' \in Seq(Item), EndIsLast'
  PROVE  ToldInv'
BY DEF ToldInv, TextPieceWhole

\* A step that tells nothing.
LEMMA ToldKept ==
  ASSUME ToldInv, UNCHANGED <<stream_type, fragment_info, piece, out, close_received>>
  PROVE  ToldInv'
BY DEF ToldInv, TextPieceWhole, EndIsLast

\* A ping or a pong is told and is not the end.
LEMMA ControlTold ==
  ASSUME RecvInv, ToldInv, control_dispatched
  PROVE  ToldInv'
<1>1. InControl /\ ~close_received /\ close_received' = close_received
  BY DEF control_dispatched, InControl, RecvInv, LoopIsOpen
<1>2. control_bytes \in Seq(Byte)
  BY <1>1, ControlBytes
<1>3. PICK item \in Item : item.fn \notin EndCalls /\ out' = Append(out, item)
  <2>1. \/ out' = Append(out, Control("on_ping", control_bytes))
        \/ out' = Append(out, Control("on_pong", control_bytes))
    BY DEF control_dispatched
  <2>2. Control("on_ping", control_bytes) \in Item /\ Control("on_pong", control_bytes) \in Item
    BY <1>2, Items
  <2>3. /\ Control("on_ping", control_bytes).fn \notin EndCalls
        /\ Control("on_pong", control_bytes).fn \notin EndCalls
    BY DEF Control, EndCalls
  <2> QED BY <2>1, <2>2, <2>3
<1>4. out \in Seq(Item) /\ NoEnd(out)
  BY <1>1, EndIsLastIs DEF ToldInv
<1>5. out' = out \o <<item>>
  BY <1>3, <1>4
<1>6. out' \in Seq(Item) /\ NoEnd(out')
  BY <1>3, <1>4, <1>5, OneItem, MoreTold
<1>7. close_received' = FALSE
  BY <1>1 DEF RecvInv, LoopIsOpen
<1>8. EndIsLast'
  BY <1>6, <1>7 DEF EndIsLast, NoEnd, EndCalls
<1> QED BY <1>6, <1>8, MessageKept DEF control_dispatched

\* A close frame is told as the end.
LEMMA CloseTold ==
  ASSUME RecvInv, ToldInv, close_handled
  PROVE  ToldInv'
<1>1. InControl /\ ~close_received
  BY DEF close_handled, InControl, RecvInv, LoopIsOpen
<1>2. control_bytes \in Seq(Byte)
  BY <1>1, ControlBytes
<1>3. out \in Seq(Item) /\ NoEnd(out)
  BY <1>1, EndIsLastIs DEF ToldInv
<1>4. out' = Append(out, close_outcome(control_bytes)) /\ close_received' = TRUE
  BY DEF close_handled
<1>5. out' \in Seq(Item) /\ EndIsLast'
  BY <1>2, <1>3, <1>4, CloseOutcome, EndTold
<1> QED BY <1>5, MessageKept DEF close_handled

\* A piece of data is told and is not the end.
LEMMA DataTold ==
  ASSUME RecvInv, CharacterFits, ToldInv, data_delivered
  PROVE  ToldInv'
<1>1. InData /\ data_result.ok /\ ~close_received /\ close_received' = close_received
  BY DEF data_delivered, InData, RecvInv, LoopIsOpen
<1>2. /\ data_result.send \in Seq(Byte)
      /\ stream_type = "TEXT" => IsText(data_result.send)
  BY <1>1, TextSent
<1>3. data_info \subseteq Info
  BY DEF data_info, ToldInv, Info
<1>4. stream_type' \in {"none", "BINARY", "TEXT"} /\ fragment_info' \subseteq Info
  BY <1>3 DEF data_delivered, ToldInv, Info
<1>5. out \in Seq(Item) /\ NoEnd(out)
  BY <1>1, EndIsLastIs DEF ToldInv
<1>6. CASE has_something
  <2>1. on_fragment(data_info, data_result.send)
    BY <1>6 DEF data_delivered
  <2>2. piece' = [type |-> stream_type, info |-> data_info, data |-> data_result.send]
    BY <2>1 DEF on_fragment
  <2>3. /\ piece' \in [type : {"none", "BINARY", "TEXT"}, info : SUBSET Info, data : Seq(Byte)]
        /\ TextPieceWhole'
    BY <1>2, <1>3, <2>2 DEF ToldInv, TextPieceWhole
  <2> DEFINE first == IF "FIRST" \in data_info THEN <<Started(stream_type)>> ELSE << >>
             last  == IF "LAST" \in data_info THEN <<Ended>> ELSE << >>
             bytes == DataBytes(data_result.send)
  <2>4. out' = ((out \o first) \o bytes) \o last
    BY <2>1 DEF on_fragment
  <2>5. << >> \in Seq(Item) /\ NoEnd(<< >>)
    BY DEF NoEnd
  <2>6. first \in Seq(Item) /\ NoEnd(first)
    <3>1. Started(stream_type) \in Item /\ Started(stream_type).fn \notin EndCalls
      BY Items DEF ToldInv, Started, EndCalls
    <3> QED BY <2>5, <3>1, OneItem
  <2>7. last \in Seq(Item) /\ NoEnd(last)
    <3>1. Ended \in Item /\ Ended.fn \notin EndCalls
      BY Items DEF Ended, EndCalls
    <3> QED BY <2>5, <3>1, OneItem
  <2>8. bytes \in Seq(Item) /\ NoEnd(bytes)
    BY <1>2, DataItems
  <2> HIDE DEF first, last, bytes
  <2>9. out \o first \in Seq(Item) /\ NoEnd(out \o first)
    BY <1>5, <2>6, MoreTold
  <2>10. (out \o first) \o bytes \in Seq(Item) /\ NoEnd((out \o first) \o bytes)
    BY <2>8, <2>9, MoreTold
  <2>11. out' \in Seq(Item) /\ NoEnd(out')
    BY <2>4, <2>7, <2>10, MoreTold
  <2>12. close_received' = FALSE
    BY <1>1 DEF RecvInv, LoopIsOpen
  <2>13. EndIsLast'
    BY <2>11, <2>12 DEF EndIsLast, NoEnd, EndCalls
  <2> QED BY <1>4, <2>3, <2>11, <2>13 DEF ToldInv
<1>7. CASE ~has_something
  <2>1. UNCHANGED <<piece, out, close_received>>
    BY <1>7 DEF data_delivered
  <2> QED BY <1>4, <2>1 DEF ToldInv, TextPieceWhole, EndIsLast
<1> QED BY <1>6, <1>7

\* Every step keeps what is known of the calls.
LEMMA ToldSteps ==
  ASSUME RecvInv, CharacterFits, ToldInv, Next \/ UNCHANGED vars
  PROVE  ToldInv'
<1>1. 1002 \in Nat /\ 1007 \in Nat
  OBVIOUS
<1>2. CASE header_rejected \/ header_out_of_order
  <2>1. /\ ~close_received /\ _error_close(1002)
        /\ UNCHANGED <<stream_type, fragment_info, piece>>
    BY ZenonT(40), <1>2
       DEF header_rejected, header_out_of_order, header_valid, Reading, assembly, RecvInv,
           LoopIsOpen
  <2> QED BY <1>1, <2>1, ErrorTold, MessageKept
<1>3. CASE text_rejected
  <2>1. /\ ~close_received /\ _error_close(1007)
        /\ UNCHANGED <<stream_type, fragment_info, piece>>
    BY <1>3 DEF text_rejected, InData, RecvInv, LoopIsOpen
  <2> QED BY <1>1, <2>1, ErrorTold, MessageKept
<1>4. CASE header_complete
  <2>1. UNCHANGED <<piece, out, close_received>>
    BY <1>4 DEF header_complete
  <2>2. stream_type' \in {"none", "BINARY", "TEXT"} /\ fragment_info' \subseteq Info
    BY <1>4 DEF header_complete, ToldInv, message_type, Info
  <2> QED BY <2>1, <2>2 DEF ToldInv, TextPieceWhole, EndIsLast
<1>5. CASE UNCHANGED <<stream_type, fragment_info, piece, out, close_received>>
  BY <1>5, ToldKept
<1>6. \/ header_rejected \/ header_out_of_order \/ text_rejected \/ header_complete
      \/ control_dispatched \/ close_handled \/ data_delivered
      \/ UNCHANGED <<stream_type, fragment_info, piece, out, close_received>>
  BY DEF Next, process_frame, receive_cb, receive_cb_ignored, header_incomplete,
         control_incomplete, Terminated, assembly, vars
<1> QED BY <1>2, <1>3, <1>4, <1>5, <1>6, ControlTold, CloseTold, DataTold

-------------------------------------------------------------------------------
(* Which steps tell of a ping *)

\* p begins with the calls of o, and has no ping behind them.
MoreButPings(o, p) ==
  /\ Len(o) <= Len(p)
  /\ \A i \in 1..Len(o) : p[i] = o[i]
  /\ \A i \in Len(o) + 1..Len(p) : p[i].fn # "on_ping"

\* Calls that are no pings are added.
LEMMA MoreCalls ==
  ASSUME NEW o \in Seq(Item), NEW p \in Seq(Item), MoreButPings(o, p),
         NEW s \in Seq(Item), \A i \in 1..Len(s) : s[i].fn # "on_ping"
  PROVE  p \o s \in Seq(Item) /\ MoreButPings(o, p \o s)
<1>1. Len(o) \in Nat /\ Len(p) \in Nat /\ Len(s) \in Nat /\ Len(o) <= Len(p)
  BY LenProperties DEF MoreButPings
<1>2. /\ p \o s \in Seq(Item) /\ Len(p \o s) = Len(p) + Len(s)
      /\ \A i \in 1..Len(p) : (p \o s)[i] = p[i]
      /\ \A i \in Len(p) + 1..Len(p) + Len(s) : (p \o s)[i] = s[i - Len(p)]
  OBVIOUS
<1>3. \A i \in 1..Len(o) : (p \o s)[i] = o[i]
  <2>1. \A i \in 1..Len(o) : i \in 1..Len(p)
    BY <1>1
  <2> QED BY <1>2, <2>1 DEF MoreButPings
<1>4. ASSUME NEW i \in Len(o) + 1..Len(p \o s) PROVE (p \o s)[i].fn # "on_ping"
  <2>1. CASE i <= Len(p)
    <3>1. i \in 1..Len(p) /\ i \in Len(o) + 1..Len(p)
      BY <1>1, <2>1
    <3> QED BY <1>2, <3>1 DEF MoreButPings
  <2>2. CASE ~(i <= Len(p))
    <3>1. i \in Len(p) + 1..Len(p) + Len(s) /\ i - Len(p) \in 1..Len(s)
      BY <1>1, <1>2, <2>2
    <3> QED BY <1>2, <3>1
  <2> QED BY <2>1, <2>2
<1> QED BY <1>1, <1>2, <1>3, <1>4 DEF MoreButPings

\* The same calls, or one more that is no ping.
LEMMA OneMoreCall ==
  ASSUME NEW o \in Seq(Item)
  PROVE  /\ MoreButPings(o, o)
         /\ \A x \in Item : x.fn # "on_ping" => MoreButPings(o, Append(o, x))
<1>1. MoreButPings(o, o)
  BY DEF MoreButPings
<1>2. ASSUME NEW x \in Item, x.fn # "on_ping" PROVE MoreButPings(o, Append(o, x))
  <2>1. <<x>> \in Seq(Item) /\ \A i \in 1..Len(<<x>>) : <<x>>[i].fn # "on_ping"
    BY <1>2
  <2>2. Append(o, x) = o \o <<x>>
    OBVIOUS
  <2> QED BY <1>1, <2>1, <2>2, MoreCalls
<1> QED BY <1>1, <1>2

\* A piece of data has none.
LEMMA DataTellsNoPing ==
  ASSUME RecvInv, CharacterFits, ToldInv, data_delivered
  PROVE  MoreButPings(out, out')
<1>1. out \in Seq(Item) /\ InData /\ data_result.ok
  BY DEF ToldInv, data_delivered
<1>2. CASE ~has_something
  BY <1>1, <1>2, OneMoreCall DEF data_delivered
<1>3. CASE has_something
  <2> DEFINE first == IF "FIRST" \in data_info THEN <<Started(stream_type)>> ELSE << >>
             last  == IF "LAST" \in data_info THEN <<Ended>> ELSE << >>
             bytes == DataBytes(data_result.send)
             NoPing(s) == \A i \in 1..Len(s) : s[i].fn # "on_ping"
  <2>1. out' = ((out \o first) \o bytes) \o last
    BY <1>3 DEF data_delivered, on_fragment
  <2>2. << >> \in Seq(Item) /\ NoPing(<< >>)
    OBVIOUS
  <2>3. first \in Seq(Item) /\ NoPing(first)
    <3>1. Started(stream_type) \in Item /\ Started(stream_type).fn # "on_ping"
      BY Items DEF ToldInv, Started
    <3>2. <<Started(stream_type)>> \in Seq(Item) /\ NoPing(<<Started(stream_type)>>)
      BY <3>1
    <3> QED BY <2>2, <3>2
  <2>4. last \in Seq(Item) /\ NoPing(last)
    <3>1. Ended \in Item /\ Ended.fn # "on_ping"
      BY Items DEF Ended
    <3>2. <<Ended>> \in Seq(Item) /\ NoPing(<<Ended>>)
      BY <3>1
    <3> QED BY <2>2, <3>2
  <2>5. bytes \in Seq(Item) /\ NoPing(bytes)
    <3>1. data_result.send \in Seq(Byte)
      BY <1>1, TextSent
    <3>2. bytes \in Seq(Item)
      BY <3>1, DataItems
    <3>3. \A i \in 1..Len(data_result.send) : bytes[i].fn = "byte"
      BY DEF DataBytes, DataByte
    <3>4. Len(bytes) = Len(data_result.send)
      <4>1. Len(data_result.send) \in Nat
        BY <3>1, LenProperties
      <4> QED BY <4>1 DEF DataBytes
    <3> QED BY <3>2, <3>3, <3>4
  <2> HIDE DEF first, last, bytes
  <2>6. out \o first \in Seq(Item) /\ MoreButPings(out, out \o first)
    BY <1>1, <2>3, OneMoreCall, MoreCalls
  <2>7. (out \o first) \o bytes \in Seq(Item) /\ MoreButPings(out, (out \o first) \o bytes)
    BY <1>1, <2>5, <2>6, MoreCalls
  <2> QED BY <1>1, <2>1, <2>4, <2>7, MoreCalls
<1> QED BY <1>2, <1>3

\* Only a complete ping frame tells of a ping.
LEMMA PingsTold ==
  ASSUME RecvInv, CharacterFits, ToldInv, ToldInv', Next \/ UNCHANGED vars
  PROVE  \/ MoreButPings(out, out')
         \/ control_dispatched /\ frame.opcode = WS_OPCODE_PING
<1>1. out \in Seq(Item) /\ out' \in Seq(Item)
  BY DEF ToldInv
<1>2. ASSUME NEW x, out' = Append(out, x), x.fn # "on_ping" PROVE MoreButPings(out, out')
  <2>1. x \in Item
    <3>1. Len(out) + 1 \in 1..Len(out') /\ out'[Len(out) + 1] = x
      BY <1>1, <1>2
    <3> QED BY <1>1, <3>1, ElementOfSeq
  <2> QED BY <1>1, <1>2, <2>1, OneMoreCall
<1>3. CASE header_rejected \/ header_out_of_order \/ text_rejected
  <2>1. out' = Append(out, Failed(1002)) \/ out' = Append(out, Failed(1007))
    BY <1>3 DEF header_rejected, header_out_of_order, text_rejected, _error_close
  <2>2. \A code : Failed(code).fn # "on_ping"
    BY DEF Failed
  <2> QED BY <1>2, <2>1, <2>2
<1>4. CASE close_handled
  <2>1. InControl /\ out' = Append(out, close_outcome(control_bytes))
    BY <1>4 DEF close_handled
  <2>2. close_outcome(control_bytes).fn # "on_ping"
    BY <2>1, ControlBytes, CloseOutcome DEF EndCalls
  <2> QED BY <1>2, <2>1, <2>2
<1>5. CASE control_dispatched /\ ~(frame.opcode = WS_OPCODE_PING)
  <2>1. out' = Append(out, Control("on_pong", control_bytes))
    BY <1>5 DEF control_dispatched
  <2>2. Control("on_pong", control_bytes).fn # "on_ping"
    BY DEF Control
  <2> QED BY <1>2, <2>1, <2>2
<1>6. CASE data_delivered
  BY <1>6, DataTellsNoPing
<1>7. CASE UNCHANGED out
  BY <1>1, <1>7, OneMoreCall
<1>8. \/ header_rejected \/ header_out_of_order \/ text_rejected \/ control_dispatched
      \/ close_handled \/ data_delivered \/ UNCHANGED out
  BY DEF Next, process_frame, receive_cb, receive_cb_ignored, header_incomplete,
         header_complete, control_incomplete, Terminated, vars
<1> QED BY <1>3, <1>4, <1>5, <1>6, <1>7, <1>8

-------------------------------------------------------------------------------
(* The theorems *)

\* The inductive invariant of the receiver.
ReceiverInv == RecvInv /\ CharacterFits /\ ToldInv

\* The invariant holds at the start ...
LEMMA ReceiverInitially ==
  ASSUME Init
  PROVE  ReceiverInv
<1>1. << >> \in Seq(Byte) /\ << >> \in Seq(Item) /\ Len(<< >>) = 0
  OBVIOUS
<1>2. CharacterFits
  BY <1>1 DEF Init, CharacterFits
<1>3. ToldInv
  <2>1. /\ stream_type = "none" /\ fragment_info = {} /\ close_received = FALSE /\ out = << >>
        /\ piece = [type |-> "none", info |-> {}, data |-> << >>]
    BY DEF Init
  <2>2. piece.type # "TEXT"
    BY <2>1
  <2>3. EndIsLast
    <3>1. NoEnd(<< >>)
      BY <1>1 DEF NoEnd
    <3> QED BY <2>1, <3>1, EndIsLastIs
  <2>4. piece \in [type : {"none", "BINARY", "TEXT"}, info : SUBSET Info, data : Seq(Byte)]
    BY <1>1, <2>1
  <2> QED BY <1>1, <2>1, <2>2, <2>3, <2>4 DEF ToldInv, TextPieceWhole
<1> QED BY <1>2, <1>3, Initially DEF ReceiverInv

\* ... and is preserved.
LEMMA ReceiverSteps ==
  ASSUME ReceiverInv, Next \/ UNCHANGED vars
  PROVE  ReceiverInv'
BY Steps, CharacterSteps, ToldSteps DEF ReceiverInv

\* For every byte stream and every cutting of it.
THEOREM ReceiverInvariant == DeliverySpec => []ReceiverInv
<1>1. DeliveryInit => ReceiverInv
  BY ReceiverInitially DEF DeliveryInit
<1>2. ReceiverInv /\ [DeliveryNext]_delivery_vars => ReceiverInv'
  BY ReceiverSteps, DeliverySteps
<1> QED BY <1>1, <1>2, PTL DEF DeliverySpec

\* Every variable of the receiving side keeps its type; no length underflows.
THEOREM ReceiverTypeCorrect == DeliverySpec => []TypeOK
<1>1. ReceiverInv => TypeOK
  BY DEF ReceiverInv, RecvInv, InStream, FrameIsValid, HeaderFits, ControlFits, LoopIsOpen,
         CharacterFits, ToldInv, TypeOK
<1> QED BY <1>1, ReceiverInvariant, PTL

\* The header and the control buffer of struct recv are never overrun, and no loop of
\* _receive_cb runs after a close.
THEOREM HeaderAndControlFit == DeliverySpec => []RecvInv
<1>1. ReceiverInv => RecvInv
  BY DEF ReceiverInv
<1> QED BY <1>1, ReceiverInvariant, PTL

\* None of the three fixed buffers of struct recv is ever overrun.
THEOREM BuffersNeverOverrun == DeliverySpec => []BuffersBounded
<1>1. ReceiverInv => BuffersBounded
  BY DEF ReceiverInv, RecvInv, FrameIsValid, HeaderFits, ControlFits, CharacterFits, BuffersBounded
<1> QED BY <1>1, ReceiverInvariant, PTL

\* What on_fragment is given of a text is a sequence of whole characters.
THEOREM TextComesInCharacters == DeliverySpec => []TextPieceWhole
<1>1. ReceiverInv => TextPieceWhole
  BY DEF ReceiverInv, ToldInv
<1> QED BY <1>1, ReceiverInvariant, PTL

\* The application hears of the end once, and of nothing after it.
THEOREM EndIsTheLast == DeliverySpec => []EndIsLast
<1>1. ReceiverInv => EndIsLast
  BY DEF ReceiverInv, ToldInv
<1> QED BY <1>1, ReceiverInvariant, PTL

-------------------------------------------------------------------------------
(* The receiver byte by byte *)

\* What After makes of the first k bytes, if f is what it makes of fewer.
AfterStep(s, f, k) == IF k = 0 THEN Start ELSE Step(f[k - 1], s[k])

\* f is After on the first n bytes.
IsAfter(s, f, n) == f = [k \in 0..n |-> AfterStep(s, f, k)]

\* After is well defined.
LEMMA AfterIsDefined ==
  ASSUME NEW s, NEW n \in Nat
  PROVE  \E f : IsAfter(s, f, n)
<1> DEFINE T == {m \in Nat : ~ \E f : IsAfter(s, f, m)}
<1>1. ASSUME T # {} PROVE FALSE
  <2>1. PICK m \in T : \A y \in T : m <= y
    <3>1. T \subseteq Nat
      OBVIOUS
    <3> HIDE DEF T
    <3> QED BY <1>1, <3>1, LeastNumber
  <2>2. m \in Nat /\ ~ \E f : IsAfter(s, f, m)
    OBVIOUS
  <2>3. \E f : \A k \in 0..m - 1 : f[k] = AfterStep(s, f, k)
    <3>1. CASE m = 0
      BY <3>1
    <3>2. CASE m # 0
      <4>1. m - 1 \in Nat /\ ~(m <= m - 1)
        BY <2>2, <3>2
      <4>2. m - 1 \notin T
        <5> HIDE DEF T
        <5> QED BY <2>1, <4>1
      <4>3. PICK f : IsAfter(s, f, m - 1)
        BY <4>1, <4>2
      <4> QED BY <4>3 DEF IsAfter
    <3> QED BY <3>1, <3>2
  <2> HIDE DEF T
  <2>4. PICK f : \A k \in 0..m - 1 : f[k] = AfterStep(s, f, k)
    BY <2>3
  <2> DEFINE h == [k \in 0..m |-> AfterStep(s, f, k)]
  <2>5. \A k \in 0..m - 1 : h[k] = f[k]
    BY <2>2, <2>4
  <2>6. (\A k \in 0..m : h[k] = AfterStep(s, f, k)) /\ h = [k \in 0..m |-> h[k]]
    OBVIOUS
  <2> HIDE DEF h
  <2>7. ASSUME NEW k \in 0..m PROVE AfterStep(s, f, k) = AfterStep(s, h, k)
    <3>1. CASE k = 0
      BY <3>1 DEF AfterStep
    <3>2. CASE k # 0
      <4>1. k - 1 \in 0..m - 1
        BY <2>2, <3>2
      <4> QED BY <2>5, <4>1 DEF AfterStep
    <3> QED BY <3>1, <3>2
  <2>8. h = [k \in 0..m |-> AfterStep(s, h, k)]
    <3>1. \A k \in 0..m : h[k] = AfterStep(s, h, k)
      BY <2>6, <2>7
    <3> QED BY <2>6, <3>1
  <2> QED BY <2>2, <2>8 DEF IsAfter
<1> QED BY <1>1

\* The states it goes through.
LEMMA AfterSteps ==
  ASSUME NEW s \in Seq(Byte)
  PROVE  /\ After(s)[0] = Start
         /\ \A k \in Nat : k < Len(s) => After(s)[k + 1] = Step(After(s)[k], s[k + 1])
<1> DEFINE F == CHOOSE f : f = [k \in 0..Len(s) |-> AfterStep(s, f, k)]
<1>1. Len(s) \in Nat
  BY LenProperties
<1>2. F = [k \in 0..Len(s) |-> AfterStep(s, F, k)]
  BY <1>1, AfterIsDefined DEF IsAfter
<1>3. After(s) = F
  BY DEF After, AfterStep
<1> HIDE DEF F
<1>4. \A k \in 0..Len(s) : F[k] = AfterStep(s, F, k)
  BY <1>2
<1>5. F[0] = Start
  <2>1. 0 \in 0..Len(s)
    BY <1>1
  <2> QED BY <1>4, <2>1 DEF AfterStep
<1>6. ASSUME NEW k \in Nat, k < Len(s) PROVE F[k + 1] = Step(F[k], s[k + 1])
  <2>1. k + 1 \in 0..Len(s) /\ k + 1 # 0 /\ (k + 1) - 1 = k
    BY <1>1, <1>6
  <2>2. F[k + 1] = AfterStep(s, F, k + 1)
    BY <1>4, <2>1
  <2> QED BY <2>1, <2>2 DEF AfterStep
<1> QED BY <1>3, <1>5, <1>6

\* Q[j] is what follows Q[0] after j of the n bytes behind the first a.
IsRun(s, a, n, Q) ==
  /\ a + n <= Len(s)
  /\ Q[0] = After(s)[a]
  /\ \A j \in Nat : j < n => Q[j + 1] = Step(Q[j], s[a + j + 1])

\* So it is what ByteReceiver makes of them.
LEMMA AfterRun ==
  \A s \in Seq(Byte), a \in Nat, n \in Nat : \A Q : IsRun(s, a, n, Q) => After(s)[a + n] = Q[n]
<1> SUFFICES ASSUME NEW s \in Seq(Byte), NEW a \in Nat, NEW n \in Nat, NEW Q, a + n <= Len(s),
                    Q[0] = After(s)[a],
                    \A j \in Nat : j < n => Q[j + 1] = Step(Q[j], s[a + j + 1])
             PROVE  After(s)[a + n] = Q[n]
  BY DEF IsRun
<1> DEFINE T == {j \in 0..n : After(s)[a + j] # Q[j]}
<1>1. Len(s) \in Nat
  BY LenProperties
<1>2. ASSUME T # {} PROVE FALSE
  <2>1. PICK m \in T : \A y \in T : m <= y
    <3>1. T \subseteq Nat
      OBVIOUS
    <3> HIDE DEF T
    <3> QED BY <1>2, <3>1, LeastNumber
  <2>2. m \in 0..n /\ After(s)[a + m] # Q[m]
    OBVIOUS
  <2>3. m # 0
    BY <2>2
  <2>4. m - 1 \in 0..n /\ m - 1 \in Nat /\ m - 1 < n /\ ~(m <= m - 1) /\ (m - 1) + 1 = m
    BY <2>2, <2>3
  <2>5. m - 1 \notin T
    <3> HIDE DEF T
    <3> QED BY <2>1, <2>4
  <2>6. After(s)[a + (m - 1)] = Q[m - 1]
    BY <2>4, <2>5
  <2>7. /\ a + (m - 1) \in Nat /\ a + (m - 1) < Len(s)
        /\ a + (m - 1) + 1 = a + m
    BY <1>1, <2>4
  <2>8. After(s)[a + m] = Step(After(s)[a + (m - 1)], s[a + m])
    BY <2>7, AfterSteps
  <2>9. Q[m] = Step(Q[m - 1], s[a + m])
    BY <2>4, <2>7
  <2> QED BY <2>2, <2>6, <2>8, <2>9
<1>3. n \in 0..n
  OBVIOUS
<1> QED BY <1>2, <1>3

\* Nothing follows the end.
LEMMA DoneStays ==
  \A s \in Seq(Byte), a \in Nat, n \in Nat :
    a + n <= Len(s) /\ After(s)[a].done => After(s)[a + n] = After(s)[a]
<1> TAKE s \in Seq(Byte), a \in Nat, n \in Nat
<1> HAVE a + n <= Len(s) /\ After(s)[a].done
<1> DEFINE q == After(s)[a]
           Q == [j \in 0..n |-> q]
<1>1. \A b : Step(q, b) = q
  BY DEF Step
<1>2. ASSUME NEW j \in Nat, j < n PROVE Q[j + 1] = Step(Q[j], s[a + j + 1])
  <2> HIDE DEF q
  <2> QED BY <1>1, <1>2
<1>3. Q[0] = q /\ Q[n] = q
  OBVIOUS
<1> HIDE DEF Q
<1>4. IsRun(s, a, n, Q)
  BY <1>2, <1>3 DEF IsRun
<1> QED BY <1>3, <1>4, AfterRun

-------------------------------------------------------------------------------
(* The states of ByteReceiver as tuples of their fields *)

\* A state of ByteReceiver before its end.
State(h, f, l, t, held, ctl, o) ==
  [hdr |-> h, frame |-> f, left |-> l, type |-> t, held |-> held, ctl |-> ctl,
   done |-> FALSE, out |-> o]

Fields == {"hdr", "frame", "left", "type", "held", "ctl", "done", "out"}

\* The changes ByteReceiver makes to them.
WithHeader(s, h)   == [s EXCEPT !.hdr = h]
WithFrame(s, f)    == [s EXCEPT !.frame = f, !.left = f.payload_len]
WithoutFrame(s)    == [s EXCEPT !.frame = NoFrame, !.hdr = << >>, !.ctl = << >>]
WithMessage(s, t)  == [s EXCEPT !.type = t, !.out = Append(@, Started(t))]
WithoutMessage(s)  == [s EXCEPT !.type = "none", !.out = Append(@, Ended)]
WithCall(s, x)     == [s EXCEPT !.out = Append(@, x)]
WithByte(s)        == [s EXCEPT !.left = @ - 1]
WithControl(s, b)  == [s EXCEPT !.ctl = Append(@, b)]
WithHeld(s, c)     == [s EXCEPT !.held = c]
WithCharacter(s, c) == [s EXCEPT !.held = << >>, !.out = @ \o DataBytes(c)]

\* A record with the fields of such a state, given by them.
LEMMA IsState ==
  ASSUME NEW r, DOMAIN r = Fields, r = [i \in DOMAIN r |-> r[i]], r.done = FALSE
  PROVE  r = State(r.hdr, r.frame, r.left, r.type, r.held, r.ctl, r.out)
<1> DEFINE q == State(r.hdr, r.frame, r.left, r.type, r.held, r.ctl, r.out)
<1>1. DOMAIN q = Fields /\ q = [i \in DOMAIN q |-> q[i]]
  BY DEF State, Fields
<1>2. /\ q.hdr = r.hdr /\ q.frame = r.frame /\ q.left = r.left /\ q.type = r.type
      /\ q.held = r.held /\ q.ctl = r.ctl /\ q.done = r.done /\ q.out = r.out
  BY DEF State
<1> HIDE DEF q
<1>3. \A i \in Fields : r[i] = q[i]
  BY <1>2 DEF Fields
<1> QED BY <1>1, <1>3 DEF q

\* The fields of a state.
LEMMA StateFields ==
  \A h, f, l, t, held, ctl, o :
    LET s == State(h, f, l, t, held, ctl, o)
    IN  /\ s.hdr = h /\ s.frame = f /\ s.left = l /\ s.type = t /\ s.held = held
        /\ s.ctl = ctl /\ s.done = FALSE /\ s.out = o
        /\ DOMAIN s = Fields
BY DEF State, Fields

\* r is an end at which x is told after o.
Stops(r, o, x) == r.done /\ r.out = Append(o, x)

\* A state that stops.
LEMMA Stopped ==
  \A s, x : DOMAIN s = Fields => Stops(Stop(s, x), s.out, x)
BY DEF Stop, Fields, Stops

\* u, or what follows if no byte of its frame is left.
Settled(u) == IF u.frame = NoFrame \/ u.left > 0 THEN u ELSE EndFrame(u)

\* What the changes make of a state: a byte of a header is kept.
LEMMA WithHeaderIs ==
  \A h, f, l, t, held, ctl, o, x :
    WithHeader(State(h, f, l, t, held, ctl, o), x) = State(x, f, l, t, held, ctl, o)
<1> SUFFICES ASSUME NEW h, NEW f, NEW l, NEW t, NEW held, NEW ctl, NEW o, NEW x
             PROVE  WithHeader(State(h, f, l, t, held, ctl, o), x) = State(x, f, l, t, held, ctl, o)
  OBVIOUS
<1> DEFINE r == WithHeader(State(h, f, l, t, held, ctl, o), x)
<1>1. DOMAIN r = Fields /\ r = [i \in DOMAIN r |-> r[i]]
  BY DEF WithHeader, State, Fields
<1>2. /\ r.hdr = x /\ r.frame = f /\ r.left = l
      /\ r.type = t /\ r.held = held /\ r.ctl = ctl
      /\ r.done = FALSE /\ r.out = o
  BY DEF WithHeader, State
<1> HIDE DEF r
<1>3. r = State(r.hdr, r.frame, r.left, r.type, r.held, r.ctl, r.out)
  BY <1>1, <1>2, IsState
<1> QED BY <1>2, <1>3 DEF r

\* A frame begins ...
LEMMA WithFrameIs ==
  \A h, f, l, t, held, ctl, o, x :
    WithFrame(State(h, f, l, t, held, ctl, o), x) = State(h, x, x.payload_len, t, held, ctl, o)
<1> SUFFICES ASSUME NEW h, NEW f, NEW l, NEW t, NEW held, NEW ctl, NEW o, NEW x
             PROVE  WithFrame(State(h, f, l, t, held, ctl, o), x) = State(h, x, x.payload_len, t, held, ctl, o)
  OBVIOUS
<1> DEFINE r == WithFrame(State(h, f, l, t, held, ctl, o), x)
<1>1. DOMAIN r = Fields /\ r = [i \in DOMAIN r |-> r[i]]
  BY DEF WithFrame, State, Fields
<1>2. /\ r.hdr = h /\ r.frame = x /\ r.left = x.payload_len
      /\ r.type = t /\ r.held = held /\ r.ctl = ctl
      /\ r.done = FALSE /\ r.out = o
  BY DEF WithFrame, State
<1> HIDE DEF r
<1>3. r = State(r.hdr, r.frame, r.left, r.type, r.held, r.ctl, r.out)
  BY <1>1, <1>2, IsState
<1> QED BY <1>2, <1>3 DEF r

\* ... and ends.
LEMMA WithoutFrameIs ==
  \A h, f, l, t, held, ctl, o :
    WithoutFrame(State(h, f, l, t, held, ctl, o)) = State(<< >>, NoFrame, l, t, held, << >>, o)
<1> SUFFICES ASSUME NEW h, NEW f, NEW l, NEW t, NEW held, NEW ctl, NEW o
             PROVE  WithoutFrame(State(h, f, l, t, held, ctl, o)) = State(<< >>, NoFrame, l, t, held, << >>, o)
  OBVIOUS
<1> DEFINE r == WithoutFrame(State(h, f, l, t, held, ctl, o))
<1>1. DOMAIN r = Fields /\ r = [i \in DOMAIN r |-> r[i]]
  BY DEF WithoutFrame, State, Fields
<1>2. /\ r.hdr = << >> /\ r.frame = NoFrame /\ r.left = l
      /\ r.type = t /\ r.held = held /\ r.ctl = << >>
      /\ r.done = FALSE /\ r.out = o
  BY DEF WithoutFrame, State
<1> HIDE DEF r
<1>3. r = State(r.hdr, r.frame, r.left, r.type, r.held, r.ctl, r.out)
  BY <1>1, <1>2, IsState
<1> QED BY <1>2, <1>3 DEF r

\* A message begins ...
LEMMA WithMessageIs ==
  \A h, f, l, t, held, ctl, o, x :
    WithMessage(State(h, f, l, t, held, ctl, o), x) = State(h, f, l, x, held, ctl, Append(o, Started(x)))
<1> SUFFICES ASSUME NEW h, NEW f, NEW l, NEW t, NEW held, NEW ctl, NEW o, NEW x
             PROVE  WithMessage(State(h, f, l, t, held, ctl, o), x) =
                      State(h, f, l, x, held, ctl, Append(o, Started(x)))
  OBVIOUS
<1> DEFINE r == WithMessage(State(h, f, l, t, held, ctl, o), x)
<1>1. DOMAIN r = Fields /\ r = [i \in DOMAIN r |-> r[i]]
  BY DEF WithMessage, State, Fields
<1>2. /\ r.hdr = h /\ r.frame = f /\ r.left = l
      /\ r.type = x /\ r.held = held /\ r.ctl = ctl
      /\ r.done = FALSE /\ r.out = Append(o, Started(x))
  BY DEF WithMessage, State
<1> HIDE DEF r
<1>3. r = State(r.hdr, r.frame, r.left, r.type, r.held, r.ctl, r.out)
  BY <1>1, <1>2, IsState
<1> QED BY <1>2, <1>3 DEF r

\* ... and ends.
LEMMA WithoutMessageIs ==
  \A h, f, l, t, held, ctl, o :
    WithoutMessage(State(h, f, l, t, held, ctl, o)) = State(h, f, l, "none", held, ctl, Append(o, Ended))
<1> SUFFICES ASSUME NEW h, NEW f, NEW l, NEW t, NEW held, NEW ctl, NEW o
             PROVE  WithoutMessage(State(h, f, l, t, held, ctl, o)) =
                      State(h, f, l, "none", held, ctl, Append(o, Ended))
  OBVIOUS
<1> DEFINE r == WithoutMessage(State(h, f, l, t, held, ctl, o))
<1>1. DOMAIN r = Fields /\ r = [i \in DOMAIN r |-> r[i]]
  BY DEF WithoutMessage, State, Fields
<1>2. /\ r.hdr = h /\ r.frame = f /\ r.left = l
      /\ r.type = "none" /\ r.held = held /\ r.ctl = ctl
      /\ r.done = FALSE /\ r.out = Append(o, Ended)
  BY DEF WithoutMessage, State
<1> HIDE DEF r
<1>3. r = State(r.hdr, r.frame, r.left, r.type, r.held, r.ctl, r.out)
  BY <1>1, <1>2, IsState
<1> QED BY <1>2, <1>3 DEF r

\* The application is called.
LEMMA WithCallIs ==
  \A h, f, l, t, held, ctl, o, x :
    WithCall(State(h, f, l, t, held, ctl, o), x) = State(h, f, l, t, held, ctl, Append(o, x))
<1> SUFFICES ASSUME NEW h, NEW f, NEW l, NEW t, NEW held, NEW ctl, NEW o, NEW x
             PROVE  WithCall(State(h, f, l, t, held, ctl, o), x) = State(h, f, l, t, held, ctl, Append(o, x))
  OBVIOUS
<1> DEFINE r == WithCall(State(h, f, l, t, held, ctl, o), x)
<1>1. DOMAIN r = Fields /\ r = [i \in DOMAIN r |-> r[i]]
  BY DEF WithCall, State, Fields
<1>2. /\ r.hdr = h /\ r.frame = f /\ r.left = l
      /\ r.type = t /\ r.held = held /\ r.ctl = ctl
      /\ r.done = FALSE /\ r.out = Append(o, x)
  BY DEF WithCall, State
<1> HIDE DEF r
<1>3. r = State(r.hdr, r.frame, r.left, r.type, r.held, r.ctl, r.out)
  BY <1>1, <1>2, IsState
<1> QED BY <1>2, <1>3 DEF r

\* A byte of a payload is taken.
LEMMA WithByteIs ==
  \A h, f, l, t, held, ctl, o :
    WithByte(State(h, f, l, t, held, ctl, o)) = State(h, f, l - 1, t, held, ctl, o)
<1> SUFFICES ASSUME NEW h, NEW f, NEW l, NEW t, NEW held, NEW ctl, NEW o
             PROVE  WithByte(State(h, f, l, t, held, ctl, o)) = State(h, f, l - 1, t, held, ctl, o)
  OBVIOUS
<1> DEFINE r == WithByte(State(h, f, l, t, held, ctl, o))
<1>1. DOMAIN r = Fields /\ r = [i \in DOMAIN r |-> r[i]]
  BY DEF WithByte, State, Fields
<1>2. /\ r.hdr = h /\ r.frame = f /\ r.left = l - 1
      /\ r.type = t /\ r.held = held /\ r.ctl = ctl
      /\ r.done = FALSE /\ r.out = o
  BY DEF WithByte, State
<1> HIDE DEF r
<1>3. r = State(r.hdr, r.frame, r.left, r.type, r.held, r.ctl, r.out)
  BY <1>1, <1>2, IsState
<1> QED BY <1>2, <1>3 DEF r

\* A byte of a control frame is kept.
LEMMA WithControlIs ==
  \A h, f, l, t, held, ctl, o, x :
    WithControl(State(h, f, l, t, held, ctl, o), x) = State(h, f, l, t, held, Append(ctl, x), o)
<1> SUFFICES ASSUME NEW h, NEW f, NEW l, NEW t, NEW held, NEW ctl, NEW o, NEW x
             PROVE  WithControl(State(h, f, l, t, held, ctl, o), x) = State(h, f, l, t, held, Append(ctl, x), o)
  OBVIOUS
<1> DEFINE r == WithControl(State(h, f, l, t, held, ctl, o), x)
<1>1. DOMAIN r = Fields /\ r = [i \in DOMAIN r |-> r[i]]
  BY DEF WithControl, State, Fields
<1>2. /\ r.hdr = h /\ r.frame = f /\ r.left = l
      /\ r.type = t /\ r.held = held /\ r.ctl = Append(ctl, x)
      /\ r.done = FALSE /\ r.out = o
  BY DEF WithControl, State
<1> HIDE DEF r
<1>3. r = State(r.hdr, r.frame, r.left, r.type, r.held, r.ctl, r.out)
  BY <1>1, <1>2, IsState
<1> QED BY <1>2, <1>3 DEF r

\* A byte of a character is kept.
LEMMA WithHeldIs ==
  \A h, f, l, t, held, ctl, o, x :
    WithHeld(State(h, f, l, t, held, ctl, o), x) = State(h, f, l, t, x, ctl, o)
<1> SUFFICES ASSUME NEW h, NEW f, NEW l, NEW t, NEW held, NEW ctl, NEW o, NEW x
             PROVE  WithHeld(State(h, f, l, t, held, ctl, o), x) = State(h, f, l, t, x, ctl, o)
  OBVIOUS
<1> DEFINE r == WithHeld(State(h, f, l, t, held, ctl, o), x)
<1>1. DOMAIN r = Fields /\ r = [i \in DOMAIN r |-> r[i]]
  BY DEF WithHeld, State, Fields
<1>2. /\ r.hdr = h /\ r.frame = f /\ r.left = l
      /\ r.type = t /\ r.held = x /\ r.ctl = ctl
      /\ r.done = FALSE /\ r.out = o
  BY DEF WithHeld, State
<1> HIDE DEF r
<1>3. r = State(r.hdr, r.frame, r.left, r.type, r.held, r.ctl, r.out)
  BY <1>1, <1>2, IsState
<1> QED BY <1>2, <1>3 DEF r

\* A character is passed on.
LEMMA WithCharacterIs ==
  \A h, f, l, t, held, ctl, o, x :
    WithCharacter(State(h, f, l, t, held, ctl, o), x) = State(h, f, l, t, << >>, ctl, o \o DataBytes(x))
<1> SUFFICES ASSUME NEW h, NEW f, NEW l, NEW t, NEW held, NEW ctl, NEW o, NEW x
             PROVE  WithCharacter(State(h, f, l, t, held, ctl, o), x) =
                      State(h, f, l, t, << >>, ctl, o \o DataBytes(x))
  OBVIOUS
<1> DEFINE r == WithCharacter(State(h, f, l, t, held, ctl, o), x)
<1>1. DOMAIN r = Fields /\ r = [i \in DOMAIN r |-> r[i]]
  BY DEF WithCharacter, State, Fields
<1>2. /\ r.hdr = h /\ r.frame = f /\ r.left = l
      /\ r.type = t /\ r.held = << >> /\ r.ctl = ctl
      /\ r.done = FALSE /\ r.out = o \o DataBytes(x)
  BY DEF WithCharacter, State
<1> HIDE DEF r
<1>3. r = State(r.hdr, r.frame, r.left, r.type, r.held, r.ctl, r.out)
  BY <1>1, <1>2, IsState
<1> QED BY <1>2, <1>3 DEF r

\* EndFrame by cases.
LEMMA EndFrameIs ==
  \A s : EndFrame(s) =
    IF s.frame.opcode = WS_OPCODE_CLOSE     THEN Stop(s, close_result(s.ctl))
    ELSE IF s.frame.opcode = WS_OPCODE_PING THEN WithCall(WithoutFrame(s), Control("on_ping", s.ctl))
    ELSE IF s.frame.opcode = WS_OPCODE_PONG THEN WithCall(WithoutFrame(s), Control("on_pong", s.ctl))
    ELSE IF ~s.frame.fin                    THEN WithoutFrame(s)
    ELSE IF s.held # << >>                  THEN Stop(s, Failed(1007))
    ELSE WithoutMessage(WithoutFrame(s))
BY DEF EndFrame, WithCall, WithoutFrame, WithoutMessage

\* A control frame ends.
LEMMA EndControl ==
  \A h, f, l, t, held, ctl, o :
    f.opcode \in {WS_OPCODE_PING, WS_OPCODE_PONG} =>
      EndFrame(State(h, f, l, t, held, ctl, o)) =
        State(<< >>, NoFrame, l, t, held, << >>,
              Append(o, Control(IF f.opcode = WS_OPCODE_PING THEN "on_ping" ELSE "on_pong", ctl)))
<1> SUFFICES ASSUME NEW h, NEW f, NEW l, NEW t, NEW held, NEW ctl, NEW o,
                    f.opcode \in {WS_OPCODE_PING, WS_OPCODE_PONG}
             PROVE  EndFrame(State(h, f, l, t, held, ctl, o)) =
                      State(<< >>, NoFrame, l, t, held, << >>,
                            Append(o, Control(IF f.opcode = WS_OPCODE_PING THEN "on_ping" ELSE "on_pong", ctl)))
  OBVIOUS
<1> DEFINE s == State(h, f, l, t, held, ctl, o)
           e == State(<< >>, NoFrame, l, t, held, << >>, o)
<1>1. s.frame = f /\ s.ctl = ctl
  BY StateFields
<1>2. f.opcode # WS_OPCODE_CLOSE
  BY DEF WS_OPCODE_PING, WS_OPCODE_PONG, WS_OPCODE_CLOSE
<1>3. WithoutFrame(s) = e
  BY WithoutFrameIs
<1>4. \A x : WithCall(e, x) = State(<< >>, NoFrame, l, t, held, << >>, Append(o, x))
  BY WithCallIs
<1> HIDE DEF s, e
<1>5. CASE f.opcode = WS_OPCODE_PING
  BY <1>1, <1>2, <1>3, <1>4, <1>5, EndFrameIs DEF s
<1>6. CASE f.opcode = WS_OPCODE_PONG
  <2>1. f.opcode # WS_OPCODE_PING
    BY <1>6 DEF WS_OPCODE_PING, WS_OPCODE_PONG
  <2> QED BY <1>1, <1>2, <1>3, <1>4, <1>6, <2>1, EndFrameIs DEF s
<1> QED BY <1>5, <1>6

\* A close frame ends the connection.
LEMMA EndClose ==
  \A h, f, l, t, held, ctl, o :
    f.opcode = WS_OPCODE_CLOSE =>
      Stops(EndFrame(State(h, f, l, t, held, ctl, o)), o, close_result(ctl))
<1> SUFFICES ASSUME NEW h, NEW f, NEW l, NEW t, NEW held, NEW ctl, NEW o,
                    f.opcode = WS_OPCODE_CLOSE
             PROVE  Stops(EndFrame(State(h, f, l, t, held, ctl, o)), o, close_result(ctl))
  OBVIOUS
<1> DEFINE s == State(h, f, l, t, held, ctl, o)
<1>1. s.frame = f /\ s.ctl = ctl /\ s.out = o /\ DOMAIN s = Fields
  BY StateFields
<1> HIDE DEF s
<1>2. EndFrame(s) = Stop(s, close_result(s.ctl))
  BY <1>1, EndFrameIs
<1> QED BY <1>1, <1>2, Stopped DEF s

\* A data frame ends, and with the last one the message.
LEMMA EndData ==
  \A h, f, l, t, held, ctl, o :
    f.opcode \in DataOpcodes =>
      LET r == EndFrame(State(h, f, l, t, held, ctl, o))
      IN  /\ ~f.fin => r = State(<< >>, NoFrame, l, t, held, << >>, o)
          /\ f.fin /\ held = << >> =>
               r = State(<< >>, NoFrame, l, "none", held, << >>, Append(o, Ended))
          /\ f.fin /\ held # << >> => Stops(r, o, Failed(1007))
<1> SUFFICES ASSUME NEW h, NEW f, NEW l, NEW t, NEW held, NEW ctl, NEW o,
                    f.opcode \in DataOpcodes
             PROVE  LET r == EndFrame(State(h, f, l, t, held, ctl, o))
                    IN  /\ ~f.fin => r = State(<< >>, NoFrame, l, t, held, << >>, o)
                        /\ f.fin /\ held = << >> =>
                             r = State(<< >>, NoFrame, l, "none", held, << >>, Append(o, Ended))
                        /\ f.fin /\ held # << >> => Stops(r, o, Failed(1007))
  OBVIOUS
<1> DEFINE s == State(h, f, l, t, held, ctl, o)
           e == State(<< >>, NoFrame, l, t, held, << >>, o)
<1>1. s.frame = f /\ s.held = held /\ s.out = o /\ DOMAIN s = Fields
  BY StateFields
<1>2. WithoutFrame(s) = e
  BY WithoutFrameIs
<1>3. WithoutMessage(e) = State(<< >>, NoFrame, l, "none", held, << >>, Append(o, Ended))
  BY WithoutMessageIs
<1>4. f.opcode # WS_OPCODE_CLOSE /\ f.opcode # WS_OPCODE_PING /\ f.opcode # WS_OPCODE_PONG
  BY DEF DataOpcodes, WS_OPCODE_CONTINUATION, WS_OPCODE_TEXT, WS_OPCODE_BINARY,
         WS_OPCODE_CLOSE, WS_OPCODE_PING, WS_OPCODE_PONG
<1> HIDE DEF s, e
<1>5. EndFrame(s) = IF ~f.fin THEN e ELSE IF held # << >> THEN Stop(s, Failed(1007))
                    ELSE WithoutMessage(e)
  BY <1>1, <1>2, <1>4, EndFrameIs
<1>6. CASE ~f.fin
  BY <1>5, <1>6 DEF s, e
<1>7. CASE f.fin /\ held = << >>
  BY <1>3, <1>5, <1>7 DEF s
<1>8. CASE f.fin /\ held # << >>
  BY <1>1, <1>5, <1>8, Stopped DEF s
<1> QED BY <1>6, <1>7, <1>8

\* The frame of a decoded header.
FrameOf(d) == [opcode |-> d.opcode, fin |-> d.fin, is_control |-> d.is_control,
               payload_len |-> d.payload_len]

\* d is c and b.
Extends(d, c, b) == d = Append(c, b)

\* Step by cases: a byte of a header ...
LEMMA HeaderByteIs ==
  ASSUME NEW s, NEW b, NEW c, Extends(c, s.hdr, b), NEW d, d = frame_decode(c)
  PROVE  HeaderByte(s, b) = IF d.err # 0    THEN Stop(s, Failed(1002))
                            ELSE IF d.delta < 0 THEN WithHeader(s, c)
                            ELSE IF frame_validate_S2C(d) # 0 THEN Stop(s, Failed(1002))
                            ELSE BeginFrame(s, FrameOf(d))
<1> DEFINE x == Append(s.hdr, b)
<1>1. x = c
  BY DEF Extends
<1>2. HeaderByte(s, b) = LET y == frame_decode(x)
                         IN  IF y.err # 0    THEN Stop(s, Failed(1002))
                             ELSE IF y.delta < 0 THEN WithHeader(s, x)
                             ELSE IF frame_validate_S2C(y) # 0 THEN Stop(s, Failed(1002))
                             ELSE BeginFrame(s, FrameOf(y))
  BY DEF HeaderByte, WithHeader, FrameOf
<1> HIDE DEF x
<1> QED BY <1>1, <1>2

\* ... the beginning of a frame ...
LEMMA BeginFrameIs ==
  \A s, f : (f.is_control <=> f.opcode \in ControlOpcodes) =>
    BeginFrame(s, f) =
      LET t == WithFrame(s, f)
          u == IF f.is_control THEN t
               ELSE IF f.opcode = WS_OPCODE_CONTINUATION /\ s.type # "none" THEN t
               ELSE IF f.opcode = WS_OPCODE_BINARY /\ s.type = "none" THEN WithMessage(t, "BINARY")
               ELSE IF f.opcode = WS_OPCODE_TEXT /\ s.type = "none" THEN WithMessage(t, "TEXT")
               ELSE Stop(s, Failed(1002))
      IN  IF u.done \/ u.left > 0 THEN u ELSE EndFrame(u)
<1> SUFFICES ASSUME NEW s, NEW f, (f.is_control <=> f.opcode \in ControlOpcodes)
             PROVE  BeginFrame(s, f) =
                      LET t == WithFrame(s, f)
                          u == IF f.is_control THEN t
                               ELSE IF f.opcode = WS_OPCODE_CONTINUATION /\ s.type # "none" THEN t
                               ELSE IF f.opcode = WS_OPCODE_BINARY /\ s.type = "none" THEN WithMessage(t, "BINARY")
                               ELSE IF f.opcode = WS_OPCODE_TEXT /\ s.type = "none" THEN WithMessage(t, "TEXT")
                               ELSE Stop(s, Failed(1002))
                      IN  IF u.done \/ u.left > 0 THEN u ELSE EndFrame(u)
  OBVIOUS
<1> DEFINE t == WithFrame(s, f)
           c == CASE f.is_control -> t
                  [] ~f.is_control /\ f.opcode = WS_OPCODE_CONTINUATION /\ s.type # "none" -> t
                  [] f.opcode = WS_OPCODE_BINARY /\ s.type = "none" -> WithMessage(t, "BINARY")
                  [] f.opcode = WS_OPCODE_TEXT /\ s.type = "none" -> WithMessage(t, "TEXT")
                  [] OTHER -> Stop(s, Failed(1002))
           u == IF f.is_control THEN t
                ELSE IF f.opcode = WS_OPCODE_CONTINUATION /\ s.type # "none" THEN t
                ELSE IF f.opcode = WS_OPCODE_BINARY /\ s.type = "none" THEN WithMessage(t, "BINARY")
                ELSE IF f.opcode = WS_OPCODE_TEXT /\ s.type = "none" THEN WithMessage(t, "TEXT")
                ELSE Stop(s, Failed(1002))
<1>1. BeginFrame(s, f) = IF c.done \/ c.left > 0 THEN c ELSE EndFrame(c)
  BY DEF BeginFrame, WithFrame, WithMessage
<1>2. f.opcode = WS_OPCODE_BINARY => ~f.is_control /\ f.opcode # WS_OPCODE_TEXT /\ f.opcode # WS_OPCODE_CONTINUATION
  BY DEF ControlOpcodes, WS_OPCODE_CLOSE, WS_OPCODE_PING, WS_OPCODE_PONG, WS_OPCODE_BINARY,
         WS_OPCODE_TEXT, WS_OPCODE_CONTINUATION
<1>3. f.opcode = WS_OPCODE_TEXT => ~f.is_control /\ f.opcode # WS_OPCODE_BINARY /\ f.opcode # WS_OPCODE_CONTINUATION
  BY DEF ControlOpcodes, WS_OPCODE_CLOSE, WS_OPCODE_PING, WS_OPCODE_PONG, WS_OPCODE_BINARY,
         WS_OPCODE_TEXT, WS_OPCODE_CONTINUATION
<1> HIDE DEF t
<1>4. c = u
  BY <1>2, <1>3
<1> HIDE DEF c
<1> QED BY <1>1, <1>4 DEF t

\* ... and a byte of a payload.
LEMMA PayloadByteIs ==
  \A s, b : PayloadByte(s, b) =
    LET t == WithByte(s)
        c == Append(s.held, b)
        u == IF s.frame.is_control   THEN WithControl(t, b)
             ELSE IF s.type = "BINARY" THEN WithCall(t, DataByte(b))
             ELSE IF IsChar(c)         THEN WithCharacter(t, c)
             ELSE IF IsCharStart(c)    THEN WithHeld(t, c)
             ELSE Stop(s, Failed(1007))
    IN  IF u.done \/ u.left > 0 THEN u ELSE EndFrame(u)
BY DEF PayloadByte, WithByte, WithControl, WithCall, WithCharacter, WithHeld

\* What follows a state in which a frame is open.
LEMMA SettledIs ==
  \A h, f, l, t, held, ctl, o : f # NoFrame =>
    LET u == State(h, f, l, t, held, ctl, o)
    IN  /\ Settled(u) = IF u.done \/ u.left > 0 THEN u ELSE EndFrame(u)
        /\ Settled(u) = IF l > 0 THEN u ELSE EndFrame(u)
<1> SUFFICES ASSUME NEW h, NEW f, NEW l, NEW t, NEW held, NEW ctl, NEW o, f # NoFrame
             PROVE  LET u == State(h, f, l, t, held, ctl, o)
                    IN  /\ Settled(u) = IF u.done \/ u.left > 0 THEN u ELSE EndFrame(u)
                        /\ Settled(u) = IF l > 0 THEN u ELSE EndFrame(u)
  OBVIOUS
<1> DEFINE u == State(h, f, l, t, held, ctl, o)
<1>1. u.frame = f /\ u.left = l /\ u.done = FALSE
  BY StateFields
<1> HIDE DEF u
<1>2. Settled(u) = (IF l > 0 THEN u ELSE EndFrame(u))
  BY <1>1 DEF Settled
<1> QED BY <1>1, <1>2 DEF u

\* A byte of the payload of a control frame.
LEMMA StepControl ==
  \A h, f, l, t, held, ctl, o, b : f # NoFrame /\ f.is_control =>
    Step(State(h, f, l, t, held, ctl, o), b)
      = Settled(State(h, f, l - 1, t, held, Append(ctl, b), o))
<1> SUFFICES ASSUME NEW h, NEW f, NEW l, NEW t, NEW held, NEW ctl, NEW o, NEW b,
                    f # NoFrame, f.is_control
             PROVE  Step(State(h, f, l, t, held, ctl, o), b)
                      = Settled(State(h, f, l - 1, t, held, Append(ctl, b), o))
  OBVIOUS
<1> DEFINE s == State(h, f, l, t, held, ctl, o)
           r == State(h, f, l - 1, t, held, ctl, o)
           u == State(h, f, l - 1, t, held, Append(ctl, b), o)
<1>1. s.frame = f /\ s.done = FALSE
  BY StateFields
<1>2. WithByte(s) = r
  BY WithByteIs
<1>3. WithControl(r, b) = u
  BY WithControlIs
<1>4. Settled(u) = IF u.done \/ u.left > 0 THEN u ELSE EndFrame(u)
  BY SettledIs
<1> HIDE DEF s, r, u
<1>5. Step(s, b) = PayloadByte(s, b)
  BY <1>1 DEF Step
<1> QED BY <1>1, <1>2, <1>3, <1>4, <1>5, PayloadByteIs DEF s, u

\* A byte of a binary message.
LEMMA StepBinary ==
  \A h, f, l, held, ctl, o, b : f # NoFrame /\ ~f.is_control =>
    Step(State(h, f, l, "BINARY", held, ctl, o), b)
      = Settled(State(h, f, l - 1, "BINARY", held, ctl, Append(o, DataByte(b))))
<1> SUFFICES ASSUME NEW h, NEW f, NEW l, NEW held, NEW ctl, NEW o, NEW b,
                    f # NoFrame, ~f.is_control
             PROVE  Step(State(h, f, l, "BINARY", held, ctl, o), b)
                      = Settled(State(h, f, l - 1, "BINARY", held, ctl, Append(o, DataByte(b))))
  OBVIOUS
<1> DEFINE s == State(h, f, l, "BINARY", held, ctl, o)
           r == State(h, f, l - 1, "BINARY", held, ctl, o)
           u == State(h, f, l - 1, "BINARY", held, ctl, Append(o, DataByte(b)))
<1>1. s.frame = f /\ s.done = FALSE /\ s.type = "BINARY"
  BY StateFields
<1>2. WithByte(s) = r
  BY WithByteIs
<1>3. WithCall(r, DataByte(b)) = u
  BY WithCallIs
<1>4. Settled(u) = IF u.done \/ u.left > 0 THEN u ELSE EndFrame(u)
  BY SettledIs
<1> HIDE DEF s, r, u
<1>5. Step(s, b) = PayloadByte(s, b)
  BY <1>1 DEF Step
<1> QED BY <1>1, <1>2, <1>3, <1>4, <1>5, PayloadByteIs DEF s, u

\* A byte of a text.
LEMMA TextByte ==
  ASSUME NEW h, NEW f, NEW l, NEW held, NEW ctl, NEW o, NEW b, NEW c,
         f # NoFrame, ~f.is_control, Extends(c, held, b)
  PROVE  LET s == State(h, f, l, "TEXT", held, ctl, o)
             r == State(h, f, l - 1, "TEXT", held, ctl, o)
             w == IF IsChar(c) THEN WithCharacter(r, c)
                  ELSE IF IsCharStart(c) THEN WithHeld(r, c)
                  ELSE Stop(s, Failed(1007))
         IN  Step(s, b) = IF w.done \/ w.left > 0 THEN w ELSE EndFrame(w)
<1> DEFINE s == State(h, f, l, "TEXT", held, ctl, o)
           r == State(h, f, l - 1, "TEXT", held, ctl, o)
<1>1. s.frame = f /\ s.done = FALSE /\ s.type = "TEXT" /\ s.held = held
  BY StateFields
<1>2. WithByte(s) = r
  BY WithByteIs
<1> HIDE DEF s, r
<1>3. Step(s, b) = PayloadByte(s, b)
  BY <1>1 DEF Step
<1> DEFINE x == Append(held, b)
           W(y) == IF IsChar(y) THEN WithCharacter(WithByte(s), y)
                   ELSE IF IsCharStart(y) THEN WithHeld(WithByte(s), y)
                   ELSE Stop(s, Failed(1007))
           V(w) == IF w.done \/ w.left > 0 THEN w ELSE EndFrame(w)
<1>4. c = x
  BY DEF Extends
<1>5. PayloadByte(s, b) = V(W(x))
  BY <1>1, PayloadByteIs
<1> HIDE DEF x
<1>6. PayloadByte(s, b) = V(W(c))
  BY <1>4, <1>5
<1> QED BY <1>2, <1>3, <1>6 DEF s, r

\* It completes a character ...
LEMMA StepChar ==
  \A h, f, l, held, ctl, o, b, c :
    f # NoFrame /\ ~f.is_control /\ Extends(c, held, b) /\ IsChar(c) =>
      Step(State(h, f, l, "TEXT", held, ctl, o), b)
        = Settled(State(h, f, l - 1, "TEXT", << >>, ctl, o \o DataBytes(c)))
<1> SUFFICES ASSUME NEW h, NEW f, NEW l, NEW held, NEW ctl, NEW o, NEW b, NEW c,
                    f # NoFrame, ~f.is_control, Extends(c, held, b), IsChar(c)
             PROVE  Step(State(h, f, l, "TEXT", held, ctl, o), b)
                      = Settled(State(h, f, l - 1, "TEXT", << >>, ctl, o \o DataBytes(c)))
  OBVIOUS
<1> DEFINE r == State(h, f, l - 1, "TEXT", held, ctl, o)
           u == State(h, f, l - 1, "TEXT", << >>, ctl, o \o DataBytes(c))
<1>1. WithCharacter(r, c) = u
  BY WithCharacterIs
<1>2. Settled(u) = IF u.done \/ u.left > 0 THEN u ELSE EndFrame(u)
  BY SettledIs
<1> HIDE DEF u
<1> QED BY <1>1, <1>2, TextByte DEF u

\* ... belongs to one ...
LEMMA StepStart ==
  \A h, f, l, held, ctl, o, b, c :
    f # NoFrame /\ ~f.is_control /\ Extends(c, held, b) /\ ~IsChar(c) /\ IsCharStart(c) =>
      Step(State(h, f, l, "TEXT", held, ctl, o), b) = Settled(State(h, f, l - 1, "TEXT", c, ctl, o))
<1> SUFFICES ASSUME NEW h, NEW f, NEW l, NEW held, NEW ctl, NEW o, NEW b, NEW c,
                    f # NoFrame, ~f.is_control, Extends(c, held, b), ~IsChar(c), IsCharStart(c)
             PROVE  Step(State(h, f, l, "TEXT", held, ctl, o), b)
                      = Settled(State(h, f, l - 1, "TEXT", c, ctl, o))
  OBVIOUS
<1> DEFINE r == State(h, f, l - 1, "TEXT", held, ctl, o)
           u == State(h, f, l - 1, "TEXT", c, ctl, o)
<1>1. WithHeld(r, c) = u
  BY WithHeldIs
<1>2. Settled(u) = IF u.done \/ u.left > 0 THEN u ELSE EndFrame(u)
  BY SettledIs
<1> HIDE DEF u
<1> QED BY <1>1, <1>2, TextByte DEF u

\* ... or cannot.
LEMMA StepBad ==
  \A h, f, l, held, ctl, o, b, c :
    f # NoFrame /\ ~f.is_control /\ Extends(c, held, b) /\ ~IsChar(c) /\ ~IsCharStart(c) =>
      Stops(Step(State(h, f, l, "TEXT", held, ctl, o), b), o, Failed(1007))
<1> SUFFICES ASSUME NEW h, NEW f, NEW l, NEW held, NEW ctl, NEW o, NEW b, NEW c,
                    f # NoFrame, ~f.is_control, Extends(c, held, b), ~IsChar(c), ~IsCharStart(c)
             PROVE  Stops(Step(State(h, f, l, "TEXT", held, ctl, o), b), o, Failed(1007))
  OBVIOUS
<1> DEFINE s == State(h, f, l, "TEXT", held, ctl, o)
           e == Stop(s, Failed(1007))
<1>1. s.out = o /\ DOMAIN s = Fields
  BY StateFields
<1> HIDE DEF s
<1>2. Stops(e, o, Failed(1007))
  BY <1>1, Stopped
<1>3. e.done
  BY <1>2 DEF Stops
<1> HIDE DEF e
<1>4. Step(s, b) = e
  BY <1>3, TextByte DEF s, e
<1> QED BY <1>2, <1>4 DEF s

\* A byte of a header: it is not complete, or refused ...
LEMMA StepHeader ==
  \A h, l, t, held, ctl, o, b, c, d, r, s :
    /\ Extends(c, h, b) /\ d = frame_decode(c)
    /\ s = State(h, NoFrame, l, t, held, ctl, o) /\ r = Step(s, b)
    => /\ d.err = 0 /\ d.delta < 0 => r = State(c, NoFrame, l, t, held, ctl, o)
       /\ d.err # 0 \/ (~(d.delta < 0) /\ frame_validate_S2C(d) # 0) => Stops(r, o, Failed(1002))
       /\ d.err = 0 /\ ~(d.delta < 0) /\ frame_validate_S2C(d) = 0 => r = BeginFrame(s, FrameOf(d))
<1> TAKE h, l, t, held, ctl, o, b, c, d, r, s
<1> HAVE /\ Extends(c, h, b) /\ d = frame_decode(c)
         /\ s = State(h, NoFrame, l, t, held, ctl, o) /\ r = Step(s, b)
<1> DEFINE v == State(c, NoFrame, l, t, held, ctl, o)
           e == Stop(s, Failed(1002))
<1>1. s.hdr = h /\ s.frame = NoFrame /\ s.done = FALSE /\ s.out = o /\ DOMAIN s = Fields
  BY StateFields
<1>2. WithHeader(s, c) = v
  BY WithHeaderIs
<1>3. Stops(e, o, Failed(1002))
  BY <1>1, Stopped
<1>4. Extends(c, s.hdr, b)
  BY <1>1, Zenon
<1> HIDE DEF v, e
<1>5. r = HeaderByte(s, b)
  BY <1>1 DEF Step
<1>6. r = IF d.err # 0    THEN e
          ELSE IF d.delta < 0 THEN v
          ELSE IF frame_validate_S2C(d) # 0 THEN e
          ELSE BeginFrame(s, FrameOf(d))
  <2>1. HeaderByte(s, b) = IF d.err # 0    THEN e
          ELSE IF d.delta < 0 THEN WithHeader(s, c)
          ELSE IF frame_validate_S2C(d) # 0 THEN e
          ELSE BeginFrame(s, FrameOf(d))
    BY <1>4, HeaderByteIs DEF e
  <2> QED BY <1>2, <1>5, <2>1, Zenon
<1> DEFINE G == BeginFrame(s, FrameOf(d))
           n == frame_validate_S2C(d)
<1>7. r = IF d.err # 0 THEN e ELSE IF d.delta < 0 THEN v ELSE IF n # 0 THEN e ELSE G
  BY <1>6
<1> HIDE DEF G, n
<1> DEFINE X(w) == Stops(w, o, Failed(1002))
<1>8. X(e)
  BY <1>3
<1> HIDE DEF X
<1>9. /\ d.err = 0 /\ d.delta < 0 => r = v
      /\ d.err # 0 \/ (~(d.delta < 0) /\ n # 0) => X(r)
      /\ d.err = 0 /\ ~(d.delta < 0) /\ n = 0 => r = G
  BY <1>7, <1>8
<1> QED BY <1>9, Zenon DEF G, n, X, v

\* ... or begins a frame.
LEMMA Begins ==
  \A h, l, t, held, ctl, o, f :
    f # NoFrame /\ (f.is_control <=> f.opcode \in ControlOpcodes) =>
      LET r == BeginFrame(State(h, NoFrame, l, t, held, ctl, o), f)
      IN  /\ f.is_control \/ (f.opcode = WS_OPCODE_CONTINUATION /\ t # "none") =>
               r = Settled(State(h, f, f.payload_len, t, held, ctl, o))
          /\ \A y : t = "none" /\ (\/ y = "BINARY" /\ f.opcode = WS_OPCODE_BINARY
                                   \/ y = "TEXT" /\ f.opcode = WS_OPCODE_TEXT) =>
               r = Settled(State(h, f, f.payload_len, y, held, ctl, Append(o, Started(y))))
          /\ /\ ~f.is_control
             /\ ~(f.opcode = WS_OPCODE_CONTINUATION /\ t # "none")
             /\ ~(f.opcode \in {WS_OPCODE_BINARY, WS_OPCODE_TEXT} /\ t = "none")
             => Stops(r, o, Failed(1002))
<1> SUFFICES ASSUME NEW h, NEW l, NEW t, NEW held, NEW ctl, NEW o, NEW f,
                    f # NoFrame, (f.is_control <=> f.opcode \in ControlOpcodes)
             PROVE  LET r == BeginFrame(State(h, NoFrame, l, t, held, ctl, o), f)
      IN  /\ f.is_control \/ (f.opcode = WS_OPCODE_CONTINUATION /\ t # "none") =>
               r = Settled(State(h, f, f.payload_len, t, held, ctl, o))
          /\ \A y : t = "none" /\ (\/ y = "BINARY" /\ f.opcode = WS_OPCODE_BINARY
                                   \/ y = "TEXT" /\ f.opcode = WS_OPCODE_TEXT) =>
               r = Settled(State(h, f, f.payload_len, y, held, ctl, Append(o, Started(y))))
          /\ /\ ~f.is_control
             /\ ~(f.opcode = WS_OPCODE_CONTINUATION /\ t # "none")
             /\ ~(f.opcode \in {WS_OPCODE_BINARY, WS_OPCODE_TEXT} /\ t = "none")
             => Stops(r, o, Failed(1002))
  OBVIOUS
<1> DEFINE s == State(h, NoFrame, l, t, held, ctl, o)
           w == State(h, f, f.payload_len, t, held, ctl, o)
           m(y) == State(h, f, f.payload_len, y, held, ctl, Append(o, Started(y)))
           e == Stop(s, Failed(1002))
           u == IF f.is_control THEN w
                ELSE IF f.opcode = WS_OPCODE_CONTINUATION /\ t # "none" THEN w
                ELSE IF f.opcode = WS_OPCODE_BINARY /\ t = "none" THEN m("BINARY")
                ELSE IF f.opcode = WS_OPCODE_TEXT /\ t = "none" THEN m("TEXT")
                ELSE e
           Next0(x) == IF x.done \/ x.left > 0 THEN x ELSE EndFrame(x)
<1>1. s.type = t /\ s.out = o /\ DOMAIN s = Fields
  BY StateFields
<1>2. WithFrame(s, f) = w
  BY WithFrameIs
<1>3. \A y : WithMessage(w, y) = m(y)
  BY WithMessageIs
<1>4. Settled(w) = Next0(w)
  BY SettledIs
<1>5. \A y : Settled(m(y)) = Next0(m(y))
  BY SettledIs
<1>6. Stops(e, o, Failed(1002))
  BY <1>1, Stopped
<1> HIDE DEF s, w, m
<1>7. BeginFrame(s, f) = Next0(u)
  BY <1>1, <1>2, <1>3, BeginFrameIs
<1> HIDE DEF e
<1>8. CASE f.is_control \/ (f.opcode = WS_OPCODE_CONTINUATION /\ t # "none")
  <2>1. u = w
    BY <1>8
  <2>2. f.opcode \notin {WS_OPCODE_BINARY, WS_OPCODE_TEXT}
    BY <1>8 DEF ControlOpcodes, WS_OPCODE_CLOSE, WS_OPCODE_PING, WS_OPCODE_PONG, WS_OPCODE_BINARY,
         WS_OPCODE_TEXT, WS_OPCODE_CONTINUATION
  <2> HIDE DEF u, Next0
  <2> QED BY <1>4, <1>7, <1>8, <2>1, <2>2 DEF s, w
<1>9. CASE ~(f.is_control \/ (f.opcode = WS_OPCODE_CONTINUATION /\ t # "none"))
  <2>1. WS_OPCODE_BINARY # WS_OPCODE_TEXT
    BY DEF WS_OPCODE_BINARY, WS_OPCODE_TEXT
  <2>2. ASSUME NEW y, t = "none", \/ y = "BINARY" /\ f.opcode = WS_OPCODE_BINARY
                                  \/ y = "TEXT" /\ f.opcode = WS_OPCODE_TEXT
        PROVE  u = m(y)
    BY <1>9, <2>1, <2>2
  <2>3. ASSUME ~(f.opcode \in {WS_OPCODE_BINARY, WS_OPCODE_TEXT} /\ t = "none") PROVE u = e
    BY <1>9, <2>3
  <2>4. e.done
    BY <1>6 DEF Stops
  <2>5. Next0(e) = e
    BY <2>4
  <2> HIDE DEF u, Next0
  <2> QED BY <1>5, <1>6, <1>7, <1>9, <2>2, <2>3, <2>5 DEF s, m
<1> QED BY <1>8, <1>9

-------------------------------------------------------------------------------
(* Parts of a sequence *)

\* The k elements of s behind the first a.
Part(s, a, k) == SubSeq(s, a + 1, a + k)

\* A part is a sequence.
LEMMA PartIs ==
  ASSUME NEW S, NEW s \in Seq(S), NEW a \in Nat, NEW k \in Nat, a + k <= Len(s)
  PROVE  Part(s, a, k) \in Seq(S) /\ Len(Part(s, a, k)) = k /\ Part(s, a, 0) = << >>
BY DEF Part

\* One element more ...
LEMMA NextOfPart ==
  ASSUME NEW S, NEW s \in Seq(S), NEW a \in Nat, NEW k \in Nat, a + k + 1 <= Len(s)
  PROVE  Part(s, a, k + 1) = Append(Part(s, a, k), s[a + k + 1])
BY DEF Part

\* ... behind another sequence.
LEMMA AppendBehind ==
  ASSUME NEW S, NEW c \in Seq(S), NEW p \in Seq(S), NEW b \in S
  PROVE  c \o Append(p, b) = Append(c \o p, b)
OBVIOUS

\* c and a part behind it.
Behind(c, s, a, k) == c \o Part(s, a, k)

\* Its i-th element.
Element(c, s, a, i) == IF i <= Len(c) THEN c[i] ELSE s[a + (i - Len(c))]

\* p is made of these elements.
ConsistsOf(p, c, s, a, k) == Len(p) = Len(c) + k /\ \A i \in 1..Len(c) + k : p[i] = Element(c, s, a, i)

\* What it is made of.
LEMMA BehindIs ==
  ASSUME NEW s \in Seq(Byte), NEW c \in Seq(Byte), NEW a \in Nat, NEW k \in Nat, a + k <= Len(s)
  PROVE  /\ Behind(c, s, a, k) \in Seq(Byte)
         /\ Len(Behind(c, s, a, k)) = Len(c) + k
         /\ ConsistsOf(Behind(c, s, a, k), c, s, a, k)
         /\ Behind(c, s, a, 0) = c
<1> DEFINE p == Part(s, a, k)
<1>1. Len(s) \in Nat /\ Len(c) \in Nat
  BY LenProperties
<1>2. p \in Seq(Byte) /\ Len(p) = k
  BY PartIs
<1>3. \A i \in 1..k : p[i] = s[a + i]
  BY <1>1 DEF Part
<1>4. c \o << >> = c
  OBVIOUS
<1>5. Part(s, a, 0) = << >>
  BY PartIs
<1> HIDE DEF p
<1>6. c \o p \in Seq(Byte) /\ Len(c \o p) = Len(c) + k
  BY <1>2, Joined
<1>7. \A i \in 1..Len(c) + k : (c \o p)[i] = IF i <= Len(c) THEN c[i] ELSE p[i - Len(c)]
  BY <1>1, <1>2
<1>8. \A i \in 1..Len(c) + k : ~(i <= Len(c)) => i - Len(c) \in 1..k
  BY <1>1
<1>9. \A i \in 1..Len(c) + k : (c \o p)[i] = Element(c, s, a, i)
  BY <1>3, <1>7, <1>8 DEF Element
<1> QED BY <1>4, <1>5, <1>6, <1>9 DEF Behind, ConsistsOf, p

\* One element more.
LEMMA NextBehind ==
  ASSUME NEW s \in Seq(Byte), NEW c \in Seq(Byte), NEW a \in Nat, NEW k \in Nat, a + k + 1 <= Len(s)
  PROVE  Behind(c, s, a, k + 1) = Append(Behind(c, s, a, k), s[a + k + 1])
<1> DEFINE p == Part(s, a, k)
           b == s[a + k + 1]
<1>1. Len(s) \in Nat
  BY LenProperties
<1>2. b \in Byte
  <2>1. a + k + 1 \in 1..Len(s)
    BY <1>1
  <2> QED BY <2>1, ElementOfSeq
<1>3. p \in Seq(Byte)
  BY <1>1, PartIs
<1>4. Part(s, a, k + 1) = Append(p, b)
  BY NextOfPart
<1> HIDE DEF p, b
<1>5. c \o Append(p, b) = Append(c \o p, b)
  BY <1>2, <1>3, AppendBehind
<1> QED BY <1>4, <1>5 DEF p, b, Behind

\* A beginning of the beginning of a character ...
LEMMA StartBehind ==
  ASSUME NEW s \in Seq(Byte), NEW c \in Seq(Byte), NEW a \in Nat, NEW k \in Nat, a + k <= Len(s),
         IsCharStart(Behind(c, s, a, k)), NEW j \in Nat, j <= k
  PROVE  IsCharStart(Behind(c, s, a, j))
<1> DEFINE p == Behind(c, s, a, k)
           q == Behind(c, s, a, j)
<1>1. Len(s) \in Nat /\ Len(c) \in Nat /\ a + j <= Len(s)
  BY LenProperties
<1>2. Len(p) = Len(c) + k /\ \A i \in 1..Len(c) + k : p[i] = Element(c, s, a, i)
  BY BehindIs DEF ConsistsOf
<1>3. Len(q) = Len(c) + j /\ \A i \in 1..Len(c) + j : q[i] = Element(c, s, a, i)
  <2>1. ConsistsOf(q, c, s, a, j)
    BY <1>1, BehindIs
  <2> QED BY <2>1 DEF ConsistsOf
<1>4. PICK r \in Rows : Len(p) < Len(r) /\ \A i \in 1..Len(p) : p[i] \in r[i]
  BY DEF IsCharStart
<1>5. Len(r) \in Nat
  BY RowsByLength
<1> HIDE DEF p, q
<1>6. \A i \in 1..Len(q) : i \in 1..Len(p) /\ q[i] = p[i]
  BY <1>1, <1>2, <1>3
<1>7. Len(q) < Len(r)
  BY <1>1, <1>2, <1>3, <1>4, <1>5
<1>8. IsCharStart(q)
  BY <1>4, <1>6, <1>7 DEF IsCharStart
<1> QED BY <1>8 DEF q

\* ... or of a character.
LEMMA CharBehind ==
  ASSUME NEW s \in Seq(Byte), NEW c \in Seq(Byte), NEW a \in Nat, NEW k \in Nat, a + k <= Len(s),
         IsChar(Behind(c, s, a, k)), NEW j \in Nat, j < k
  PROVE  IsCharStart(Behind(c, s, a, j))
<1> DEFINE p == Behind(c, s, a, k)
           q == Behind(c, s, a, j)
<1>1. Len(s) \in Nat /\ Len(c) \in Nat /\ a + j <= Len(s)
  BY LenProperties
<1>2. Len(p) = Len(c) + k /\ \A i \in 1..Len(c) + k : p[i] = Element(c, s, a, i)
  BY BehindIs DEF ConsistsOf
<1>3. Len(q) = Len(c) + j /\ \A i \in 1..Len(c) + j : q[i] = Element(c, s, a, i)
  <2>1. ConsistsOf(q, c, s, a, j)
    BY <1>1, BehindIs
  <2> QED BY <2>1 DEF ConsistsOf
<1>4. PICK r \in Rows : Len(p) = Len(r) /\ \A i \in 1..Len(p) : p[i] \in r[i]
  BY DEF IsChar
<1> HIDE DEF p, q
<1>5. \A i \in 1..Len(q) : i \in 1..Len(p) /\ q[i] = p[i]
  BY <1>1, <1>2, <1>3
<1>6. Len(q) < Len(r)
  BY <1>1, <1>2, <1>3, <1>4
<1>7. IsCharStart(q)
  BY <1>4, <1>5, <1>6 DEF IsCharStart
<1> QED BY <1>7 DEF q

\* A part of a part.
LEMMA PartOfIt ==
  ASSUME NEW S, NEW s \in Seq(S), NEW a \in Nat, NEW k \in Nat, a + k <= Len(s),
         NEW j \in Nat, NEW l \in Nat, j <= l, l <= k
  PROVE  SubSeq(Part(s, a, k), j + 1, l) = Part(s, a + j, l - j)
BY DEF Part

\* A part in two parts.
LEMMA PartsJoined ==
  ASSUME NEW S, NEW s \in Seq(S), NEW a \in Nat, NEW k \in Nat, a + k <= Len(s), NEW j \in Nat, j <= k
  PROVE  Part(s, a, j) \o Part(s, a + j, k - j) = Part(s, a, k)
BY DEF Part

\* The concatenation of two sequences, element by element.
LEMMA ConcatIs ==
  ASSUME NEW S, NEW p \in Seq(S), NEW q \in Seq(S), NEW r \in Seq(S), Len(r) = Len(p) + Len(q),
         \A i \in 1..Len(p) : r[i] = p[i], \A i \in 1..Len(q) : r[Len(p) + i] = q[i]
  PROVE  p \o q = r
<1>1. Len(p) \in Nat /\ Len(q) \in Nat
  BY LenProperties
<1>2. p \o q \in Seq(S) /\ Len(p \o q) = Len(p) + Len(q)
  OBVIOUS
<1>3. \A i \in 1..Len(p) + Len(q) : (p \o q)[i] = IF i <= Len(p) THEN p[i] ELSE q[i - Len(p)]
  OBVIOUS
<1>4. ASSUME NEW i \in 1..Len(p) + Len(q) PROVE (p \o q)[i] = r[i]
  <2>1. CASE i <= Len(p)
    BY <1>1, <1>3, <2>1
  <2>2. CASE ~(i <= Len(p))
    <3>1. i - Len(p) \in 1..Len(q) /\ Len(p) + (i - Len(p)) = i
      BY <1>1, <2>2
    <3> QED BY <1>3, <2>2, <3>1
  <2> QED BY <2>1, <2>2
<1> QED BY <1>1, <1>2, <1>4, SeqEqual

\* The bytes of a message as calls.
LEMMA DataBytesIs ==
  ASSUME NEW c \in Seq(Byte)
  PROVE  /\ DataBytes(c) \in Seq(Item) /\ Len(DataBytes(c)) = Len(c)
         /\ \A i \in 1..Len(c) : DataBytes(c)[i] = DataByte(c[i])
<1>1. Len(c) \in Nat
  BY LenProperties
<1>2. DataBytes(c) \in Seq(Item)
  BY DataItems
<1> QED BY <1>1, <1>2 DEF DataBytes

\* Two parts of them.
LEMMA DataBytesJoined ==
  ASSUME NEW c \in Seq(Byte), NEW d \in Seq(Byte)
  PROVE  DataBytes(c \o d) = DataBytes(c) \o DataBytes(d)
<1> DEFINE e == c \o d
           p == DataBytes(c)
           q == DataBytes(d)
           r == DataBytes(e)
<1>1. /\ e \in Seq(Byte) /\ Len(e) = Len(c) + Len(d) /\ Len(c) \in Nat /\ Len(d) \in Nat
      /\ (\A i \in 1..Len(c) : e[i] = c[i]) /\ (\A i \in 1..Len(d) : e[Len(c) + i] = d[i])
  BY LenProperties
<1>2. p \in Seq(Item) /\ Len(p) = Len(c) /\ \A i \in 1..Len(c) : p[i] = DataByte(c[i])
  BY DataBytesIs
<1>3. q \in Seq(Item) /\ Len(q) = Len(d) /\ \A i \in 1..Len(d) : q[i] = DataByte(d[i])
  BY DataBytesIs
<1>4. r \in Seq(Item) /\ Len(r) = Len(e) /\ \A i \in 1..Len(e) : r[i] = DataByte(e[i])
  BY <1>1, DataBytesIs
<1> HIDE DEF e, p, q, r
<1>5. \A i \in 1..Len(p) : r[i] = p[i]
  BY <1>1, <1>2, <1>4
<1>6. \A i \in 1..Len(q) : r[Len(p) + i] = q[i]
  BY <1>1, <1>2, <1>3, <1>4
<1>7. Len(r) = Len(p) + Len(q)
  BY <1>1, <1>2, <1>3, <1>4
<1>8. p \o q = r
  BY <1>2, <1>3, <1>4, <1>5, <1>6, <1>7, ConcatIs
<1> QED BY <1>8 DEF e, p, q, r

\* One byte more.
LEMMA DataBytesAppend ==
  ASSUME NEW c \in Seq(Byte), NEW b \in Byte
  PROVE  DataBytes(Append(c, b)) = Append(DataBytes(c), DataByte(b))
<1>1. <<b>> \in Seq(Byte) /\ c \o <<b>> = Append(c, b)
  OBVIOUS
<1>2. DataBytes(<<b>>) = <<DataByte(b)>>
  BY DEF DataBytes
<1>3. DataBytes(c) \in Seq(Item) /\ DataByte(b) \in Item
  BY DataBytesIs, Items
<1>4. \A p \in Seq(Item), x \in Item : p \o <<x>> = Append(p, x)
  OBVIOUS
<1> QED BY <1>1, <1>2, <1>3, <1>4, DataBytesJoined

\* None.
LEMMA NoDataBytes == DataBytes(<< >>) = << >>
BY DEF DataBytes

\* Calls in any grouping.
LEMMA CallsJoined ==
  \A o, x, y \in Seq(Item) : (o \o x) \o y = o \o (x \o y)
BY ConcatAssociative

-------------------------------------------------------------------------------
(* Runs of bytes *)

\* After a bytes of s ByteReceiver is in u, or in what follows.
Reaches(s, a, u) == After(s)[a] = Settled(u)

\* The payload of a control frame.
LEMMA ControlRun ==
  ASSUME NEW s \in Seq(Byte), NEW a \in Nat, NEW k \in Nat, a + k <= Len(s),
         NEW h, NEW f, NEW l \in Nat, NEW t, NEW held, NEW ctl \in Seq(Byte), NEW o,
         f # NoFrame, f.is_control, k <= l,
         Reaches(s, a, State(h, f, l, t, held, ctl, o))
  PROVE  Reaches(s, a + k, State(h, f, l - k, t, held, Behind(ctl, s, a, k), o))
<1> DEFINE q(j) == State(h, f, l - j, t, held, Behind(ctl, s, a, j), o)
           Q == [j \in 0..k |-> Settled(q(j))]
<1>1. Q[0] = After(s)[a]
  <2>1. Behind(ctl, s, a, 0) = ctl
    BY BehindIs
  <2>2. l - 0 = l
    OBVIOUS
  <2>3. q(0) = State(h, f, l, t, held, ctl, o)
    BY <2>1, <2>2
  <2> HIDE DEF q
  <2> QED BY <2>3 DEF Reaches
<1>2. ASSUME NEW j \in Nat, j < k PROVE Q[j + 1] = Step(Q[j], s[a + j + 1])
  <2>1. l - j > 0 /\ l - (j + 1) = (l - j) - 1 /\ j \in 0..k /\ j + 1 \in 0..k /\ a + j + 1 <= Len(s)
    BY <1>2, LenProperties
  <2>2. Settled(q(j)) = q(j)
    BY <2>1, SettledIs
  <2>3. Behind(ctl, s, a, j + 1) = Append(Behind(ctl, s, a, j), s[a + j + 1])
    BY <1>2, <2>1, NextBehind
  <2>4. Step(q(j), s[a + j + 1])
          = Settled(State(h, f, (l - j) - 1, t, held, Append(Behind(ctl, s, a, j), s[a + j + 1]), o))
    BY StepControl
  <2>5. q(j + 1) = State(h, f, (l - j) - 1, t, held, Append(Behind(ctl, s, a, j), s[a + j + 1]), o)
    BY <2>1, <2>3
  <2> HIDE DEF q
  <2> QED BY <2>5, <2>1, <2>2, <2>4
<1>3. Q[k] = Settled(q(k))
  OBVIOUS
<1> HIDE DEF Q, q
<1>4. IsRun(s, a, k, Q)
  BY <1>1, <1>2 DEF IsRun
<1>5. After(s)[a + k] = Q[k]
  BY <1>4, AfterRun
<1> QED BY <1>3, <1>5 DEF q, Reaches

\* The payload of a binary frame.
LEMMA BinaryRun ==
  ASSUME NEW s \in Seq(Byte), NEW a \in Nat, NEW k \in Nat, a + k <= Len(s),
         NEW h, NEW f, NEW l \in Nat, NEW held, NEW ctl, NEW o \in Seq(Item),
         f # NoFrame, ~f.is_control, k <= l,
         Reaches(s, a, State(h, f, l, "BINARY", held, ctl, o))
  PROVE  Reaches(s, a + k, State(h, f, l - k, "BINARY", held, ctl, o \o DataBytes(Part(s, a, k))))
<1> DEFINE q(j) == State(h, f, l - j, "BINARY", held, ctl, o \o DataBytes(Part(s, a, j)))
           Q == [j \in 0..k |-> Settled(q(j))]
<1>1. Q[0] = After(s)[a]
  <2>1. DataBytes(Part(s, a, 0)) = << >>
    BY PartIs, NoDataBytes
  <2>2. o \o << >> = o /\ l - 0 = l
    OBVIOUS
  <2>3. q(0) = State(h, f, l, "BINARY", held, ctl, o)
    BY <2>1, <2>2
  <2> HIDE DEF q
  <2> QED BY <2>3 DEF Reaches
<1>2. ASSUME NEW j \in Nat, j < k PROVE Q[j + 1] = Step(Q[j], s[a + j + 1])
  <2>1. l - j > 0 /\ l - (j + 1) = (l - j) - 1 /\ j \in 0..k /\ j + 1 \in 0..k
        /\ a + j + 1 <= Len(s) /\ a + j <= Len(s) /\ a + j + 1 \in 1..Len(s)
    BY <1>2, LenProperties
  <2>2. Settled(q(j)) = q(j)
    BY <2>1, SettledIs
  <2>3. o \o DataBytes(Part(s, a, j + 1)) = Append(o \o DataBytes(Part(s, a, j)), DataByte(s[a + j + 1]))
    <3> DEFINE p == Part(s, a, j)
               b == s[a + j + 1]
    <3>1. Part(s, a, j + 1) = Append(p, b)
      BY <1>2, <2>1, NextOfPart
    <3>2. p \in Seq(Byte)
      BY <1>2, <2>1, PartIs
    <3>3. b \in Byte
      BY <2>1, ElementOfSeq
    <3> HIDE DEF p, b
    <3>4. DataBytes(Append(p, b)) = Append(DataBytes(p), DataByte(b))
      BY <3>2, <3>3, DataBytesAppend
    <3>5. DataBytes(p) \in Seq(Item) /\ DataByte(b) \in Item
      BY <3>2, <3>3, DataBytesIs, Items
    <3>6. o \o Append(DataBytes(p), DataByte(b)) = Append(o \o DataBytes(p), DataByte(b))
      BY <3>5, AppendBehind
    <3> QED BY <3>1, <3>4, <3>6 DEF p, b
  <2>4. Step(q(j), s[a + j + 1])
          = Settled(State(h, f, (l - j) - 1, "BINARY", held, ctl,
                          Append(o \o DataBytes(Part(s, a, j)), DataByte(s[a + j + 1]))))
    BY StepBinary
  <2>5. q(j + 1) = State(h, f, (l - j) - 1, "BINARY", held, ctl,
                         Append(o \o DataBytes(Part(s, a, j)), DataByte(s[a + j + 1])))
    BY <2>1, <2>3
  <2> HIDE DEF q
  <2> QED BY <2>5, <2>1, <2>2, <2>4
<1>3. Q[k] = Settled(q(k))
  OBVIOUS
<1> HIDE DEF Q, q
<1>4. IsRun(s, a, k, Q)
  BY <1>1, <1>2 DEF IsRun
<1>5. After(s)[a + k] = Q[k]
  BY <1>4, AfterRun
<1> QED BY <1>3, <1>5 DEF q, Reaches

\* A character has the length its first byte tells.
LEMMA CharLength ==
  ASSUME NEW c \in Seq(Byte), IsChar(c)
  PROVE  0 < Len(c) /\ utf8_len(c[1]) = Len(c)
<1>1. PICK r \in Rows : Len(c) = Len(r) /\ \A i \in 1..Len(c) : c[i] \in r[i]
  BY DEF IsChar
<1>2. 0 < Len(c) /\ Len(c) \in Nat
  <2>1. Len(r) \in 1..4
    BY RowsByLength
  <2> QED BY <1>1, <2>1
<1>3. c[1] \in r[1]
  BY <1>1, <1>2
<1> QED BY <1>1, <1>2, <1>3, LengthOfRow

\* The beginning of a character is shorter.
LEMMA StartLength ==
  ASSUME NEW c \in Seq(Byte), IsCharStart(c)
  PROVE  ~IsChar(c) /\ (c # << >> => 0 < Len(c) /\ Len(c) < utf8_len(c[1]))
<1>1. PICK r \in Rows : Len(c) < Len(r) /\ \A i \in 1..Len(c) : c[i] \in r[i]
  BY DEF IsCharStart
<1>2. Len(c) \in Nat /\ (c # << >> => 0 < Len(c))
  BY LenProperties, EmptySeq
<1>3. ASSUME 0 < Len(c) PROVE Len(c) < utf8_len(c[1])
  <2>1. c[1] \in r[1]
    BY <1>1, <1>2, <1>3
  <2> QED BY <1>1, <2>1, LengthOfRow
<1>4. ~IsChar(c)
  <2>1. utf8_len(c[1]) \in 0..4
    BY CharacterLength
  <2> QED BY <1>2, <1>3, <2>1, CharLength
<1> QED BY <1>2, <1>3, <1>4

\* The beginning of a character is kept.
LEMMA StartRun ==
  ASSUME NEW s \in Seq(Byte), NEW a \in Nat, NEW k \in Nat, a + k <= Len(s),
         NEW h, NEW f, NEW l \in Nat, NEW held \in Seq(Byte), NEW ctl, NEW o,
         f # NoFrame, ~f.is_control, k <= l,
         Reaches(s, a, State(h, f, l, "TEXT", held, ctl, o)),
         IsCharStart(Behind(held, s, a, k))
  PROVE  Reaches(s, a + k, State(h, f, l - k, "TEXT", Behind(held, s, a, k), ctl, o))
<1> DEFINE c(j) == Behind(held, s, a, j)
           q(j) == State(h, f, l - j, "TEXT", c(j), ctl, o)
           Q == [j \in 0..k |-> Settled(q(j))]
<1>1. Q[0] = After(s)[a]
  <2>1. Behind(held, s, a, 0) = held
    BY BehindIs
  <2>2. l - 0 = l
    OBVIOUS
  <2>3. q(0) = State(h, f, l, "TEXT", held, ctl, o)
    BY <2>1, <2>2
  <2> HIDE DEF q
  <2> QED BY <2>3 DEF Reaches
<1>2. ASSUME NEW j \in Nat, j <= k PROVE IsCharStart(c(j)) /\ ~IsChar(c(j))
  <2>1. IsCharStart(c(j))
    BY <1>2, StartBehind
  <2>2. a + j <= Len(s)
    BY <1>2, LenProperties
  <2>3. c(j) \in Seq(Byte)
    BY <2>2, BehindIs
  <2> QED BY <2>1, <2>3, StartLength
<1>3. ASSUME NEW j \in Nat, j < k PROVE Q[j + 1] = Step(Q[j], s[a + j + 1])
  <2>1. /\ l - j > 0 /\ l - (j + 1) = (l - j) - 1 /\ j \in 0..k /\ j + 1 \in 0..k
        /\ j + 1 <= k /\ j + 1 \in Nat /\ a + j + 1 <= Len(s)
    BY <1>3, LenProperties
  <2>2. Settled(q(j)) = q(j)
    BY <2>1, SettledIs
  <2>3. Extends(c(j + 1), c(j), s[a + j + 1])
    BY <1>3, <2>1, NextBehind DEF Extends
  <2>4. IsCharStart(c(j + 1)) /\ ~IsChar(c(j + 1))
    BY <1>2, <2>1
  <2> HIDE DEF c
  <2>5. Step(q(j), s[a + j + 1]) = Settled(State(h, f, (l - j) - 1, "TEXT", c(j + 1), ctl, o))
    <3> DEFINE m == l - j
               b == s[a + j + 1]
               d == c(j + 1)
               e == c(j)
    <3>1. Extends(d, e, b) /\ ~IsChar(d) /\ IsCharStart(d)
      BY <2>3, <2>4
    <3> HIDE DEF m, b, d, e
    <3>2. f # NoFrame /\ ~f.is_control
      OBVIOUS
    <3>3. Step(State(h, f, m, "TEXT", e, ctl, o), b) = Settled(State(h, f, m - 1, "TEXT", d, ctl, o))
      BY <3>1, <3>2, StepStart
    <3> QED BY <3>3 DEF m, b, d, e
  <2>6. q(j + 1) = State(h, f, (l - j) - 1, "TEXT", c(j + 1), ctl, o)
    BY <2>1
  <2> HIDE DEF q
  <2> QED BY <2>1, <2>2, <2>5, <2>6
<1>4. Q[k] = Settled(q(k))
  OBVIOUS
<1> HIDE DEF Q, q
<1>5. IsRun(s, a, k, Q)
  BY <1>1, <1>3 DEF IsRun
<1>6. After(s)[a + k] = Q[k]
  BY <1>5, AfterRun
<1> QED BY <1>4, <1>6 DEF q, Reaches

\* A character is complete.
LEMMA CharRun ==
  ASSUME NEW s \in Seq(Byte), NEW a \in Nat, NEW k \in Nat, a + k <= Len(s), 0 < k,
         NEW h, NEW f, NEW l \in Nat, NEW held \in Seq(Byte), NEW ctl, NEW o,
         f # NoFrame, ~f.is_control, k <= l,
         Reaches(s, a, State(h, f, l, "TEXT", held, ctl, o)),
         IsChar(Behind(held, s, a, k))
  PROVE  Reaches(s, a + k, State(h, f, l - k, "TEXT", << >>, ctl, o \o DataBytes(Behind(held, s, a, k))))
<1> DEFINE j == k - 1
           c(i) == Behind(held, s, a, i)
           q == State(h, f, l - j, "TEXT", c(j), ctl, o)
           r == State(h, f, l - k, "TEXT", << >>, ctl, o \o DataBytes(c(k)))
           A == After(s)
<1>1. /\ j \in Nat /\ j < k /\ j + 1 = k /\ j <= l /\ a + j <= Len(s) /\ a + j + 1 <= Len(s)
      /\ l - j > 0 /\ (l - j) - 1 = l - k /\ a + j \in Nat /\ a + j < Len(s) /\ (a + j) + 1 = a + k
      /\ Len(s) \in Nat /\ Len(held) \in Nat
  BY LenProperties
<1>2. IsCharStart(c(j))
  BY <1>1, CharBehind
<1>3. Extends(c(k), c(j), s[a + j + 1])
  <2>1. Extends(c(j + 1), c(j), s[a + j + 1])
    BY <1>1, NextBehind DEF Extends
  <2> QED BY <1>1, <2>1
<1>4. A[a + j] = Settled(q)
  <2>1. Reaches(s, a + j, q)
    BY <1>1, <1>2, StartRun
  <2> QED BY <2>1 DEF Reaches
<1>5. Settled(q) = q
  BY <1>1, SettledIs
<1>6. A[a + k] = Step(A[a + j], s[a + j + 1])
  BY <1>1, AfterSteps
<1> HIDE DEF c
<1>7. IsChar(c(k))
  BY DEF c
<1>8. Step(q, s[a + j + 1]) = Settled(State(h, f, (l - j) - 1, "TEXT", << >>, ctl, o \o DataBytes(c(k))))
  <2> DEFINE m == l - j
             b == s[a + j + 1]
             d == c(k)
             e == c(j)
  <2>1. Extends(d, e, b) /\ IsChar(d)
    BY <1>3, <1>7
  <2> HIDE DEF m, b, d, e
  <2>2. Step(State(h, f, m, "TEXT", e, ctl, o), b)
          = Settled(State(h, f, m - 1, "TEXT", << >>, ctl, o \o DataBytes(d)))
    BY <2>1, StepChar
  <2> QED BY <2>2 DEF m, b, d, e, q
<1> HIDE DEF A, j, q
<1>9. A[a + k] = Settled(r)
  BY <1>1, <1>4, <1>5, <1>6, <1>8
<1> QED BY <1>9 DEF A, r, c, Reaches

\* A character in a part.
LEMMA CharOfPart ==
  \A s \in Seq(Byte), a \in Nat, k \in Nat, j \in Nat, m \in Nat :
    a + k <= Len(s) /\ j <= m /\ m <= k /\ IsChar(SubSeq(Part(s, a, k), j + 1, m)) =>
      IsChar(Part(s, a + j, m - j))
<1> TAKE s \in Seq(Byte), a \in Nat, k \in Nat, j \in Nat, m \in Nat
<1> HAVE a + k <= Len(s) /\ j <= m /\ m <= k /\ IsChar(SubSeq(Part(s, a, k), j + 1, m))
<1>1. SubSeq(Part(s, a, k), j + 1, m) = Part(s, a + j, m - j)
  BY DEF Part
<1> QED BY <1>1, Zenon

\* Nothing follows the end, however far it is.
LEMMA DoneLater ==
  \A s \in Seq(Byte), a \in Nat, b \in Nat :
    a <= b /\ b <= Len(s) /\ After(s)[a].done => After(s)[b] = After(s)[a]
<1> TAKE s \in Seq(Byte), a \in Nat, b \in Nat
<1> HAVE a <= b /\ b <= Len(s) /\ After(s)[a].done
<1> DEFINE n == b - a
<1>1. n \in Nat /\ a + n = b
  OBVIOUS
<1> HIDE DEF n
<1> QED BY <1>1, DoneStays

\* A text of whole characters is passed on.
LEMMA TextRun ==
  ASSUME NEW s \in Seq(Byte), NEW a \in Nat, NEW k \in Nat, a + k <= Len(s),
         NEW h, NEW f, NEW l \in Nat, NEW ctl, NEW o \in Seq(Item),
         f # NoFrame, ~f.is_control, k <= l,
         Reaches(s, a, State(h, f, l, "TEXT", << >>, ctl, o)),
         IsText(Part(s, a, k))
  PROVE  Reaches(s, a + k, State(h, f, l - k, "TEXT", << >>, ctl, o \o DataBytes(Part(s, a, k))))
<1> DEFINE p == Part(s, a, k)
           D(j) == DataBytes(Part(s, a, j))
           G(j) == Reaches(s, a + j, State(h, f, l - j, "TEXT", << >>, ctl, o \o D(j)))
<1>1. Len(s) \in Nat
  BY LenProperties
<1>2. p \in Seq(Byte) /\ Len(p) = k
  BY PartIs
<1>3. PICK g : IsUpTo(p, g, k) /\ g[k]
  <2>1. PICK g : IsUpTo(p, g, k) /\ (IsText(p) <=> g[k])
    <3> HIDE DEF p
    <3> QED BY <1>2, TextIsUpTo
  <2> QED BY <2>1
<1> DEFINE T == {j \in 0..k : g[j] /\ ~G(j)}
<1>4. ASSUME T # {} PROVE FALSE
  <2>1. PICK m \in T : \A y \in T : m <= y
    <3>1. T \subseteq Nat
      OBVIOUS
    <3> HIDE DEF T
    <3> QED BY <1>4, <3>1, LeastNumber
  <2>2. m \in 0..k /\ g[m] /\ ~G(m)
    OBVIOUS
  <2> HIDE DEF T
  <2>3. CASE m = 0
    <3>1. D(0) = << >>
      BY PartIs, NoDataBytes
    <3>2. o \o << >> = o /\ l - 0 = l /\ a + 0 = a
      OBVIOUS
    <3> HIDE DEF D
    <3>3. G(0)
      BY <3>1, <3>2
    <3> QED BY <2>2, <2>3, <3>3
  <2>4. CASE m # 0
    <3>1. PICK j \in 0..m - 1 : g[j] /\ IsChar(SubSeq(p, j + 1, m))
      <4>1. g[m] <=> TextUpTo(p, g, m)
        BY <1>3, <2>2 DEF IsUpTo
      <4> QED BY <2>2, <2>4, <4>1 DEF TextUpTo
    <3>2. /\ j \in Nat /\ m \in Nat /\ j <= m /\ m <= k /\ ~(m <= j) /\ j \in 0..k
          /\ m - j \in Nat /\ 0 < m - j /\ a + j \in Nat /\ l - j \in Nat /\ m - j <= l - j
          /\ (a + j) + (m - j) = a + m /\ (l - j) - (m - j) = l - m /\ a + j <= Len(s)
          /\ a + m <= Len(s)
      BY <1>1, <2>2, <2>4
    <3>3. G(j)
      <4>1. j \notin T
        BY <2>1, <3>2
      <4> QED BY <3>1, <3>2, <4>1 DEF T
    <3> DEFINE c == Part(s, a + j, m - j)
    <3>4. IsChar(c)
      BY <3>1, <3>2, CharOfPart
    <3>5. c \in Seq(Byte)
      BY <1>1, <3>2, PartIs
    <3>6. Behind(<< >>, s, a + j, m - j) = c
      <4> HIDE DEF c
      <4> QED BY <3>5 DEF Behind, c
    <3>7. (o \o D(j)) \o DataBytes(c) = o \o D(m)
      <4>1. Part(s, a, j) \in Seq(Byte)
        BY <3>2, PartIs
      <4>2. Part(s, a, j) \o c = Part(s, a, m)
        BY <3>2, PartsJoined
      <4>3. D(m) = D(j) \o DataBytes(c)
        <5> DEFINE q == Part(s, a, j)
        <5> HIDE DEF q, c
        <5>1. DataBytes(q \o c) = DataBytes(q) \o DataBytes(c)
          BY <3>5, <4>1, DataBytesJoined DEF q
        <5> QED BY <4>2, <5>1 DEF q
      <4>4. D(j) \in Seq(Item) /\ DataBytes(c) \in Seq(Item)
        BY <3>5, <4>1, DataBytesIs
      <4> DEFINE x == D(j)
                 y == DataBytes(c)
      <4> HIDE DEF D, x, y, c
      <4>5. x \in Seq(Item) /\ y \in Seq(Item)
        BY <4>4 DEF x, y
      <4>6. (o \o x) \o y = o \o (x \o y)
        BY <4>5, CallsJoined, Zenon
      <4> QED BY <4>3, <4>6 DEF x, y
    <3>8. IsChar(Behind(<< >>, s, a + j, m - j))
      BY <3>4, <3>6
    <3> DEFINE aj == a + j
               mj == m - j
               lj == l - j
               oj == o \o D(j)
    <3>9. /\ aj \in Nat /\ mj \in Nat /\ lj \in Nat /\ aj + mj <= Len(s) /\ 0 < mj /\ mj <= lj
      BY <3>2
    <3>10. Reaches(s, aj, State(h, f, lj, "TEXT", << >>, ctl, oj))
      BY <3>3
    <3>11. IsChar(Behind(<< >>, s, aj, mj))
      BY <3>8
    <3>12. aj + mj = a + m /\ lj - mj = l - m
      BY <3>2
    <3>13. oj \o DataBytes(Behind(<< >>, s, aj, mj)) = o \o D(m)
      BY <3>6, <3>7
    <3>14. << >> \in Seq(Byte)
      OBVIOUS
    <3> HIDE DEF aj, mj, lj, oj, D
    <3>15. Reaches(s, aj + mj, State(h, f, lj - mj, "TEXT", << >>, ctl,
                                     oj \o DataBytes(Behind(<< >>, s, aj, mj))))
      BY <3>9, <3>10, <3>11, <3>14, CharRun
    <3>16. G(m)
      BY <3>12, <3>13, <3>15
    <3> QED BY <2>2, <3>16
  <2> QED BY <2>3, <2>4
<1>5. k \in 0..k
  OBVIOUS
<1>6. G(k)
  <2> HIDE DEF G
  <2> QED BY <1>3, <1>4, <1>5
<1> QED BY <1>6

\* What cannot become a character is found out, whatever follows.
LEMMA BadRun ==
  ASSUME NEW s \in Seq(Byte), NEW a \in Nat, NEW k \in Nat, a + k <= Len(s),
         NEW h, NEW f, NEW l \in Nat, NEW held \in Seq(Byte), NEW ctl, NEW o,
         f # NoFrame, ~f.is_control, k <= l,
         Reaches(s, a, State(h, f, l, "TEXT", held, ctl, o)),
         IsCharStart(held), ~IsCharStart(Behind(held, s, a, k)),
         \A j \in 1..k : ~IsChar(Behind(held, s, a, j))
  PROVE  Stops(After(s)[a + k], o, Failed(1007))
<1> DEFINE c(j) == Behind(held, s, a, j)
           T == {j \in 0..k : ~IsCharStart(c(j))}
           A == After(s)
<1>1. Len(s) \in Nat /\ k \in T
  BY LenProperties
<1>2. PICK m \in T : \A y \in T : m <= y
  <2>1. T \subseteq Nat
    OBVIOUS
  <2> HIDE DEF T
  <2> QED BY <1>1, <2>1, LeastNumber
<1>3. m \in 0..k /\ ~IsCharStart(c(m))
  OBVIOUS
<1> HIDE DEF T
<1>4. m # 0
  <2>1. c(0) = held
    BY BehindIs
  <2> QED BY <1>3, <2>1
<1> DEFINE j == m - 1
           q == State(h, f, l - j, "TEXT", c(j), ctl, o)
<1>5. /\ j \in Nat /\ j \in 0..k /\ j < k /\ j + 1 = m /\ ~(m <= j) /\ j <= l
      /\ a + j <= Len(s) /\ a + j + 1 <= Len(s) /\ l - j > 0
      /\ a + j \in Nat /\ a + j < Len(s) /\ (a + j) + 1 = a + m
      /\ m \in 1..k /\ a + m \in Nat /\ k - m \in Nat /\ (a + m) + (k - m) = a + k
      /\ (a + m) + (k - m) <= Len(s)
  BY <1>1, <1>3, <1>4
<1>6. IsCharStart(c(j))
  <2>1. j \notin T
    <3> HIDE DEF j
    <3> QED BY <1>2, <1>5
  <2> QED BY <1>5, <2>1 DEF T
<1>7. Extends(c(m), c(j), s[a + j + 1])
  <2>1. Extends(c(j + 1), c(j), s[a + j + 1])
    BY <1>5, NextBehind DEF Extends
  <2> QED BY <1>5, <2>1
<1>8. A[a + j] = Settled(q)
  <2>1. Reaches(s, a + j, q)
    BY <1>5, <1>6, StartRun
  <2> QED BY <2>1 DEF Reaches
<1>9. Settled(q) = q
  BY <1>5, SettledIs
<1>10. A[a + m] = Step(A[a + j], s[a + j + 1])
  BY <1>5, AfterSteps
<1>11. ~IsChar(c(m))
  BY <1>5
<1> HIDE DEF c
<1>12. Stops(Step(q, s[a + j + 1]), o, Failed(1007))
  <2> DEFINE n == l - j
             b == s[a + j + 1]
             d == c(m)
             e == c(j)
  <2>1. Extends(d, e, b) /\ ~IsChar(d) /\ ~IsCharStart(d)
    BY <1>3, <1>7, <1>11
  <2> HIDE DEF n, b, d, e
  <2>2. Stops(Step(State(h, f, n, "TEXT", e, ctl, o), b), o, Failed(1007))
    BY <2>1, StepBad
  <2> QED BY <2>2 DEF n, b, d, e, q
<1> HIDE DEF A, j, q
<1>13. Stops(A[a + m], o, Failed(1007))
  BY <1>8, <1>9, <1>10, <1>12
<1>14. A[a + m].done
  BY <1>13 DEF Stops
<1>15. a + m <= a + k /\ a + k \in Nat
  BY <1>5
<1>16. A[a + k] = A[a + m]
  BY <1>5, <1>14, <1>15, DoneLater DEF A
<1> QED BY <1>13, <1>16 DEF A

-------------------------------------------------------------------------------
(* The bytes of a header *)

\* The parts of a header: its length without the key, and with it; that its first
\* byte is refused, or its length.
HeaderBody(buf)      == WS_FRAME_HEADER_MIN + ext_len_bytes(buf[2] % 128)
HeaderWhole(buf)     == HeaderBody(buf) + (buf[2] \div 128) * WS_FRAME_HEADER_MASK
FirstBad(buf)  == (buf[1] \div 16) % 8 # 0 \/ buf[1] % 16 \notin DataOpcodes \cup ControlOpcodes
IsBad(len7, b, n) == \/ len7 = 126 /\ n < 126
                     \/ len7 = 127 /\ b >= 128
                     \/ len7 = 127 /\ n <= UINT16_MAX
LengthBad(buf) == IsBad(buf[2] % 128, buf[3], payload_length(buf, buf[2] % 128))

\* The same bytes are the same number.
LEMMA SameValue ==
  ASSUME NEW p, NEW h, \A i \in 3..10 : p[i] = h[i]
  PROVE  Value8(p) = Value8(h)
<1> DEFINE two(q, i) == q[i] * 256 + q[i + 1]
           all(a, b, c, d) == ((a * 65536 + b) * 65536 + c) * 65536 + d
<1>1. \A i \in {3, 5, 7, 9} : two(p, i) = two(h, i)
  <2> TAKE i \in {3, 5, 7, 9}
  <2>1. i \in 3..10 /\ i + 1 \in 3..10
    OBVIOUS
  <2>2. p[i] = h[i] /\ p[i + 1] = h[i + 1]
    BY <2>1
  <2> QED BY <2>2
<1>2. Value8(p) = all(two(p, 3), two(p, 5), two(p, 7), two(p, 9))
  BY DEF Value8
<1>3. Value8(h) = all(two(h, 3), two(h, 5), two(h, 7), two(h, 9))
  BY DEF Value8
<1> HIDE DEF two, all
<1> QED BY <1>1, <1>2, <1>3

\* buf is the beginning of a header that is n bytes short of what is asked for next.
Waits(buf, n) ==
  \/ Len(buf) < WS_FRAME_HEADER_MIN /\ n = WS_FRAME_HEADER_MIN - Len(buf)
  \/ /\ WS_FRAME_HEADER_MIN <= Len(buf) /\ ~FirstBad(buf)
     /\ Len(buf) < HeaderBody(buf) /\ n = HeaderBody(buf) - Len(buf)
  \/ /\ WS_FRAME_HEADER_MIN <= Len(buf) /\ ~FirstBad(buf)
     /\ HeaderBody(buf) <= Len(buf) /\ ~LengthBad(buf)
     /\ Len(buf) < HeaderWhole(buf) /\ n = HeaderWhole(buf) - Len(buf)

\* The lengths are numbers.
LEMMA HeaderLengths ==
  ASSUME NEW buf \in Seq(Byte), WS_FRAME_HEADER_MIN <= Len(buf)
  PROVE  /\ HeaderBody(buf) \in {2, 4, 10} /\ HeaderWhole(buf) \in 2..14
         /\ buf[2] % 128 = 126 => HeaderBody(buf) = 4
         /\ buf[2] % 128 = 127 => HeaderBody(buf) = 10
<1> DEFINE len7 == buf[2] % 128
           mask == buf[2] \div 128
<1>1. len7 \in 0..127 /\ mask \in 0..1
  <2>1. Len(buf) \in Nat
    BY LenProperties
  <2>2. buf[2] \in 0..255
    BY <2>1, ByteAt DEF WS_FRAME_HEADER_MIN
  <2> QED BY <2>2, Split
<1>2. HeaderBody(buf) = WS_FRAME_HEADER_MIN + ext_len_bytes(len7)
      /\ HeaderWhole(buf) = HeaderBody(buf) + mask * WS_FRAME_HEADER_MASK
  BY DEF HeaderBody, HeaderWhole
<1> HIDE DEF mask
<1>3. /\ HeaderBody(buf) \in {2, 4, 10}
      /\ len7 = 126 => HeaderBody(buf) = 4
      /\ len7 = 127 => HeaderBody(buf) = 10
  <2> HIDE DEF len7
  <2> QED BY <1>1, <1>2, ExtLenBytes DEF WS_FRAME_HEADER_MIN
<1>4. HeaderWhole(buf) \in 2..14
  <2> HIDE DEF len7
  <2> QED BY <1>1, <1>2, <1>3 DEF WS_FRAME_HEADER_MASK
<1> QED BY <1>3, <1>4

\* What frame_decode asks for.
LEMMA DecodeWaits ==
  ASSUME NEW buf \in Seq(Byte)
  PROVE  LET d == frame_decode(buf)
         IN  /\ d.err = 0 /\ d.delta < 0 => Waits(buf, -d.delta)
             /\ \A n \in Nat : Waits(buf, n) => d.err = 0 /\ d.delta = -n /\ 0 < n
<1> DEFINE d == frame_decode(buf)
           u == Len(buf)
<1>1. u \in Nat
  BY LenProperties
<1>2. CASE u < WS_FRAME_HEADER_MIN
  <2>1. d = NeedMore(u - WS_FRAME_HEADER_MIN)
    BY <1>2 DEF frame_decode
  <2> QED BY <1>1, <1>2, <2>1 DEF NeedMore, Waits, WS_FRAME_HEADER_MIN
<1>3. CASE ~(u < WS_FRAME_HEADER_MIN)
  <2> DEFINE n == payload_length(buf, buf[2] % 128)
             B == HeaderBody(buf)
             W == HeaderWhole(buf)
             F == FirstBad(buf)
             L == LengthBad(buf)
             r == [err |-> 0, delta |-> W, fin |-> buf[1] >= 128, opcode |-> buf[1] % 16,
                   is_control |-> buf[1] % 16 \in ControlOpcodes, mask |-> buf[2] \div 128,
                   payload_len |-> n]
  <2>1. B \in {2, 4, 10} /\ W \in 2..14
    BY <1>1, <1>3, HeaderLengths DEF WS_FRAME_HEADER_MIN
  <2>2. /\ F => d \in {DecodeError(-1), DecodeError(-2)}
        /\ ~F /\ u < B => d = NeedMore(u - B)
        /\ ~F /\ ~(u < B) /\ L => d \in {DecodeError(-3), DecodeError(-4), DecodeError(-5)}
        /\ ~F /\ ~(u < B) /\ ~L /\ u < W => d = NeedMore(u - W)
        /\ ~F /\ ~(u < B) /\ ~L /\ ~(u < W) => d = r
    <3> DEFINE R1 == (buf[1] \div 16) % 8 # 0
               R2 == buf[1] % 16 \notin DataOpcodes \cup ControlOpcodes
               L1 == buf[2] % 128 = 126 /\ n < 126
               L2 == buf[2] % 128 = 127 /\ buf[3] >= 128
               L3 == buf[2] % 128 = 127 /\ n <= UINT16_MAX
    <3>1. d = IF R1      THEN DecodeError(-1)
              ELSE IF R2 THEN DecodeError(-2)
              ELSE IF u < B THEN NeedMore(u - B)
              ELSE IF L1 THEN DecodeError(-3)
              ELSE IF L2 THEN DecodeError(-4)
              ELSE IF L3 THEN DecodeError(-5)
              ELSE IF u < W THEN NeedMore(u - W)
              ELSE r
      BY <1>3 DEF frame_decode, HeaderBody, HeaderWhole
    <3>2. (F <=> R1 \/ R2) /\ (L <=> L1 \/ L2 \/ L3)
      BY DEF FirstBad, LengthBad, IsBad
    <3> HIDE DEF R1, R2, L1, L2, L3, F, L, r, d, B, W, u
    <3> QED BY <3>1, <3>2, ZenonT(40)
  <2>4. \A m : Waits(buf, m) <=> \/ ~F /\ u < B /\ m = B - u
                                 \/ ~F /\ B <= u /\ ~L /\ u < W /\ m = W - u
    BY <1>1, <1>3 DEF Waits, WS_FRAME_HEADER_MIN
  <2> HIDE DEF d, u, B, W, F, L
  <2>5. CASE F
    BY <2>2, <2>4, <2>5 DEF DecodeError, d, u
  <2>6. CASE ~F /\ u < B
    BY <1>1, <2>1, <2>2, <2>4, <2>6 DEF NeedMore, d
  <2>7. CASE ~F /\ ~(u < B) /\ L
    BY <1>1, <2>1, <2>2, <2>4, <2>7 DEF DecodeError, d
  <2>8. CASE ~F /\ ~(u < B) /\ ~L /\ u < W
    BY <1>1, <2>1, <2>2, <2>4, <2>8 DEF NeedMore, d
  <2>9. CASE ~F /\ ~(u < B) /\ ~L /\ ~(u < W)
    <3>1. d.err = 0 /\ d.delta = W
      BY <2>2, <2>9
    <3> QED BY <1>1, <2>1, <2>4, <2>9, <3>1 DEF d
  <2> QED BY <2>5, <2>6, <2>7, <2>8, <2>9
<1> QED BY <1>2, <1>3

\* What kind of frame a header announces.
LEMMA DecodedKind ==
  ASSUME NEW buf \in Seq(Byte), frame_decode(buf).err = 0, ~(frame_decode(buf).delta < 0)
  PROVE  LET d == frame_decode(buf)
         IN  /\ d.opcode \in DataOpcodes \cup ControlOpcodes
             /\ (d.is_control <=> d.opcode \in ControlOpcodes)
<1> DEFINE d == frame_decode(buf)
           u == Len(buf)
<1>1. u \in Nat
  BY LenProperties
<1>2. CASE u < WS_FRAME_HEADER_MIN
  <2>1. d = NeedMore(u - WS_FRAME_HEADER_MIN)
    BY <1>2 DEF frame_decode
  <2> QED BY <1>1, <1>2, <2>1 DEF NeedMore, WS_FRAME_HEADER_MIN
<1>3. CASE ~(u < WS_FRAME_HEADER_MIN)
  <2> DEFINE n == payload_length(buf, buf[2] % 128)
             B == HeaderBody(buf)
             W == HeaderWhole(buf)
             c == buf[1] % 16
             r == [err |-> 0, delta |-> W, fin |-> buf[1] >= 128, opcode |-> c,
                   is_control |-> c \in ControlOpcodes, mask |-> buf[2] \div 128, payload_len |-> n]
             R1 == (buf[1] \div 16) % 8 # 0
             R2 == c \notin DataOpcodes \cup ControlOpcodes
             L1 == buf[2] % 128 = 126 /\ n < 126
             L2 == buf[2] % 128 = 127 /\ buf[3] >= 128
             L3 == buf[2] % 128 = 127 /\ n <= UINT16_MAX
  <2>1. B \in Nat /\ W \in Nat
    BY <1>1, <1>3, HeaderLengths DEF WS_FRAME_HEADER_MIN
  <2>2. d = IF R1      THEN DecodeError(-1)
            ELSE IF R2 THEN DecodeError(-2)
            ELSE IF u < B THEN NeedMore(u - B)
            ELSE IF L1 THEN DecodeError(-3)
            ELSE IF L2 THEN DecodeError(-4)
            ELSE IF L3 THEN DecodeError(-5)
            ELSE IF u < W THEN NeedMore(u - W)
            ELSE r
    BY <1>3 DEF frame_decode, HeaderBody, HeaderWhole
  <2> DEFINE Errors == {DecodeError(-1), DecodeError(-2), DecodeError(-3), DecodeError(-4), DecodeError(-5)}
  <2> HIDE DEF R1, L1, L2, L3, d, B, W, u, r
  <2>3. \/ d \in Errors
        \/ u < B /\ d = NeedMore(u - B)
        \/ u < W /\ d = NeedMore(u - W)
        \/ ~R2 /\ d = r
    <3> HIDE DEF R2
    <3> QED BY <2>2, ZenonT(40)
  <2>4. CASE d \in Errors
    BY <2>4 DEF DecodeError, d
  <2>5. CASE u < B /\ d = NeedMore(u - B)
    BY <1>1, <2>1, <2>5 DEF NeedMore, d
  <2>6. CASE u < W /\ d = NeedMore(u - W)
    BY <1>1, <2>1, <2>6 DEF NeedMore, d
  <2>7. CASE ~R2 /\ d = r
    <3>1. r.opcode = c /\ r.is_control = (c \in ControlOpcodes) /\ c \in DataOpcodes \cup ControlOpcodes
      BY <2>7 DEF r
    <3> HIDE DEF c
    <3> QED BY <2>7, <3>1 DEF d
  <2> QED BY <2>3, <2>4, <2>5, <2>6, <2>7
<1> QED BY <1>2, <1>3

\* While the bytes that were asked for are not all there, more are.
LEMMA StillWaits ==
  ASSUME NEW h \in Seq(Byte), NEW p \in Seq(Byte), NEW n \in Nat, Waits(h, n),
         Len(h) <= Len(p), Len(p) < Len(h) + n, \A i \in 1..Len(h) : p[i] = h[i]
  PROVE  Waits(p, n - (Len(p) - Len(h)))
<1>1. Len(h) \in Nat /\ Len(p) \in Nat
  BY LenProperties
<1>2. CASE Len(h) < WS_FRAME_HEADER_MIN
  <2>1. n = WS_FRAME_HEADER_MIN - Len(h)
    BY <1>1, <1>2 DEF Waits, WS_FRAME_HEADER_MIN
  <2> QED BY <1>1, <2>1 DEF Waits, WS_FRAME_HEADER_MIN
<1>3. CASE WS_FRAME_HEADER_MIN <= Len(h)
  <2>1. p[1] = h[1] /\ p[2] = h[2]
    BY <1>1, <1>3 DEF WS_FRAME_HEADER_MIN
  <2>2. HeaderBody(p) = HeaderBody(h) /\ HeaderWhole(p) = HeaderWhole(h) /\ (FirstBad(p) <=> FirstBad(h))
    BY <2>1 DEF HeaderBody, HeaderWhole, FirstBad
  <2>3. HeaderBody(h) \in {2, 4, 10} /\ HeaderWhole(h) \in 2..14
    BY <1>3, HeaderLengths
  <2>4. WS_FRAME_HEADER_MIN <= Len(p)
    BY <1>1, <1>3 DEF WS_FRAME_HEADER_MIN
  <2>5. ~FirstBad(h)
    BY <1>1, <1>3 DEF Waits, WS_FRAME_HEADER_MIN
  <2>6. CASE Len(h) < HeaderBody(h)
    <3>1. n = HeaderBody(h) - Len(h)
      BY <1>1, <1>3, <2>3, <2>6 DEF Waits, WS_FRAME_HEADER_MIN
    <3> QED BY <1>1, <2>2, <2>3, <2>4, <2>5, <3>1 DEF Waits
  <2>7. CASE HeaderBody(h) <= Len(h)
    <3>1. n = HeaderWhole(h) - Len(h) /\ ~LengthBad(h)
      BY <1>1, <1>3, <2>3, <2>7 DEF Waits, WS_FRAME_HEADER_MIN
    <3>2. LengthBad(p) <=> LengthBad(h)
      <4> DEFINE len7 == h[2] % 128
      <4>1. LengthBad(p) <=> IsBad(len7, p[3], payload_length(p, len7))
        BY <2>1 DEF LengthBad
      <4>2. LengthBad(h) <=> IsBad(len7, h[3], payload_length(h, len7))
        BY DEF LengthBad
      <4>3. CASE len7 = 126
        <5>1. 3 \in 1..Len(h) /\ 4 \in 1..Len(h)
          BY <1>1, <1>3, <2>7, <4>3, HeaderLengths
        <5>2. p[3] = h[3] /\ p[4] = h[4]
          BY <5>1
        <5> HIDE DEF len7
        <5>3. payload_length(p, len7) = payload_length(h, len7)
          BY <4>3, <5>2, PayloadLength
        <5> QED BY <4>1, <4>2, <5>2, <5>3
      <4>4. CASE len7 = 127
        <5>1. \A i \in 3..10 : i \in 1..Len(h)
          BY <1>1, <1>3, <2>7, <4>4, HeaderLengths
        <5>2. \A i \in 3..10 : p[i] = h[i]
          BY <5>1
        <5>3. p[3] = h[3] /\ Value8(p) = Value8(h)
          BY <5>2, SameValue
        <5> HIDE DEF len7
        <5>4. payload_length(p, len7) = payload_length(h, len7)
          BY <4>4, <5>3, PayloadLength
        <5> QED BY <4>1, <4>2, <5>3, <5>4
      <4>5. CASE len7 # 126 /\ len7 # 127
        <5> HIDE DEF len7
        <5> QED BY <4>1, <4>2, <4>5 DEF IsBad
      <4> HIDE DEF len7
      <4> QED BY <4>3, <4>4, <4>5
    <3> DEFINE W == HeaderWhole(h)
               B == HeaderBody(h)
               i == Len(p)
               j == Len(h)
    <3>3. B \in Nat /\ W \in Nat /\ i \in Nat /\ j \in Nat /\ j <= i /\ i < j + n /\ B <= j /\ n = W - j
      BY <1>1, <2>3, <2>7, <3>1
    <3> HIDE DEF W, B, i, j
    <3>4. B <= i /\ i < W /\ n - (i - j) = W - i
      BY <3>3
    <3>5. HeaderBody(p) <= Len(p) /\ Len(p) < HeaderWhole(p) /\ n - (Len(p) - Len(h)) = HeaderWhole(p) - Len(p)
      BY <2>2, <3>4 DEF W, B, i, j
    <3> QED BY <2>2, <2>4, <2>5, <3>1, <3>2, <3>5, Zenon DEF Waits
  <2> QED BY <1>1, <2>3, <2>6, <2>7
<1> QED BY <1>1, <1>2, <1>3 DEF WS_FRAME_HEADER_MIN

\* A byte of a header that is not complete is kept,
LEMMA HeaderGoesOn ==
  ASSUME NEW h, NEW l, NEW t, NEW held, NEW ctl, NEW o, NEW b, NEW c, Extends(c, h, b),
         frame_decode(c).err = 0, frame_decode(c).delta < 0
  PROVE  Step(State(h, NoFrame, l, t, held, ctl, o), b) = State(c, NoFrame, l, t, held, ctl, o)
<1>1. PICK d, v, r : d = frame_decode(c) /\ v = State(h, NoFrame, l, t, held, ctl, o) /\ r = Step(v, b)
  OBVIOUS
<1>2. d.err = 0 /\ d.delta < 0
  BY <1>1
<1>3. r = State(c, NoFrame, l, t, held, ctl, o)
  BY <1>1, <1>2, StepHeader
<1> QED BY <1>1, <1>3

\* one that makes a bad header ends it all,
LEMMA HeaderRefused ==
  ASSUME NEW h, NEW l, NEW t, NEW held, NEW ctl, NEW o, NEW b, NEW c, Extends(c, h, b),
         \/ frame_decode(c).err # 0
         \/ ~(frame_decode(c).delta < 0) /\ frame_validate_S2C(frame_decode(c)) # 0
  PROVE  Stops(Step(State(h, NoFrame, l, t, held, ctl, o), b), o, Failed(1002))
<1>1. PICK d, v, r : d = frame_decode(c) /\ v = State(h, NoFrame, l, t, held, ctl, o) /\ r = Step(v, b)
  OBVIOUS
<1>2. d.err # 0 \/ (~(d.delta < 0) /\ frame_validate_S2C(d) # 0)
  BY <1>1
<1>3. Stops(r, o, Failed(1002))
  BY <1>1, <1>2, StepHeader
<1> QED BY <1>1, <1>3

\* and one that completes a good header begins the frame.
LEMMA HeaderBegins ==
  ASSUME NEW h, NEW l, NEW t, NEW held, NEW ctl, NEW o, NEW b, NEW c, Extends(c, h, b),
         frame_decode(c).err = 0, ~(frame_decode(c).delta < 0),
         frame_validate_S2C(frame_decode(c)) = 0
  PROVE  Step(State(h, NoFrame, l, t, held, ctl, o), b)
           = BeginFrame(State(h, NoFrame, l, t, held, ctl, o), FrameOf(frame_decode(c)))
<1>1. PICK d, v, r : d = frame_decode(c) /\ v = State(h, NoFrame, l, t, held, ctl, o) /\ r = Step(v, b)
  OBVIOUS
<1>2. d.err = 0 /\ ~(d.delta < 0) /\ frame_validate_S2C(d) = 0
  BY <1>1
<1>3. r = BeginFrame(v, FrameOf(d))
  BY <1>1, <1>2, StepHeader
<1> QED BY <1>1, <1>3

\* The beginning of a header is kept.
LEMMA HeaderRun ==
  ASSUME NEW s \in Seq(Byte), NEW a \in Nat, NEW k \in Nat, a + k <= Len(s),
         NEW h \in Seq(Byte), NEW l, NEW t, NEW held, NEW ctl, NEW o,
         NEW n \in Nat, Waits(h, n), k < n,
         After(s)[a] = State(h, NoFrame, l, t, held, ctl, o)
  PROVE  /\ After(s)[a + k] = State(Behind(h, s, a, k), NoFrame, l, t, held, ctl, o)
         /\ Waits(Behind(h, s, a, k), n - k)
<1> DEFINE c(j) == Behind(h, s, a, j)
           q(j) == State(c(j), NoFrame, l, t, held, ctl, o)
           Q == [j \in 0..k |-> q(j)]
<1>1. Len(s) \in Nat /\ Len(h) \in Nat
  BY LenProperties
<1>2. ASSUME NEW j \in Nat, j <= k PROVE Waits(c(j), n - j)
  <2>1. a + j <= Len(s) /\ Len(h) <= Len(h) + j /\ Len(h) + j < Len(h) + n
        /\ n - ((Len(h) + j) - Len(h)) = n - j
    BY <1>1, <1>2
  <2>2. c(j) \in Seq(Byte) /\ Len(c(j)) = Len(h) + j /\ ConsistsOf(c(j), h, s, a, j)
    BY <2>1, BehindIs
  <2>3. \A i \in 1..Len(h) : i \in 1..Len(h) + j /\ i <= Len(h)
    BY <1>1
  <2>4. \A i \in 1..Len(h) : c(j)[i] = h[i]
    BY <2>2, <2>3 DEF ConsistsOf, Element
  <2> HIDE DEF c
  <2>5. Waits(c(j), n - (Len(c(j)) - Len(h)))
    BY <2>1, <2>2, <2>4, StillWaits
  <2> QED BY <2>1, <2>2, <2>5
<1>3. Q[0] = After(s)[a]
  <2>1. c(0) = h
    BY BehindIs
  <2> HIDE DEF c
  <2> QED BY <2>1
<1>4. ASSUME NEW j \in Nat, j < k PROVE Q[j + 1] = Step(Q[j], s[a + j + 1])
  <2>1. /\ j \in 0..k /\ j + 1 \in 0..k /\ j + 1 <= k /\ j + 1 \in Nat /\ a + j + 1 <= Len(s)
        /\ a + (j + 1) <= Len(s) /\ n - (j + 1) \in Nat
    BY <1>1, <1>4
  <2>2. c(j + 1) = Append(c(j), s[a + j + 1])
    BY <1>4, <2>1, NextBehind
  <2>3. Waits(c(j + 1), n - (j + 1)) /\ c(j + 1) \in Seq(Byte)
    BY <1>2, <2>1, BehindIs
  <2> DEFINE b == s[a + j + 1]
             e == c(j)
             d == c(j + 1)
             m == n - (j + 1)
  <2>4. d = Append(e, b) /\ Waits(d, m) /\ d \in Seq(Byte) /\ m \in Nat
    BY <2>1, <2>2, <2>3
  <2> HIDE DEF b, e, d, m
  <2>5. frame_decode(d).err = 0 /\ frame_decode(d).delta < 0
    <3>1. frame_decode(d).err = 0 /\ frame_decode(d).delta = -m /\ 0 < m
      <4>1. \A i \in Nat : Waits(d, i) => frame_decode(d).err = 0 /\ frame_decode(d).delta = -i /\ 0 < i
        BY <2>4, DecodeWaits
      <4> QED BY <2>4, <4>1, Zenon
    <3> QED BY <2>4, <3>1
  <2>6. Step(State(e, NoFrame, l, t, held, ctl, o), b) = State(d, NoFrame, l, t, held, ctl, o)
    <3>1. Extends(d, e, b)
      BY <2>4, Zenon DEF Extends
    <3> QED BY <2>5, <3>1, HeaderGoesOn
  <2>7. Q[j] = State(e, NoFrame, l, t, held, ctl, o) /\ Q[j + 1] = State(d, NoFrame, l, t, held, ctl, o)
    <3>1. Q[j] = q(j) /\ Q[j + 1] = q(j + 1)
      <4> HIDE DEF q
      <4> QED BY <2>1
    <3> HIDE DEF Q
    <3> QED BY <3>1, Zenon DEF e, d
  <2> QED BY <2>6, <2>7 DEF b
<1>5. Q[k] = q(k)
  OBVIOUS
<1> HIDE DEF Q, q
<1>6. IsRun(s, a, k, Q)
  BY <1>3, <1>4 DEF IsRun
<1>7. After(s)[a + k] = Q[k]
  BY <1>6, AfterRun
<1> QED BY <1>2, <1>5, <1>7 DEF q

\* What the last byte that was asked for leads to.
LEMMA HeaderEnd ==
  \A s \in Seq(Byte), a \in Nat, h \in Seq(Byte), n \in Nat : \A l, t, held, ctl, o, c, d, r :
    /\ 0 < n /\ a + n <= Len(s) /\ Waits(h, n)
    /\ After(s)[a] = State(h, NoFrame, l, t, held, ctl, o)
    /\ c = Behind(h, s, a, n) /\ d = frame_decode(c) /\ r = After(s)[a + n]
    => /\ d.err = 0 /\ d.delta < 0 => r = State(c, NoFrame, l, t, held, ctl, o)
       /\ (d.err # 0 \/ ~(d.delta < 0)) /\ (d.err # 0 \/ frame_validate_S2C(d) # 0) =>
            Stops(r, o, Failed(1002))
       /\ (d.err # 0 \/ ~(d.delta < 0)) /\ d.err = 0 /\ frame_validate_S2C(d) = 0 =>
            \E g : r = BeginFrame(State(g, NoFrame, l, t, held, ctl, o), FrameOf(d))
<1> TAKE s \in Seq(Byte), a \in Nat, h \in Seq(Byte), n \in Nat
<1> TAKE l, t, held, ctl, o, c, d, r
<1> HAVE /\ 0 < n /\ a + n <= Len(s) /\ Waits(h, n)
         /\ After(s)[a] = State(h, NoFrame, l, t, held, ctl, o)
         /\ c = Behind(h, s, a, n) /\ d = frame_decode(c) /\ r = After(s)[a + n]
<1> DEFINE k == n - 1
           e == Behind(h, s, a, k)
           b == s[a + k + 1]
           q == State(e, NoFrame, l, t, held, ctl, o)
           A == After(s)
<1>1. /\ k \in Nat /\ k < n /\ k + 1 = n /\ a + k <= Len(s) /\ a + k + 1 <= Len(s)
      /\ a + k \in Nat /\ a + k < Len(s) /\ (a + k) + 1 = a + n
  BY LenProperties
<1>2. A[a + k] = q
  <2> HIDE DEF k
  <2> QED BY <1>1, HeaderRun
<1>3. Extends(c, e, b)
  <2>1. Behind(h, s, a, k + 1) = Append(e, b)
    BY <1>1, NextBehind
  <2> QED BY <1>1, <2>1 DEF Extends
<1>4. A[a + n] = Step(A[a + k], b)
  BY <1>1, AfterSteps
<1> HIDE DEF e, b, A, k
<1>5. PICK z : z = q
  OBVIOUS
<1>6. r = Step(z, b) /\ z = State(e, NoFrame, l, t, held, ctl, o)
  BY <1>2, <1>4, <1>5, Zenon DEF A
<1> HIDE DEF q
<1>7. /\ d.err = 0 /\ d.delta < 0 => r = State(c, NoFrame, l, t, held, ctl, o)
      /\ d.err # 0 \/ (~(d.delta < 0) /\ frame_validate_S2C(d) # 0) => Stops(r, o, Failed(1002))
      /\ d.err = 0 /\ ~(d.delta < 0) /\ frame_validate_S2C(d) = 0 => r = BeginFrame(z, FrameOf(d))
  <2>1. d = frame_decode(c)
    OBVIOUS
  <2>2. ASSUME d.err = 0, d.delta < 0 PROVE r = State(c, NoFrame, l, t, held, ctl, o)
    <3>1. frame_decode(c).err = 0 /\ frame_decode(c).delta < 0
      BY <2>1, <2>2
    <3>2. Step(State(e, NoFrame, l, t, held, ctl, o), b) = State(c, NoFrame, l, t, held, ctl, o)
      BY <1>3, <3>1, HeaderGoesOn
    <3> QED BY <1>6, <3>2, Zenon
  <2>3. ASSUME d.err # 0 \/ (~(d.delta < 0) /\ frame_validate_S2C(d) # 0)
        PROVE  Stops(r, o, Failed(1002))
    <3>1. Stops(Step(State(e, NoFrame, l, t, held, ctl, o), b), o, Failed(1002))
      <4>1. \/ frame_decode(c).err # 0
            \/ ~(frame_decode(c).delta < 0) /\ frame_validate_S2C(frame_decode(c)) # 0
        BY <2>1, <2>3
      <4> QED BY <1>3, <4>1, HeaderRefused
    <3> QED BY <1>6, <3>1, Zenon
  <2>4. ASSUME d.err = 0, ~(d.delta < 0), frame_validate_S2C(d) = 0
        PROVE  r = BeginFrame(z, FrameOf(d))
    <3>1. Step(State(e, NoFrame, l, t, held, ctl, o), b)
            = BeginFrame(State(e, NoFrame, l, t, held, ctl, o), FrameOf(frame_decode(c)))
      <4>1. /\ frame_decode(c).err = 0 /\ ~(frame_decode(c).delta < 0)
            /\ frame_validate_S2C(frame_decode(c)) = 0
        BY <2>1, <2>4
      <4> QED BY <1>3, <4>1, HeaderBegins
    <3> QED BY <1>6, <2>1, <3>1, Zenon
  <2> QED BY <2>2, <2>3, <2>4
<1> DEFINE G == \E g : r = BeginFrame(State(g, NoFrame, l, t, held, ctl, o), FrameOf(d))
           W == r = State(c, NoFrame, l, t, held, ctl, o)
           X == Stops(r, o, Failed(1002))
           v == frame_validate_S2C(d)
<1>8. r = BeginFrame(z, FrameOf(d)) => G
  BY <1>6, Zenon
<1> DEFINE B == r = BeginFrame(z, FrameOf(d))
<1>9. /\ d.err = 0 /\ d.delta < 0 => W
      /\ d.err # 0 \/ (~(d.delta < 0) /\ v # 0) => X
      /\ d.err = 0 /\ ~(d.delta < 0) /\ v = 0 => B
  BY <1>7
<1>10. B => G
  BY <1>8
<1> HIDE DEF G, W, X, v, B
<1>11. /\ d.err = 0 /\ d.delta < 0 => W
       /\ (d.err # 0 \/ ~(d.delta < 0)) /\ (d.err # 0 \/ v # 0) => X
       /\ (d.err # 0 \/ ~(d.delta < 0)) /\ d.err = 0 /\ v = 0 => G
  BY <1>9, <1>10, SMT
<1> QED BY <1>11, Zenon DEF G, W, X, v

-------------------------------------------------------------------------------
(* The receiver and ByteReceiver *)

\* A step in which the receiver leaves ByteReceiver, all of them with a text: it is
\* refused only with the bytes that were taken at once, after a start or a character
\* that was not told of; a start of a character is refused, or kept though it is none;
\* bytes behind the one that completes a character are lost; a message ends within one.
TextStrays ==
  /\ stream_type = "TEXT"
  /\ \/ text_rejected /\ utf8.needed = 0 /\ (data_taken > 1 \/ "FIRST" \in fragment_info)
     \/ text_rejected /\ utf8.needed # 0 /\ IsCharStart(utf8'.buf)
     \/ /\ data_delivered
        /\ \/ 0 < utf8.needed /\ utf8.needed < data_taken
           \/ utf8'.needed # 0 /\ ("LAST" \in data_info \/ ~IsCharStart(utf8'.buf))

\* The flags of the message: none without one, and FIRST until its first piece is told.
FlagsMatch ==
  /\ (stream_type = "none" <=> fragment_info = {})
  /\ fragment_info \subseteq {"FIRST", "CONT", "TEXT", "BINARY"}
  /\ "FIRST" \in fragment_info => /\ frame # NoFrame /\ ~frame.is_control
                                  /\ fragment_info = {"FIRST", stream_type}
  /\ frame # NoFrame => /\ frame.opcode \in DataOpcodes \cup ControlOpcodes
                        /\ (frame.is_control <=> frame.opcode \in ControlOpcodes)
                        /\ (~frame.is_control => stream_type # "none")

\* The header buffer holds the beginning of a header and knows what it waits for.
HeaderWaits ==
  /\ Waits(header.buf, header_needed)
  /\ frame # NoFrame => header.buf = << >>

\* The bytes of the frame that are missing.
Missing == frame.payload_len - (IF frame.is_control THEN Len(control) ELSE 0)

\* The loop of _receive_cb stops for want of bytes only.
LoopProceeds ==
  /\ pc = "idle" /\ frame # NoFrame => 0 < Missing /\ "FIRST" \notin fragment_info
  /\ pc = "loop" => \/ len < prev_len /\ frame # NoFrame
                    \/ /\ len = prev_len /\ 0 < len
                       /\ (frame # NoFrame => 0 < Missing /\ "FIRST" \notin fragment_info)

\* The character that is kept belongs to the text that is open, and begins as it should.
CharacterWaits ==
  /\ utf8.needed = 0 => utf8.buf = << >>
  /\ utf8.needed # 0 => /\ stream_type = "TEXT" /\ "FIRST" \notin fragment_info
                        /\ utf8.buf # << >> /\ IsCharStart(utf8.buf)
                        /\ utf8.needed = utf8_len(utf8.buf[1]) - Len(utf8.buf)

\* What was told, and the start of the message if it is still to be told.
Heard == IF "FIRST" \in fragment_info THEN Append(out, Started(stream_type)) ELSE out

\* f is the frame that is read.
IsFrame(f) == f.opcode = frame.opcode /\ f.fin = frame.fin /\ f.is_control = frame.is_control

\* ByteReceiver is where the receiver is.
Together ==
  /\ frame = NoFrame =>
       \E l : After(stream)[at] = State(header.buf, NoFrame, l, stream_type, utf8.buf, control, out)
  /\ frame # NoFrame =>
       \E h, f : IsFrame(f) /\ Reaches(stream, at, State(h, f, Missing, stream_type, utf8.buf,
                                                         control, Heard))

\* The inductive invariant.
ByteInv ==
  /\ ReceiverInv
  /\ ~close_received => FlagsMatch /\ HeaderWaits /\ LoopProceeds /\ CharacterWaits /\ Together
  /\ close_received => After(stream)[at].done /\ After(stream)[at].out = out

-------------------------------------------------------------------------------
(* Where utf8_validate and ByteReceiver agree *)

\* A text is accepted as a whole.
LEMMA TextAccepted ==
  ASSUME NEW t \in Seq(Byte), IsText(t)
  PROVE  utf8_validate(t).rv = 0 /\ utf8_validate(t).len = Len(t)
<1>1. Len(t) \in Nat /\ SubSeq(t, 1, Len(t)) = t
  BY LenProperties, AllOfIt
<1>2. PICK f : LoopFrom(t, f, 1) /\ utf8_validate(t) = f[1]
  BY ValidateIsLoop
<1>3. f[1] = f[Len(t) + 1]
  <2>1. Len(t) \in 0..Len(t)
    BY <1>1
  <2> QED BY <1>1, <1>2, <2>1, LoopPassesText
<1>4. f[Len(t) + 1] = [rv |-> 0, len |-> Len(t)]
  <2>1. Len(t) + 1 \in 1..Len(t) + 4 /\ Len(t) + 1 > Len(t)
    BY <1>1
  <2>2. f[Len(t) + 1] = Iteration(t, f, Len(t) + 1)
    BY <1>2, <2>1 DEF LoopFrom
  <2> QED BY <2>1, <2>2 DEF Iteration
<1> QED BY <1>2, <1>3, <1>4

\* Bytes in the number that the first one tells are accepted if they are a character.
LEMMA CharAccepted ==
  ASSUME NEW t \in Seq(Byte), 0 < Len(t), Len(t) = utf8_len(t[1])
  PROVE  IsChar(t) <=> utf8_validate(t).rv = 0 /\ utf8_validate(t).len = Len(t)
<1> DEFINE n == Len(t)
<1>1. n \in Nat /\ SubSeq(t, 1, n) = t
  BY LenProperties, AllOfIt
<1>2. PICK f : LoopFrom(t, f, 1) /\ utf8_validate(t) = f[1]
  BY ValidateIsLoop
<1>3. f[1] = Iteration(t, f, 1) /\ f[1 + n] = Iteration(t, f, 1 + n)
  <2>1. 1 \in 1..n + 4 /\ 1 + n \in 1..n + 4
    BY <1>1
  <2> QED BY <1>2, <2>1 DEF LoopFrom
<1>4. f[1 + n] = [rv |-> 0, len |-> n]
  <2>1. 1 + n > n
    BY <1>1
  <2> QED BY <1>3, <2>1 DEF Iteration
<1>5. f[1] = IF ~valid_char(t, 1, n) THEN [rv |-> -1, len |-> n] ELSE f[1 + n]
  <2>1. ~(1 > n) /\ ~(n - 1 + 1 < n) /\ n # 0 /\ utf8_len(t[1]) = n
    BY <1>1
  <2> HIDE DEF n
  <2> QED BY <1>3, <2>1 DEF Iteration, n
<1>6. IsChar(t) => valid_char(t, 1, n)
  <2>1. 1 \in Nat /\ n \in Nat /\ 0 < 1 /\ 0 < n /\ 1 + n - 1 <= Len(t) /\ 1 + n - 1 = n
    BY <1>1
  <2>2. SubSeq(t, 1, 1 + n - 1) = t
    BY <1>1, <2>1
  <2> HIDE DEF n
  <2> QED BY <2>1, <2>2, CharIsValid
<1>7. valid_char(t, 1, n) => IsChar(t)
  <2>1. 1 \in Nat /\ 0 < 1 /\ 1 <= Len(t) /\ utf8_len(t[1]) # 0 /\ 1 + utf8_len(t[1]) - 1 <= Len(t)
        /\ 1 + utf8_len(t[1]) - 1 = n
    <3>1. utf8_len(t[1]) = n
      OBVIOUS
    <3>2. 0 < n
      OBVIOUS
    <3> HIDE DEF n
    <3>3. 1 <= n /\ n # 0 /\ 1 + n - 1 = n /\ n <= n
      BY <1>1, <3>2
    <3>4. n = Len(t)
      BY DEF n
    <3> QED BY <3>1, <3>3, <3>4
  <2>2. ASSUME valid_char(t, 1, utf8_len(t[1])) PROVE IsChar(SubSeq(t, 1, 1 + utf8_len(t[1]) - 1))
    <3> HIDE DEF n
    <3> QED BY <2>1, <2>2, ValidIsChar
  <2> QED BY <1>1, <2>1, <2>2
<1>8. CASE valid_char(t, 1, n)
  BY <1>2, <1>4, <1>5, <1>7, <1>8
<1>9. CASE ~valid_char(t, 1, n)
  <2>1. f[1].rv # 0
    BY <1>5, <1>9
  <2> QED BY <1>2, <1>6, <1>9, <2>1
<1> QED BY <1>8, <1>9

\* One byte is accepted if it is a character, or left over if it begins one.
LEMMA ByteAccepted ==
  ASSUME NEW t \in Seq(Byte), Len(t) = 1
  PROVE  LET v == utf8_validate(t)
         IN  /\ utf8_len(t[1]) = 1 => v.rv = 0 /\ v.len = 1
             /\ utf8_len(t[1]) > 1 => v.rv = 0 /\ v.len = 0 /\ IsCharStart(t) /\ ~IsChar(t)
             /\ utf8_len(t[1]) = 0 => ~IsCharStart(t) /\ ~IsChar(t)
             /\ utf8_len(t[1]) \in Nat
<1> DEFINE n == utf8_len(t[1])
<1>1. n \in 0..4
  BY CharacterLength
<1>2. PICK f : LoopFrom(t, f, 1) /\ utf8_validate(t) = f[1]
  BY ValidateIsLoop
<1>3. f[1] = Iteration(t, f, 1) /\ f[2] = Iteration(t, f, 2)
  BY <1>2 DEF LoopFrom
<1>4. f[2] = [rv |-> 0, len |-> 1]
  BY <1>3 DEF Iteration
<1>5. CASE n = 1
  <2>1. valid_char(t, 1, 1)
    BY DEF valid_char
  <2>2. f[1] = f[2]
    <3> HIDE DEF n
    <3> QED BY <1>3, <1>5, <2>1 DEF Iteration, n
  <2> QED BY <1>2, <1>4, <1>5, <2>2
<1>6. CASE n > 1
  <2>1. f[1] = [rv |-> 0, len |-> 0]
    BY <1>1, <1>3, <1>6 DEF Iteration
  <2>2. IsCharStart(t)
    <3> DEFINE b == t[1]
    <3>1. b \in 194..244
      <4>1. 1 \in Nat /\ 0 < 1 /\ 1 <= Len(t)
        OBVIOUS
      <4>2. b \in 0..255
        BY <4>1, ByteAt
      <4> QED BY <1>6, <4>2 DEF utf8_len
    <3>2. b \in 194..223 \/ b = 224 \/ b \in 225..236 \cup 238..239 \/ b = 237
          \/ b = 240 \/ b \in 241..243 \/ b = 244
      BY <3>1
    <3>3. \E r \in Rows : 1 < Len(r) /\ b \in r[1]
      <4> HIDE DEF b
      <4> QED BY <3>2 DEF Rows
    <3>4. 1..Len(t) = {1}
      OBVIOUS
    <3> QED BY <3>3, <3>4 DEF IsCharStart
  <2>3. ~IsChar(t)
    BY <2>2, StartLength
  <2> QED BY <1>1, <1>2, <1>6, <2>1, <2>2, <2>3
<1>7. CASE n = 0
  <2>1. ~IsChar(t)
    BY <1>7, CharLength
  <2>2. t # << >>
    OBVIOUS
  <2>3. ~IsCharStart(t)
    BY <1>7, <2>2, StartLength
  <2> QED BY <1>7, <2>1, <2>3
<1>8. n = 0 \/ n = 1 \/ n > 1
  BY <1>1
<1> QED BY <1>1, <1>5, <1>6, <1>7, <1>8

\* A close frame leads to the same.
LEMMA CloseAgrees ==
  ASSUME NEW data \in Seq(Byte)
  PROVE  close_outcome(data) = close_result(data)
<1> DEFINE reason == SubSeq(data, 3, Len(data))
           v      == utf8_validate(reason)
<1>1. Len(data) \in Nat /\ (data # << >> => Len(data) # 0) /\ Len(<< >>) = 0
  BY LenProperties, EmptySeq
<1>2. CASE data = << >>
  BY <1>1, <1>2 DEF close_outcome, close_result
<1>3. CASE Len(data) = 1
  BY <1>1, <1>3 DEF close_outcome, close_result
<1>4. CASE data # << >> /\ Len(data) # 1
  <2>1. 2 <= Len(data)
    <3>1. \A k \in Nat : k # 0 /\ k # 1 => 2 <= k
      OBVIOUS
    <3> QED BY <1>1, <1>4, <3>1, Zenon
  <2>2. reason \in Seq(Byte)
    <3>1. /\ 3 \in Int /\ Len(data) \in Int /\ 0 < 3 /\ 3 <= Len(data) + 1 /\ Len(data) <= Len(data)
      BY <1>1, <2>1
    <3> QED BY <3>1, Cut
  <2> HIDE DEF reason
  <2>3. (v.rv # 0 \/ v.len # Len(reason)) <=> ~IsText(reason)
    <3>1. ASSUME v.rv = 0, v.len = Len(reason) PROVE IsText(reason)
      <4>1. IsText(SubSeq(reason, 1, Len(reason)))
        <5> HIDE DEF v
        <5>1. IsText(SubSeq(reason, 1, v.len))
          BY <2>2, <3>1, ValidatedIsText DEF v
        <5> QED BY <3>1, <5>1
      <4> QED BY <2>2, <4>1, AllOfIt
    <3>2. IsText(reason) => v.rv = 0 /\ v.len = Len(reason)
      BY <2>2, TextAccepted
    <3> HIDE DEF v
    <3> QED BY <3>1, <3>2
  <2> HIDE DEF v
  <2>4. data # << >> /\ Len(data) # 1
    BY <1>4, Zenon
  <2>5. CASE ~is_close_code_valid(close_code(data))
    <3>1. close_outcome(data) = Failed(1002)
      BY <2>4, <2>5, Zenon DEF close_outcome
    <3>2. close_result(data) = Failed(1002)
      BY <2>4, <2>5, Zenon DEF close_result
    <3> QED BY <3>1, <3>2, Zenon
  <2>6. CASE is_close_code_valid(close_code(data)) /\ ~IsText(reason)
    <3>1. close_outcome(data) = Failed(1007)
      <4>1. v.rv # 0 \/ v.len # Len(reason)
        BY <2>3, <2>6, Zenon
      <4> QED BY <2>4, <2>6, <4>1, SMT DEF close_outcome, reason, v
    <3>2. close_result(data) = Failed(1007)
      BY <2>4, <2>6, SMT DEF close_result, reason
    <3> QED BY <3>1, <3>2, Zenon
  <2>7. CASE is_close_code_valid(close_code(data)) /\ IsText(reason)
    <3>1. close_outcome(data) = Closed(close_code(data), reason)
      <4>1. ~(v.rv # 0 \/ v.len # Len(reason))
        BY <2>3, <2>7, Zenon
      <4> QED BY <2>4, <2>7, <4>1, Zenon DEF close_outcome, reason, v
    <3>2. close_result(data) = Closed(close_code(data), reason)
      BY <2>4, <2>7, Zenon DEF close_result, reason
    <3> QED BY <3>1, <3>2, Zenon
  <2> QED BY <2>5, <2>6, <2>7, Zenon
<1> QED BY <1>2, <1>3, <1>4

-------------------------------------------------------------------------------
(* A step of the receiver, and as many steps of ByteReceiver *)

\* Where the receiver is in the stream.
LEMMA Bounds ==
  ASSUME RecvInv
  PROVE  /\ stream \in Seq(Byte) /\ Len(stream) \in Nat
         /\ at \in Nat /\ len \in Nat /\ prev_len \in Nat /\ at + len <= Len(stream)
         /\ \A k \in Nat : k <= len => at + k \in Nat /\ at + k <= at + len /\ at + k <= Len(stream)
<1>1. stream \in Seq(Byte) /\ at \in Nat /\ len \in Nat /\ prev_len \in Nat /\ at + len <= Len(stream)
  BY DEF RecvInv, InStream
<1>2. Len(stream) \in Nat
  BY <1>1, LenProperties
<1> DEFINE n == Len(stream)
<1>3. n \in Nat /\ at + len <= n
  BY <1>1, <1>2
<1> HIDE DEF n
<1>4. \A k \in Nat : k <= len => at + k \in Nat /\ at + k <= at + len /\ at + k <= n
  BY <1>1, <1>3
<1> QED BY <1>1, <1>2, <1>4 DEF n

\* Both stop with the same call, and the rest of the chunk is ignored.
LEMMA EndsTogether ==
  ASSUME ReceiverInv, ReceiverInv', stream' = stream, at' = at + len, close_received',
         NEW k \in Nat, k <= len, NEW o, NEW x,
         Stops(After(stream)[at + k], o, x), Extends(out', o, x)
  PROVE  ByteInv'
<1>1. /\ stream \in Seq(Byte) /\ at + k \in Nat /\ at + len \in Nat
      /\ at + k <= at + len /\ at + len <= Len(stream)
  BY Bounds DEF ReceiverInv
<1> DEFINE a == at + k
           b == at + len
<1>2. a \in Nat /\ b \in Nat /\ a <= b /\ b <= Len(stream)
  BY <1>1
<1>3. After(stream)[a].done /\ After(stream)[a].out = Append(o, x)
  BY Zenon DEF Stops
<1>4. out' = Append(o, x)
  BY Zenon DEF Extends
<1>5. at' = b
  OBVIOUS
<1> HIDE DEF a, b
<1>6. After(stream)[b] = After(stream)[a]
  BY <1>1, <1>2, <1>3, DoneLater
<1>7. After(stream')[at'].done /\ After(stream')[at'].out = out'
  BY <1>3, <1>4, <1>5, <1>6, Zenon
<1> QED BY <1>7, Zenon DEF ByteInv

\* The loop goes on behind k bytes, or the callback returns there.
LEMMA Moves ==
  ASSUME RecvInv, NEW k \in Nat, k <= len, len < prev_len \/ (len = prev_len /\ 0 < k),
         advance(len - k, FALSE)
  PROVE  /\ at' = at + k
         /\ pc' = "idle" \/ (pc' = "loop" /\ len' = prev_len' /\ 0 < len')
<1>1. at \in Nat /\ len \in Nat /\ prev_len \in Nat
  BY DEF RecvInv, InStream
<1>2. len - k # prev_len
  BY <1>1
<1>3. CASE len - k = 0
  <2>1. pc' = "idle" /\ at' = at + len
    BY <1>3 DEF advance
  <2>2. at + len = at + k
    BY <1>1, <1>3
  <2> QED BY <2>1, <2>2
<1>4. CASE len - k # 0
  <2>1. pc' = "loop" /\ len' = len - k /\ prev_len' = len - k /\ at' = at + (len - (len - k))
    BY <1>2, <1>4 DEF advance
  <2> QED BY <1>1, <1>4, <2>1
<1> QED BY <1>3, <1>4

\* What is known of an open connection.
OpenInv == FlagsMatch /\ HeaderWaits /\ LoopProceeds /\ CharacterWaits /\ Together

\* In the loop the connection is open.
LEMMA LoopIsOpenInv ==
  ASSUME ByteInv, pc = "loop"
  PROVE  ReceiverInv /\ RecvInv /\ ~close_received /\ OpenInv
BY DEF ByteInv, ReceiverInv, RecvInv, LoopIsOpen, OpenInv

\* A step that leaves it open.
LEMMA OpenAgain ==
  ASSUME ReceiverInv', ~close_received', OpenInv'
  PROVE  ByteInv'
BY DEF ByteInv, OpenInv

-------------------------------------------------------------------------------
(* The header *)

\* What one call of _process_frame_header decodes, and where ByteReceiver is behind it.
LEMMA HeaderRead ==
  ASSUME ByteInv, Reading
  PROVE  /\ header_taken \in Nat /\ 0 < header_taken /\ header_taken <= len
         /\ len = prev_len
         /\ \E l :
              LET r == After(stream)[at + header_taken]
              IN  /\ decoded.err = 0 /\ decoded.delta < 0 =>
                       /\ r = State(header_bytes, NoFrame, l, stream_type, utf8.buf, control, out)
                       /\ Waits(header_bytes, -decoded.delta)
                  /\ decoded.err # 0 \/ ~(decoded.delta < 0) =>
                       /\ header_needed - header_taken = 0
                       /\ decoded.err # 0 \/ frame_validate_S2C(decoded) # 0 =>
                            Stops(r, out, Failed(1002))
                       /\ decoded.err = 0 /\ frame_validate_S2C(decoded) = 0 =>
                            \E g : r = BeginFrame(State(g, NoFrame, l, stream_type, utf8.buf,
                                                        control, out), FrameOf(decoded))
<1>1. RecvInv /\ OpenInv /\ pc = "loop" /\ frame = NoFrame
  BY LoopIsOpenInv DEF Reading
<1>2. PICK l : After(stream)[at] = State(header.buf, NoFrame, l, stream_type, utf8.buf, control, out)
  BY <1>1, Zenon DEF OpenInv, Together
<1>3. /\ header_needed \in Nat /\ 0 < header_needed
      /\ header_taken \in Nat /\ header_taken <= len /\ header_taken <= header_needed
  BY <1>1, HeaderBytes
<1>4. Waits(header.buf, header_needed)
  BY <1>1 DEF OpenInv, HeaderWaits
<1>5. len = prev_len /\ 0 < len
  BY <1>1 DEF OpenInv, LoopProceeds
<1>6. 0 < header_taken
  BY <1>3, <1>5 DEF header_taken, MinOf
<1>7. header.buf \in Seq(Byte) /\ stream \in Seq(Byte) /\ at \in Nat
      /\ at + header_taken <= Len(stream)
  BY <1>1, <1>3, Bounds DEF RecvInv, HeaderFits
<1>8. header_bytes = Behind(header.buf, stream, at, header_taken)
  BY Zenon DEF header_bytes, Taken, Behind, Part
<1>9. header_bytes \in Seq(Byte)
  BY <1>1, HeaderBytes
<1>10. /\ decoded.err = 0 /\ decoded.delta < 0 => Waits(header_bytes, -decoded.delta)
       /\ \A n \in Nat : Waits(header_bytes, n) => decoded.err = 0 /\ decoded.delta = -n /\ 0 < n
  BY <1>9, DecodeWaits DEF decoded
<1> DEFINE k == header_taken
           n == header_needed
           r == After(stream)[at + k]
           S(h) == State(h, NoFrame, l, stream_type, utf8.buf, control, out)
<1>11. CASE k < n
  <2>1. r = S(header_bytes) /\ Waits(header_bytes, n - k)
    BY <1>2, <1>3, <1>4, <1>7, <1>8, <1>11, HeaderRun
  <2>2. n - k \in Nat /\ 0 < n - k
    BY <1>3, <1>11
  <2>3. decoded.err = 0 /\ decoded.delta = -(n - k)
    BY <1>10, <2>1, <2>2
  <2>4. decoded.delta < 0
    BY <2>2, <2>3
  <2> HIDE DEF k, n, r, S
  <2>5. decoded.err = 0 /\ decoded.delta < 0 => r = S(header_bytes) /\ Waits(header_bytes, -decoded.delta)
    BY <1>10, <2>1
  <2>6. ~(decoded.err # 0 \/ ~(decoded.delta < 0))
    BY <2>3, <2>4
  <2> QED BY <1>3, <1>5, <1>6, <2>5, <2>6, Zenon DEF k, r, S
<1>12. CASE ~(k < n)
  <2>1. k = n /\ n - k = 0
    BY <1>3, <1>12
  <2>2. at + n <= Len(stream)
    BY <1>7, <2>1
  <2>3. header_bytes = Behind(header.buf, stream, at, n) /\ decoded = frame_decode(header_bytes)
        /\ r = After(stream)[at + n]
    BY <1>8, <2>1 DEF decoded
  <2> HIDE DEF k, n, r
  <2>4. /\ decoded.err = 0 /\ decoded.delta < 0 => r = S(header_bytes)
        /\ (decoded.err # 0 \/ ~(decoded.delta < 0)) /\ (decoded.err # 0 \/ frame_validate_S2C(decoded) # 0) =>
             Stops(r, out, Failed(1002))
        /\ (decoded.err # 0 \/ ~(decoded.delta < 0)) /\ decoded.err = 0 /\ frame_validate_S2C(decoded) = 0 =>
             \E g : r = BeginFrame(S(g), FrameOf(decoded))
    <3>1. n \in Nat /\ 0 < n /\ Waits(header.buf, n)
      BY <1>3, <1>4 DEF n
    <3> QED BY <1>2, <1>7, <2>2, <2>3, <3>1, HeaderEnd
  <2> HIDE DEF S
  <2>5. decoded.err = 0 /\ decoded.delta < 0 => r = S(header_bytes) /\ Waits(header_bytes, -decoded.delta)
    BY <1>10, <2>4, Zenon
  <2> QED BY <1>3, <1>5, <1>6, <2>1, <2>4, <2>5 DEF k, n, r, S
<1> QED BY <1>11, <1>12

-------------------------------------------------------------------------------
(* Every step but those of data *)

\* What a step leaves alone holds on.
LEMMA CharacterStays ==
  ASSUME CharacterWaits, UNCHANGED <<utf8, stream_type, fragment_info>>
  PROVE  CharacterWaits'
BY DEF CharacterWaits

\* The flags do so too, if the frame stays, or a control frame ends.
LEMMA FlagsStay ==
  ASSUME FlagsMatch, UNCHANGED <<stream_type, fragment_info>>,
         frame' = frame \/ (frame' = NoFrame /\ (frame = NoFrame \/ frame.is_control))
  PROVE  FlagsMatch'
BY DEF FlagsMatch

\* A frame that is read has an opcode.
LEMMA SomeFrame ==
  ASSUME NEW f, f.opcode \in DataOpcodes \cup ControlOpcodes
  PROVE  f # NoFrame
BY DEF NoFrame, DataOpcodes, ControlOpcodes, WS_OPCODE_CONTINUATION, WS_OPCODE_TEXT,
       WS_OPCODE_BINARY, WS_OPCODE_CLOSE, WS_OPCODE_PING, WS_OPCODE_PONG

\* An empty header buffer waits for the first two bytes of a header.
LEMMA NoHeaderYet ==
  ASSUME header' = [buf |-> << >>, needed |-> 0] \/ header' = [buf |-> << >>, needed |-> WS_FRAME_HEADER_MIN]
  PROVE  HeaderWaits'
<1>1. header_needed' = 2 /\ header'.buf = << >>
  BY DEF header_needed, WS_FRAME_HEADER_MIN
<1>2. Len(header'.buf) = 0
  BY <1>1, EmptySeq
<1>3. Waits(header'.buf, 2)
  BY <1>2 DEF Waits, WS_FRAME_HEADER_MIN
<1> QED BY <1>1, <1>3 DEF HeaderWaits

\* A callback of curl.
LEMMA CallbackTogether ==
  ASSUME ByteInv, ReceiverInv', NEW n \in ChunkSizes[stream], receive_cb(n)
  PROVE  ByteInv'
<1>1. OpenInv /\ ~close_received /\ RecvInv
  BY DEF ByteInv, OpenInv, receive_cb, ReceiverInv
<1>2. n \in Nat \ {0}
  BY <1>1, ReceiveAssumption DEF RecvInv, InStream
<1>3. LoopProceeds'
  BY <1>1, <1>2 DEF OpenInv, LoopProceeds, receive_cb, Missing, assembly
<1>4. CharacterWaits' /\ FlagsMatch'
  BY <1>1, CharacterStays, FlagsStay DEF OpenInv, receive_cb, assembly
<1>5. HeaderWaits'
  BY <1>1 DEF OpenInv, HeaderWaits, header_needed, receive_cb
<1>6. Together'
  <2>1. /\ stream' = stream /\ at' = at /\ frame' = frame /\ header' = header /\ stream_type' = stream_type
        /\ utf8' = utf8 /\ control' = control /\ out' = out /\ fragment_info' = fragment_info
    BY DEF receive_cb, assembly
  <2> QED BY <1>1, <2>1 DEF OpenInv, Together, IsFrame, Missing, Heard
<1>7. ~close_received'
  BY <1>1 DEF receive_cb
<1> QED BY <1>3, <1>4, <1>5, <1>6, <1>7, OpenAgain DEF OpenInv

\* A callback after the close: the bytes are ignored by both.
LEMMA IgnoredTogether ==
  ASSUME ByteInv, ReceiverInv', NEW n \in ChunkSizes[stream], receive_cb_ignored(n)
  PROVE  ByteInv'
<1>1. RecvInv /\ close_received /\ close_received' /\ out' = out /\ stream' = stream /\ at' = at + n
  BY DEF ByteInv, ReceiverInv, receive_cb_ignored
<1>2. n \in Nat \ {0}
  BY <1>1, ReceiveAssumption DEF RecvInv, InStream
<1>3. After(stream)[at].done /\ After(stream)[at].out = out
  BY <1>1 DEF ByteInv
<1>4. stream \in Seq(Byte) /\ at \in Nat
  BY <1>1, Bounds
<1>5. RecvInv'
  BY DEF ReceiverInv
<1>6. at' \in Nat /\ at' <= Len(stream)
  <2>1. at' \in Nat /\ len' \in Nat /\ at' + len' <= Len(stream') /\ stream' \in Seq(Byte)
    BY <1>5 DEF RecvInv, InStream
  <2>2. Len(stream') \in Nat
    BY <2>1, LenProperties
  <2> QED BY <1>1, <2>1, <2>2
<1>7. at <= at'
  BY <1>1, <1>2, <1>4
<1>8. After(stream)[at'] = After(stream)[at]
  BY <1>3, <1>4, <1>6, <1>7, DoneLater
<1>9. After(stream')[at'].done /\ After(stream')[at'].out = out'
  BY <1>1, <1>3, <1>8, Zenon
<1> QED BY <1>1, <1>9, Zenon DEF ByteInv

\* No step at all.
LEMMA StutterTogether ==
  ASSUME ByteInv, ReceiverInv', UNCHANGED vars
  PROVE  ByteInv'
<1>1. /\ stream' = stream /\ at' = at /\ frame' = frame /\ header' = header /\ stream_type' = stream_type
      /\ utf8' = utf8 /\ control' = control /\ out' = out /\ fragment_info' = fragment_info
      /\ pc' = pc /\ len' = len /\ prev_len' = prev_len /\ close_received' = close_received
  BY DEF vars
<1>2. ASSUME ~close_received PROVE ByteInv'
  <2>1. OpenInv
    BY <1>2 DEF ByteInv, OpenInv
  <2>2. LoopProceeds'
    BY <1>1, <2>1 DEF OpenInv, LoopProceeds, Missing
  <2>3. CharacterWaits' /\ FlagsMatch'
    BY <1>1, <2>1, CharacterStays, FlagsStay DEF OpenInv
  <2>4. HeaderWaits'
    BY <1>1, <2>1 DEF OpenInv, HeaderWaits, header_needed
  <2>5. Together'
    BY <1>1, <2>1 DEF OpenInv, Together, IsFrame, Missing, Heard
  <2> QED BY <1>1, <1>2, <2>2, <2>3, <2>4, <2>5, OpenAgain DEF OpenInv
<1>3. ASSUME close_received PROVE ByteInv'
  <2>1. After(stream)[at].done /\ After(stream)[at].out = out
    BY <1>3 DEF ByteInv
  <2>2. After(stream')[at'].done /\ After(stream')[at'].out = out'
    BY <1>1, <2>1
  <2> QED BY <1>1, <1>3, <2>2, Zenon DEF ByteInv
<1> QED BY <1>2, <1>3

\* A header that is refused.
LEMMA HeaderRejectedTogether ==
  ASSUME ByteInv, ReceiverInv', header_rejected
  PROVE  ByteInv'
<1>1. Reading
  BY DEF header_rejected
<1>2. header_taken \in Nat /\ header_taken <= len
  BY <1>1, HeaderRead
<1>3. Stops(After(stream)[at + header_taken], out, Failed(1002))
  <2>1. decoded.delta \in Int
    <3>1. header_bytes \in Seq(Byte)
      BY <1>1, LoopIsOpenInv, HeaderBytes DEF Reading
    <3> QED BY <3>1, Decoded DEF decoded
  <2>2. /\ decoded.err # 0 \/ ~(decoded.delta < 0)
        /\ decoded.err # 0 \/ frame_validate_S2C(decoded) # 0
    BY <2>1 DEF header_rejected
  <2> QED BY <1>1, <2>2, HeaderRead
<1>4. stream' = stream /\ at' = at + len /\ close_received' /\ out' = Append(out, Failed(1002))
  BY DEF header_rejected, _error_close, advance
<1>5. Extends(out', out, Failed(1002))
  BY <1>4, Zenon DEF Extends
<1>6. ReceiverInv
  BY DEF ByteInv
<1> QED BY <1>2, <1>3, <1>4, <1>5, <1>6, EndsTogether

\* A header that is good, and no frame that may come now.
LEMMA OutOfOrderTogether ==
  ASSUME ByteInv, ReceiverInv', header_out_of_order
  PROVE  ByteInv'
<1>1. Reading /\ RecvInv /\ OpenInv /\ decoded.err = 0 /\ frame_validate_S2C(decoded) = 0
  BY LoopIsOpenInv DEF header_out_of_order, header_valid, Reading
<1>2. header_taken \in Nat /\ header_taken <= len
  BY <1>1, HeaderRead
<1>3. header_bytes \in Seq(Byte)
  BY <1>1, HeaderBytes DEF Reading
<1>4. decoded.delta \in Int
  BY <1>3, Decoded DEF decoded
<1>5. ~(decoded.delta < 0)
  BY <1>4 DEF header_out_of_order, header_valid
<1>6. PICK l, g : After(stream)[at + header_taken]
                    = BeginFrame(State(g, NoFrame, l, stream_type, utf8.buf, control, out), FrameOf(decoded))
  BY <1>1, <1>5, HeaderRead
<1>7. decoded.opcode \in DataOpcodes \cup ControlOpcodes
      /\ (decoded.is_control <=> decoded.opcode \in ControlOpcodes)
  BY <1>1, <1>3, <1>5, DecodedKind DEF decoded
<1> DEFINE f == FrameOf(decoded)
<1>8. f.opcode = decoded.opcode /\ f.is_control = decoded.is_control
  BY DEF FrameOf
<1> HIDE DEF f
<1>9. f # NoFrame /\ (f.is_control <=> f.opcode \in ControlOpcodes)
  BY <1>7, <1>8, SomeFrame
<1>10. /\ ~f.is_control
       /\ ~(f.opcode = WS_OPCODE_CONTINUATION /\ stream_type # "none")
       /\ ~(f.opcode \in {WS_OPCODE_BINARY, WS_OPCODE_TEXT} /\ stream_type = "none")
  <2>1. stream_type = "none" <=> fragment_info = {}
    BY <1>1 DEF OpenInv, FlagsMatch
  <2> QED BY <1>8, <2>1 DEF header_out_of_order, begins_message, continues_message
<1>11. Stops(After(stream)[at + header_taken], out, Failed(1002))
  <2>1. Stops(BeginFrame(State(g, NoFrame, l, stream_type, utf8.buf, control, out), f), out, Failed(1002))
    BY <1>9, <1>10, Begins
  <2> QED BY <1>6, <2>1, Zenon DEF f
<1>12. stream' = stream /\ at' = at + len /\ close_received' /\ out' = Append(out, Failed(1002))
  BY DEF header_out_of_order, _error_close, advance
<1>13. Extends(out', out, Failed(1002))
  BY <1>12, Zenon DEF Extends
<1>14. ReceiverInv
  BY DEF ByteInv
<1> QED BY <1>2, <1>11, <1>12, <1>13, <1>14, EndsTogether

\* A header of which bytes are missing.
LEMMA IncompleteTogether ==
  ASSUME ByteInv, ReceiverInv', header_incomplete
  PROVE  ByteInv'
<1>1. Reading /\ RecvInv /\ OpenInv /\ ~close_received /\ decoded.err = 0 /\ decoded.delta < 0
  BY LoopIsOpenInv DEF header_incomplete, Reading
<1>2. header_taken \in Nat /\ 0 < header_taken /\ header_taken <= len /\ len = prev_len
  BY <1>1, HeaderRead
<1>3. PICK l : /\ After(stream)[at + header_taken]
                    = State(header_bytes, NoFrame, l, stream_type, utf8.buf, control, out)
               /\ Waits(header_bytes, -decoded.delta)
  BY <1>1, HeaderRead
<1>4. at' = at + header_taken /\ (pc' = "idle" \/ (pc' = "loop" /\ len' = prev_len' /\ 0 < len'))
  BY <1>1, <1>2, Moves DEF header_incomplete
<1>5. /\ stream' = stream /\ frame = NoFrame /\ frame' = NoFrame
      /\ header' = [buf |-> header_bytes, needed |-> -decoded.delta]
      /\ utf8' = utf8 /\ stream_type' = stream_type /\ fragment_info' = fragment_info
      /\ control' = control /\ out' = out /\ close_received' = close_received
  BY <1>1 DEF header_incomplete, assembly, Reading
<1>6. LoopProceeds'
  BY <1>4, <1>5 DEF LoopProceeds
<1>7. CharacterWaits' /\ FlagsMatch'
  BY <1>1, <1>5, CharacterStays, FlagsStay DEF OpenInv
<1>8. HeaderWaits'
  <2>1. header'.buf = header_bytes /\ header'.needed = -decoded.delta
    BY <1>5
  <2>2. header_bytes \in Seq(Byte)
    BY <1>1, HeaderBytes DEF Reading
  <2>3. decoded.delta \in Int
    BY <2>2, Decoded DEF decoded
  <2>4. header_needed' = -decoded.delta
    BY <1>1, <2>1, <2>3 DEF header_needed
  <2> QED BY <1>3, <1>5, <2>1, <2>4 DEF HeaderWaits
<1>9. Together'
  <2>1. After(stream')[at'] = State(header'.buf, NoFrame, l, stream_type', utf8'.buf, control', out')
    <3>1. header'.buf = header_bytes
      BY <1>5
    <3> QED BY <1>3, <1>4, <1>5, <3>1, Zenon
  <2> QED BY <1>5, <2>1, Zenon DEF Together
<1> QED BY <1>1, <1>5, <1>6, <1>7, <1>8, <1>9, OpenAgain DEF OpenInv

\* A header that begins a frame.
LEMMA CompleteTogether ==
  ASSUME ByteInv, ReceiverInv', header_complete
  PROVE  ByteInv'
<1>1. /\ Reading /\ RecvInv /\ OpenInv /\ ~close_received /\ header_valid
      /\ decoded.err = 0 /\ frame_validate_S2C(decoded) = 0
  BY LoopIsOpenInv DEF header_complete, header_valid, Reading
<1>2. header_taken \in Nat /\ 0 < header_taken /\ header_taken <= len /\ len = prev_len
  BY <1>1, HeaderRead
<1>3. header_bytes \in Seq(Byte)
  BY <1>1, HeaderBytes DEF Reading
<1>4. decoded.delta \in Int
  BY <1>3, Decoded DEF decoded
<1>5. ~(decoded.delta < 0)
  BY <1>1, <1>4 DEF header_valid
<1>6. PICK l, g : After(stream)[at + header_taken]
                    = BeginFrame(State(g, NoFrame, l, stream_type, utf8.buf, control, out), FrameOf(decoded))
  BY <1>1, <1>5, HeaderRead
<1>7. /\ decoded.opcode \in DataOpcodes \cup ControlOpcodes
      /\ (decoded.is_control <=> decoded.opcode \in ControlOpcodes)
      /\ decoded.payload_len \in Nat
  BY <1>1, <1>3, <1>5, DecodedKind, HeaderValid DEF decoded
<1>8. header_needed - header_taken = 0
  BY <1>1, <1>5, HeaderRead
<1>9. /\ stream' = stream /\ pc = "loop" /\ pc' = "loop" /\ prev_len' = prev_len /\ at' = at + header_taken
      /\ len' = len - header_taken /\ frame = NoFrame /\ frame' = FrameOf(decoded)
      /\ utf8' = utf8 /\ control' = control /\ out' = out /\ close_received' = close_received
      /\ header' = [buf |-> << >>, needed |-> 0]
  BY <1>1, <1>8 DEF header_complete, FrameOf, Reading
<1> DEFINE f == frame'
<1>10. /\ f.opcode = decoded.opcode /\ f.is_control = decoded.is_control
       /\ f.payload_len = decoded.payload_len
  BY <1>9 DEF FrameOf
<1> HIDE DEF f
<1>11. f # NoFrame /\ (f.is_control <=> f.opcode \in ControlOpcodes) /\ f.payload_len \in Nat
       /\ f.opcode \in DataOpcodes \cup ControlOpcodes
  BY <1>7, <1>10, SomeFrame
<1>12. control = << >> /\ Len(control) = 0
  BY <1>1, <1>9, EmptySeq DEF RecvInv, ControlFits, NoFrame
<1>13. Missing' = f.payload_len
  BY <1>9, <1>11, <1>12 DEF Missing, f
<1>14. "FIRST" \notin fragment_info /\ (stream_type = "none" <=> fragment_info = {})
       /\ fragment_info \subseteq {"FIRST", "CONT", "TEXT", "BINARY"}
  BY <1>1, <1>9 DEF OpenInv, FlagsMatch
<1>15. /\ stream_type \in {"none", "BINARY", "TEXT"}
       /\ utf8.needed # 0 => stream_type = "TEXT"
       /\ stream \in Seq(Byte)
  BY <1>1, <1>9, Bounds DEF OpenInv, CharacterWaits, ByteInv, ReceiverInv, ToldInv
<1> DEFINE r == After(stream)[at + header_taken]
           b == State(g, NoFrame, l, stream_type, utf8.buf, control, out)
<1>16. r = BeginFrame(b, f)
  BY <1>6, <1>9, Zenon DEF f
<1> HIDE DEF r
<1>17. /\ FlagsMatch' /\ CharacterWaits'
       /\ r = Settled(State(g, f, f.payload_len, stream_type', utf8.buf, control, Heard'))
  <2>1. CASE decoded.is_control /\ UNCHANGED <<stream_type, fragment_info>>
    <3>1. FlagsMatch'
      BY <1>9, <1>11, <1>10, <1>14, <2>1 DEF FlagsMatch, f
    <3>2. CharacterWaits'
      BY <1>1, <1>9, <2>1, CharacterStays DEF OpenInv
    <3>3. Heard' = out /\ stream_type' = stream_type
      BY <1>9, <1>14, <2>1 DEF Heard
    <3>4. BeginFrame(b, f) = Settled(State(g, f, f.payload_len, stream_type, utf8.buf, control, out))
      <4>1. f.is_control
        BY <1>10, <2>1
      <4> QED BY <1>11, <4>1, Begins
    <3> QED BY <1>16, <3>1, <3>2, <3>3, <3>4, Zenon
  <2>2. CASE /\ ~decoded.is_control /\ continues_message
             /\ fragment_info' = (fragment_info \ {"BINARY", "TEXT"}) \cup {"CONT"}
             /\ UNCHANGED stream_type
    <3>1. FlagsMatch'
      BY <1>9, <1>11, <1>10, <1>14, <2>2 DEF FlagsMatch, f, continues_message
    <3>2. CharacterWaits'
      BY <1>1, <1>9, <1>14, <2>2 DEF OpenInv, CharacterWaits
    <3>3. Heard' = out /\ stream_type' = stream_type
      BY <1>9, <1>14, <2>2 DEF Heard
    <3>4. BeginFrame(b, f) = Settled(State(g, f, f.payload_len, stream_type, utf8.buf, control, out))
      BY <1>10, <1>11, <2>2, Begins DEF continues_message
    <3> QED BY <1>16, <3>1, <3>2, <3>3, <3>4, Zenon
  <2>3. CASE /\ ~decoded.is_control /\ begins_message /\ stream_type' = message_type
             /\ fragment_info' = {"FIRST", message_type}
    <3>1. message_type \in {"TEXT", "BINARY"} /\ stream_type = "none"
      BY <1>14, <2>3 DEF message_type, begins_message
    <3>2. FlagsMatch'
      BY <1>9, <1>11, <1>10, <2>3, <3>1 DEF FlagsMatch, f
    <3>3. CharacterWaits'
      BY <1>1, <1>9, <1>15, <3>1 DEF OpenInv, CharacterWaits
    <3>4. Heard' = Append(out, Started(stream_type'))
      BY <1>9, <2>3 DEF Heard
    <3> DEFINE y == stream_type'
    <3>5. \/ y = "BINARY" /\ f.opcode = WS_OPCODE_BINARY
          \/ y = "TEXT" /\ f.opcode = WS_OPCODE_TEXT
      BY <1>10, <2>3 DEF message_type, begins_message
    <3> HIDE DEF y
    <3>6. BeginFrame(b, f) =
            Settled(State(g, f, f.payload_len, y, utf8.buf, control, Append(out, Started(y))))
      BY <1>11, <3>1, <3>5, Begins
    <3> QED BY <1>16, <3>2, <3>3, <3>4, <3>6, Zenon DEF y
  <2>4. begins_message \/ continues_message => ~decoded.is_control
    BY <1>7 DEF begins_message, continues_message, ControlOpcodes, WS_OPCODE_CONTINUATION,
                WS_OPCODE_TEXT, WS_OPCODE_BINARY, WS_OPCODE_CLOSE, WS_OPCODE_PING, WS_OPCODE_PONG
  <2> QED BY <2>1, <2>2, <2>3, <2>4 DEF header_complete
<1>18. LoopProceeds'
  <2>1. len' < prev_len'
    BY <1>1, <1>2, <1>9 DEF RecvInv, InStream
  <2> QED BY <1>9, <1>11, <2>1 DEF LoopProceeds, f
<1>19. HeaderWaits'
  BY <1>9, NoHeaderYet
<1>20. Together'
  <2>1. PICK e : e = f
    OBVIOUS
  <2>2. Reaches(stream', at', State(g, e, Missing', stream_type', utf8'.buf, control', Heard'))
    BY <1>9, <1>13, <1>17, <2>1, Zenon DEF Reaches, r
  <2>3. IsFrame(e)'
    BY <2>1 DEF IsFrame, f
  <2>4. frame' # NoFrame
    BY <1>11 DEF f
  <2> QED BY <2>2, <2>3, <2>4, Zenon DEF Together
<1> QED BY <1>1, <1>9, <1>17, <1>18, <1>19, <1>20, OpenAgain DEF OpenInv

-------------------------------------------------------------------------------
(* Control frames *)

\* What is in the control buffer after one call of _process_control_frame.
LEMMA ControlRead ==
  ASSUME ByteInv, InControl
  PROVE  /\ control_taken \in Nat /\ control_taken <= len
         /\ len < prev_len \/ (len = prev_len /\ 0 < control_taken)
         /\ Len(control_bytes) \in Nat /\ frame.payload_len \in Nat
         /\ "FIRST" \notin fragment_info
         /\ \E h, f : /\ IsFrame(f) /\ f # NoFrame /\ f.is_control
                      /\ Reaches(stream, at + control_taken,
                                 State(h, f, frame.payload_len - Len(control_bytes), stream_type,
                                       utf8.buf, control_bytes, out))
<1>1. RecvInv /\ OpenInv /\ pc = "loop" /\ frame # NoFrame /\ frame.is_control
  BY LoopIsOpenInv DEF InControl
<1>2. control_bytes \in Seq(Byte) /\ control_taken \in Nat /\ control_taken <= len
      /\ Len(control_bytes) <= frame.payload_len /\ Len(control_bytes) \in Nat
  BY <1>1, ControlBytes, LenProperties
<1> DEFINE k == MinOf(frame.payload_len - Len(control), len)
           n == Len(control)
           p == frame.payload_len
<1>3. p \in Nat /\ n \in Nat /\ n <= p /\ control \in Seq(Byte) /\ len \in Nat
      /\ prev_len \in Nat
  BY <1>1, LenProperties DEF RecvInv, InStream, FrameIsValid, ControlFits
<1>4. k \in Nat /\ k <= len /\ k <= p - n
  BY <1>3 DEF MinOf
<1>5. control_bytes = Behind(control, stream, at, k)
  BY Zenon DEF control_bytes, Taken, Behind, Part
<1>6. stream \in Seq(Byte) /\ at \in Nat /\ at + k <= Len(stream)
  BY <1>1, <1>4, Bounds
<1>7. Len(control_bytes) = n + k
  <2> HIDE DEF k
  <2> QED BY <1>3, <1>4, <1>5, <1>6, BehindIs
<1>8. control_taken = k
  <2> HIDE DEF k
  <2> QED BY <1>3, <1>4, <1>7 DEF control_taken
<1>9. Missing = p - n
  BY <1>1 DEF Missing
<1>10. len < prev_len \/ (len = prev_len /\ 0 < k)
  <2>1. len < prev_len \/ (len = prev_len /\ 0 < len /\ 0 < Missing)
    BY <1>1 DEF OpenInv, LoopProceeds
  <2> QED BY <1>3, <1>9, <2>1 DEF MinOf
<1>11. "FIRST" \notin fragment_info
  BY <1>1 DEF OpenInv, FlagsMatch
<1>12. PICK h, f : IsFrame(f) /\ Reaches(stream, at, State(h, f, p - n, stream_type, utf8.buf, control, out))
  <2>1. Heard = out
    BY <1>11 DEF Heard
  <2> QED BY <1>1, <1>9, <2>1, Zenon DEF OpenInv, Together
<1>13. f # NoFrame /\ f.is_control
  <2>1. frame.opcode \in DataOpcodes \cup ControlOpcodes
    BY <1>1 DEF OpenInv, FlagsMatch
  <2> QED BY <1>1, <1>12, <2>1, SomeFrame DEF IsFrame
<1>14. p - n \in Nat
  BY <1>3
<1> HIDE DEF k, n, p
<1>15. Reaches(stream, at + k, State(h, f, (p - n) - k, stream_type, utf8.buf,
                                     Behind(control, stream, at, k), out))
  BY <1>3, <1>4, <1>6, <1>12, <1>13, <1>14, ControlRun
<1>16. (p - n) - k = p - Len(control_bytes)
  BY <1>3, <1>4, <1>7
<1>17. Reaches(stream, at + control_taken,
               State(h, f, p - Len(control_bytes), stream_type, utf8.buf, control_bytes, out))
  BY <1>5, <1>8, <1>15, <1>16, Zenon
<1> QED BY <1>2, <1>3, <1>8, <1>10, <1>11, <1>12, <1>13, <1>17, Zenon DEF p

\* A control frame of which bytes are missing.
LEMMA ControlGoesOn ==
  ASSUME ByteInv, ReceiverInv', control_incomplete
  PROVE  ByteInv'
<1>1. InControl /\ RecvInv /\ OpenInv /\ ~close_received /\ frame # NoFrame /\ frame.is_control
  BY LoopIsOpenInv DEF control_incomplete, InControl
<1>2. /\ control_taken \in Nat /\ control_taken <= len
      /\ len < prev_len \/ (len = prev_len /\ 0 < control_taken)
      /\ Len(control_bytes) \in Nat /\ frame.payload_len \in Nat
      /\ "FIRST" \notin fragment_info
  BY <1>1, ControlRead
<1>3. PICK h, f : IsFrame(f) /\ Reaches(stream, at + control_taken,
                    State(h, f, frame.payload_len - Len(control_bytes), stream_type,
                          utf8.buf, control_bytes, out))
  BY <1>1, ControlRead, Zenon
<1>4. at' = at + control_taken /\ (pc' = "idle" \/ (pc' = "loop" /\ len' = prev_len' /\ 0 < len'))
  BY <1>1, <1>2, Moves DEF control_incomplete
<1>5. /\ stream' = stream /\ frame' = frame /\ header' = header /\ control' = control_bytes
      /\ utf8' = utf8 /\ stream_type' = stream_type /\ fragment_info' = fragment_info
      /\ out' = out /\ close_received' = close_received /\ Len(control_bytes) < frame.payload_len
  BY DEF control_incomplete
<1>6. Missing' = frame.payload_len - Len(control_bytes) /\ 0 < Missing'
  BY <1>1, <1>2, <1>5 DEF Missing
<1>7. LoopProceeds'
  BY <1>2, <1>4, <1>5, <1>6 DEF LoopProceeds
<1>8. CharacterWaits' /\ FlagsMatch'
  BY <1>1, <1>5, CharacterStays, FlagsStay DEF OpenInv
<1>9. HeaderWaits'
  BY <1>1, <1>5 DEF OpenInv, HeaderWaits, header_needed
<1>10. Together'
  <2>1. Heard' = out
    BY <1>2, <1>5 DEF Heard
  <2>2. Reaches(stream', at', State(h, f, Missing', stream_type', utf8'.buf, control', Heard'))
    BY <1>3, <1>4, <1>5, <1>6, <2>1, Zenon
  <2>3. IsFrame(f)'
    BY <1>3, <1>5 DEF IsFrame
  <2>4. frame' # NoFrame
    BY <1>1, <1>5
  <2> QED BY <2>2, <2>3, <2>4, Zenon DEF Together
<1> QED BY <1>1, <1>5, <1>7, <1>8, <1>9, <1>10, OpenAgain DEF OpenInv

\* A ping or a pong that is complete.
LEMMA DispatchedTogether ==
  ASSUME ByteInv, ReceiverInv', control_dispatched
  PROVE  ByteInv'
<1>1. InControl /\ RecvInv /\ OpenInv /\ ~close_received /\ frame # NoFrame /\ frame.is_control
  BY LoopIsOpenInv DEF control_dispatched, InControl
<1>2. /\ control_taken \in Nat /\ control_taken <= len
      /\ len < prev_len \/ (len = prev_len /\ 0 < control_taken)
      /\ Len(control_bytes) \in Nat /\ frame.payload_len \in Nat
      /\ "FIRST" \notin fragment_info
  BY <1>1, ControlRead
<1>3. PICK h, f : /\ IsFrame(f) /\ f # NoFrame
                  /\ Reaches(stream, at + control_taken,
                             State(h, f, frame.payload_len - Len(control_bytes), stream_type,
                                   utf8.buf, control_bytes, out))
  BY <1>1, ControlRead, Zenon
<1>4. at' = at + control_taken /\ (pc' = "idle" \/ (pc' = "loop" /\ len' = prev_len' /\ 0 < len'))
  BY <1>1, <1>2, Moves DEF control_dispatched
<1>5. /\ stream' = stream /\ frame' = NoFrame /\ header' = [buf |-> << >>, needed |-> WS_FRAME_HEADER_MIN]
      /\ control' = << >>
      /\ utf8' = utf8 /\ stream_type' = stream_type /\ fragment_info' = fragment_info
      /\ close_received' = close_received /\ Len(control_bytes) = frame.payload_len
  BY DEF control_dispatched
<1> DEFINE name == IF frame.opcode = WS_OPCODE_PING THEN "on_ping" ELSE "on_pong"
           c == control_bytes
<1>6. /\ frame.opcode \in {WS_OPCODE_PING, WS_OPCODE_PONG}
      /\ Extends(out', out, Control(name, c))
  BY DEF control_dispatched, Extends, WS_OPCODE_PING, WS_OPCODE_PONG
<1>7. f.opcode = frame.opcode
  BY <1>3 DEF IsFrame
<1> HIDE DEF c
<1>8. Reaches(stream, at + control_taken, State(h, f, 0, stream_type, utf8.buf, c, out))
  <2>1. frame.payload_len - Len(control_bytes) = 0
    BY <1>2, <1>5
  <2> QED BY <1>3, <2>1, Zenon DEF c
<1>9. After(stream)[at + control_taken] = EndFrame(State(h, f, 0, stream_type, utf8.buf, c, out))
  <2>1. Settled(State(h, f, 0, stream_type, utf8.buf, c, out)) =
          EndFrame(State(h, f, 0, stream_type, utf8.buf, c, out))
    BY <1>3, SettledIs
  <2> QED BY <1>8, <2>1, Zenon DEF Reaches
<1>10. After(stream)[at + control_taken]
         = State(<< >>, NoFrame, 0, stream_type, utf8.buf, << >>, Append(out, Control(name, c)))
  <2>1. EndFrame(State(h, f, 0, stream_type, utf8.buf, c, out)) =
          State(<< >>, NoFrame, 0, stream_type, utf8.buf, << >>,
                Append(out, Control(IF f.opcode = WS_OPCODE_PING THEN "on_ping" ELSE "on_pong", c)))
    BY <1>6, <1>7, EndControl
  <2> QED BY <1>7, <1>9, <2>1, Zenon
<1>11. After(stream')[at'] = State(header'.buf, NoFrame, 0, stream_type', utf8'.buf, control', out')
  <2>1. header'.buf = << >> /\ out' = Append(out, Control(name, c))
    BY <1>5, <1>6 DEF Extends
  <2> QED BY <1>4, <1>5, <1>10, <2>1, Zenon
<1>12. LoopProceeds'
  BY <1>4, <1>5 DEF LoopProceeds
<1>13. CharacterWaits' /\ FlagsMatch'
  BY <1>1, <1>5, CharacterStays, FlagsStay DEF OpenInv
<1>14. HeaderWaits'
  BY <1>5, NoHeaderYet
<1>15. Together'
  BY <1>5, <1>11, Zenon DEF Together
<1> QED BY <1>1, <1>5, <1>12, <1>13, <1>14, <1>15, OpenAgain DEF OpenInv

\* A close frame that is complete.
LEMMA CloseTogether ==
  ASSUME ByteInv, ReceiverInv', close_handled
  PROVE  ByteInv'
<1>1. InControl /\ RecvInv /\ frame.opcode = WS_OPCODE_CLOSE /\ Len(control_bytes) = frame.payload_len
  BY LoopIsOpenInv DEF close_handled, InControl
<1>2. /\ control_taken \in Nat /\ control_taken <= len
      /\ Len(control_bytes) \in Nat /\ frame.payload_len \in Nat
  BY <1>1, ControlRead
<1>3. PICK h, f : /\ IsFrame(f) /\ f # NoFrame
                  /\ Reaches(stream, at + control_taken,
                             State(h, f, frame.payload_len - Len(control_bytes), stream_type,
                                   utf8.buf, control_bytes, out))
  BY <1>1, ControlRead, Zenon
<1> DEFINE c == control_bytes
<1>4. c \in Seq(Byte)
  BY <1>1, ControlBytes
<1>5. close_outcome(c) = close_result(c)
  BY <1>4, CloseAgrees
<1>6. stream' = stream /\ at' = at + len /\ close_received' /\ Extends(out', out, close_outcome(c))
  BY DEF close_handled, advance, Extends
<1> HIDE DEF c
<1>7. Reaches(stream, at + control_taken, State(h, f, 0, stream_type, utf8.buf, c, out))
  <2>1. frame.payload_len - Len(control_bytes) = 0
    BY <1>1, <1>2
  <2> QED BY <1>3, <2>1, Zenon DEF c
<1>8. After(stream)[at + control_taken] = EndFrame(State(h, f, 0, stream_type, utf8.buf, c, out))
  <2>1. Settled(State(h, f, 0, stream_type, utf8.buf, c, out)) =
          EndFrame(State(h, f, 0, stream_type, utf8.buf, c, out))
    BY <1>3, SettledIs
  <2> QED BY <1>7, <2>1, Zenon DEF Reaches
<1>9. Stops(EndFrame(State(h, f, 0, stream_type, utf8.buf, c, out)), out, close_result(c))
  <2>1. f.opcode = WS_OPCODE_CLOSE
    BY <1>1, <1>3 DEF IsFrame
  <2> QED BY <2>1, EndClose
<1>10. Stops(After(stream)[at + control_taken], out, close_outcome(c))
  BY <1>5, <1>8, <1>9, Zenon
<1>11. ReceiverInv
  BY DEF ByteInv
<1> QED BY <1>2, <1>6, <1>10, <1>11, EndsTogether

-------------------------------------------------------------------------------
(* Data frames *)

\* ByteReceiver has the frame f before it, as the receiver has.
Comes(h, f) ==
  /\ IsFrame(f) /\ f # NoFrame /\ ~f.is_control /\ f.opcode \in DataOpcodes
  /\ Reaches(stream, at, State(h, f, frame.payload_len, stream_type, utf8.buf, control, Heard))

\* What _process_data_frame starts from.
LEMMA DataRead ==
  ASSUME ByteInv, InData
  PROVE  /\ ReceiverInv /\ RecvInv /\ OpenInv /\ ~close_received /\ frame # NoFrame /\ ~frame.is_control
         /\ data_taken \in Nat /\ data_taken <= len /\ data_taken <= frame.payload_len
         /\ frame.payload_len \in Nat /\ stream \in Seq(Byte) /\ at \in Nat
         /\ at + data_taken <= Len(stream)
         /\ len < prev_len \/ (len = prev_len /\ 0 < data_taken)
         /\ control = << >> /\ header.buf = << >> /\ stream_type \in {"TEXT", "BINARY"}
         /\ utf8.buf \in Seq(Byte) /\ utf8.needed \in Nat
         /\ out \in Seq(Item) /\ Heard \in Seq(Item)
         /\ \E h, f : Comes(h, f)
<1>1. ReceiverInv /\ RecvInv /\ OpenInv /\ ~close_received /\ frame # NoFrame /\ ~frame.is_control
  BY LoopIsOpenInv DEF InData
<1>2. frame.payload_len \in Nat /\ len \in Nat /\ prev_len \in Nat
  BY <1>1 DEF RecvInv, FrameIsValid, InStream
<1>3. data_taken \in Nat /\ data_taken <= len /\ data_taken <= frame.payload_len
  BY <1>2 DEF data_taken, MinOf
<1>4. stream \in Seq(Byte) /\ at \in Nat /\ at + data_taken <= Len(stream)
  BY <1>1, <1>3, Bounds
<1>5. control = << >> /\ header.buf = << >>
  BY <1>1 DEF RecvInv, ControlFits, OpenInv, HeaderWaits
<1>6. Missing = frame.payload_len
  BY <1>1, <1>2 DEF Missing
<1>7. len < prev_len \/ (len = prev_len /\ 0 < data_taken)
  <2>1. len < prev_len \/ (len = prev_len /\ 0 < len /\ 0 < Missing)
    BY <1>1 DEF OpenInv, LoopProceeds, InData
  <2> QED BY <1>2, <1>6, <2>1 DEF data_taken, MinOf
<1>8. /\ frame.opcode \in DataOpcodes /\ stream_type \in {"TEXT", "BINARY"}
      /\ out \in Seq(Item)
  BY <1>1 DEF OpenInv, FlagsMatch, ReceiverInv, ToldInv
<1>9. Heard \in Seq(Item)
  <2>1. Started(stream_type) \in Item
    BY <1>8, Items
  <2> QED BY <1>8, <2>1 DEF Heard
<1>10. utf8.buf \in Seq(Byte) /\ utf8.needed \in Nat
  BY <1>1 DEF ReceiverInv, CharacterFits
<1>11. PICK h, f : IsFrame(f) /\ Reaches(stream, at,
                                         State(h, f, Missing, stream_type, utf8.buf, control, Heard))
  BY <1>1, Zenon DEF OpenInv, Together
<1>12. f # NoFrame /\ ~f.is_control /\ f.opcode \in DataOpcodes
  BY <1>1, <1>8, <1>11, SomeFrame DEF IsFrame
<1>13. Comes(h, f)
  BY <1>6, <1>11, <1>12, Zenon DEF Comes
<1> QED BY <1>1, <1>2, <1>3, <1>4, <1>5, <1>7, <1>8, <1>9, <1>10, <1>13, Zenon

\* The flags match while the connection is open.
OpenFlags == ~close_received => FlagsMatch

\* What a delivery starts from.
LEMMA PieceRead ==
  ASSUME ReceiverInv, OpenFlags, data_delivered
  PROVE  /\ RecvInv /\ FlagsMatch /\ ~close_received /\ frame # NoFrame /\ ~frame.is_control
         /\ stream_type \in {"TEXT", "BINARY"} /\ data_result.send \in Seq(Byte)
         /\ out \in Seq(Item) /\ Heard \in Seq(Item)
         /\ "LAST" \notin fragment_info
<1>1. InData /\ data_result.ok /\ pc = "loop"
  BY DEF data_delivered, InData
<1>2. RecvInv /\ ~close_received /\ FlagsMatch /\ frame # NoFrame /\ ~frame.is_control
  BY <1>1 DEF InData, ReceiverInv, RecvInv, LoopIsOpen, OpenFlags
<1>3. data_result.send \in Seq(Byte)
  BY <1>1, <1>2, TextSent DEF ReceiverInv
<1>4. stream_type \in {"TEXT", "BINARY"} /\ out \in Seq(Item)
  BY <1>2 DEF ReceiverInv, ToldInv, FlagsMatch
<1>5. Heard \in Seq(Item)
  <2>1. Started(stream_type) \in Item
    BY <1>4, Items
  <2> QED BY <1>4, <2>1 DEF Heard
<1> QED BY <1>2, <1>3, <1>4, <1>5 DEF FlagsMatch

\* What a delivery tells.
LEMMA PieceTold ==
  ASSUME ReceiverInv, OpenFlags, data_delivered
  PROVE  /\ "LAST" \notin data_info => out' = Heard \o DataBytes(data_result.send)
         /\ "LAST" \in data_info => out' = Append(Heard \o DataBytes(data_result.send), Ended)
<1> DEFINE d == DataBytes(data_result.send)
           o == Heard \o d
           a == IF "FIRST" \in data_info THEN <<Started(stream_type)>> ELSE << >>
           z == IF "LAST" \in data_info THEN <<Ended>> ELSE << >>
<1>1. out \in Seq(Item) /\ stream_type \in {"TEXT", "BINARY"} /\ Heard \in Seq(Item)
      /\ data_result.send \in Seq(Byte)
  BY PieceRead
<1>2. d \in Seq(Item)
  BY <1>1, DataItems
<1>3. "FIRST" \in data_info <=> "FIRST" \in fragment_info
  BY DEF data_info
<1>4. out \o a = Heard
  BY <1>1, <1>3 DEF Heard
<1>5. o \in Seq(Item)
  <2> HIDE DEF d
  <2> QED BY <1>1, <1>2
<1>6. CASE has_something
  <2>1. out' = out \o a \o d \o z
    BY <1>6 DEF data_delivered, on_fragment
  <2>2. out' = o \o z
    <3> HIDE DEF a, d, z
    <3> QED BY <1>4, <2>1
  <2> HIDE DEF o
  <2> QED BY <1>5, <2>2 DEF o
<1>7. CASE ~has_something
  <2>1. out' = out /\ data_result.send = << >> /\ "FIRST" \notin data_info /\ "LAST" \notin data_info
    BY <1>7 DEF data_delivered, has_something
  <2>2. d = << >>
    BY <2>1, NoDataBytes
  <2>3. Heard = out
    BY <1>3, <2>1 DEF Heard
  <2> HIDE DEF d
  <2> QED BY <1>1, <2>1, <2>2, <2>3 DEF d
<1> QED BY <1>6, <1>7

\* So it does where both know where they are.
LEMMA ToldOfData ==
  ASSUME ByteInv, data_delivered
  PROVE  /\ "LAST" \notin data_info => out' = Heard \o DataBytes(data_result.send)
         /\ "LAST" \in data_info => out' = Append(Heard \o DataBytes(data_result.send), Ended)
<1>1. ReceiverInv /\ OpenFlags
  BY DEF ByteInv, OpenFlags
<1> QED BY <1>1, PieceTold

\* The last frame of a message ends it, or breaks off a character.
LEMMA MessageEnds ==
  ASSUME NEW h, NEW f, NEW l, NEW t, NEW held, NEW ctl, NEW o, f.opcode \in DataOpcodes, f.fin
  PROVE  LET r == EndFrame(State(h, f, l, t, held, ctl, o))
         IN  /\ held = << >> => r = State(<< >>, NoFrame, l, "none", held, << >>, Append(o, Ended))
             /\ held # << >> => Stops(r, o, Failed(1007))
BY EndData

\* What both know after a delivery, if ByteReceiver has read the same bytes.
LEMMA Delivers ==
  ASSUME ByteInv, ReceiverInv', data_delivered, NEW h, NEW f, Comes(h, f),
         data_result.send \in Seq(Byte),
         Reaches(stream, at + data_taken,
                 State(h, f, frame.payload_len - data_taken, stream_type, utf8'.buf, control,
                       Heard \o DataBytes(data_result.send))),
         utf8'.needed = 0 => utf8'.buf = << >>,
         utf8'.needed # 0 => /\ stream_type = "TEXT" /\ utf8'.buf # << >> /\ IsCharStart(utf8'.buf)
                             /\ utf8'.needed = utf8_len(utf8'.buf[1]) - Len(utf8'.buf)
                             /\ "LAST" \notin data_info
  PROVE  ByteInv'
<1>1. InData
  BY DEF data_delivered
<1>2. /\ RecvInv /\ OpenInv /\ ~close_received /\ frame # NoFrame /\ ~frame.is_control
      /\ data_taken \in Nat /\ data_taken <= len /\ data_taken <= frame.payload_len
      /\ frame.payload_len \in Nat
      /\ len < prev_len \/ (len = prev_len /\ 0 < data_taken)
      /\ control = << >> /\ header.buf = << >> /\ stream_type \in {"TEXT", "BINARY"}
  BY <1>1, DataRead, Zenon
<1> DEFINE o == Heard \o DataBytes(data_result.send)
           n == frame.payload_len - data_taken
           u == utf8'.buf
<1>3. n \in Nat /\ data_left = n
  BY <1>2 DEF data_left
<1>4. /\ "LAST" \notin data_info => out' = o
      /\ "LAST" \in data_info => out' = Append(o, Ended)
  BY ToldOfData
<1>5. "LAST" \in data_info <=> n = 0 /\ frame.fin
  <2>1. "LAST" \notin fragment_info
    BY <1>2 DEF OpenInv, FlagsMatch
  <2> QED BY <1>3, <2>1 DEF data_info
<1>6. at' = at + data_taken /\ (pc' = "idle" \/ (pc' = "loop" /\ len' = prev_len' /\ 0 < len'))
  BY <1>2, Moves DEF data_delivered
<1>7. /\ stream' = stream /\ header' = header /\ control' = control /\ close_received' = close_received
      /\ fragment_info' = IF "LAST" \in data_info THEN {}
                          ELSE (data_info \ {"BINARY", "TEXT", "FIRST"}) \cup {"CONT"}
      /\ stream_type' = IF "LAST" \in data_info THEN "none" ELSE stream_type
      /\ frame' = IF n = 0 THEN NoFrame ELSE [frame EXCEPT !.payload_len = n]
  BY <1>3 DEF data_delivered
<1>8. /\ f # NoFrame /\ ~f.is_control /\ f.opcode \in DataOpcodes
      /\ f.opcode = frame.opcode /\ f.fin = frame.fin /\ f.is_control = frame.is_control
  BY DEF Comes, IsFrame
<1>9. Reaches(stream, at', State(h, f, n, stream_type, u, control, o))
  BY <1>6, Zenon
<1>10. "FIRST" \notin fragment_info' /\ Heard' = out'
  BY <1>7 DEF Heard
<1>11. CharacterWaits'
  <2>1. utf8'.needed # 0 => stream_type' = "TEXT"
    BY <1>7
  <2> QED BY <1>10, <2>1 DEF CharacterWaits
<1>12. HeaderWaits'
  BY <1>2, <1>7 DEF OpenInv, HeaderWaits, header_needed
<1>13. fragment_info \subseteq {"FIRST", "CONT", "TEXT", "BINARY"}
       /\ frame.opcode \in DataOpcodes \cup ControlOpcodes
       /\ (frame.is_control <=> frame.opcode \in ControlOpcodes)
       /\ frame \in [opcode : {-1} \cup DataOpcodes \cup ControlOpcodes, fin : BOOLEAN,
                     is_control : BOOLEAN, payload_len : Nat]
  BY <1>2 DEF OpenInv, FlagsMatch, RecvInv, FrameIsValid
<1> HIDE DEF o, n, u
<1>14. CASE n # 0
  <2>1. /\ "LAST" \notin data_info /\ stream_type' = stream_type /\ out' = o
        /\ fragment_info' = (data_info \ {"BINARY", "TEXT", "FIRST"}) \cup {"CONT"}
        /\ data_info = fragment_info
    BY <1>3, <1>4, <1>5, <1>7, <1>14 DEF data_info
  <2>2. frame' = [frame EXCEPT !.payload_len = n]
    BY <1>7, <1>14
  <2>3. frame'.opcode = frame.opcode /\ frame'.fin = frame.fin /\ frame'.is_control = frame.is_control
        /\ frame'.payload_len = n
    BY <1>13, <2>2
  <2>4. frame' # NoFrame
    BY <1>13, <2>3, SomeFrame
  <2>5. FlagsMatch'
    BY <1>2, <1>13, <2>1, <2>3, <2>4 DEF FlagsMatch
  <2>6. Missing' = n /\ 0 < n
    BY <1>2, <1>3, <1>14, <2>3 DEF Missing
  <2>7. LoopProceeds'
    BY <1>6, <1>10, <2>6 DEF LoopProceeds
  <2>8. Together'
    <3>1. Reaches(stream', at', State(h, f, Missing', stream_type', utf8'.buf, control', Heard'))
      BY <1>7, <1>9, <1>10, <2>1, <2>6, Zenon DEF u
    <3>2. IsFrame(f)'
      BY <1>8, <2>3 DEF IsFrame
    <3> QED BY <2>4, <3>1, <3>2, Zenon DEF Together
  <2> QED BY <1>2, <1>7, <1>11, <1>12, <2>5, <2>7, <2>8, OpenAgain DEF OpenInv
<1>15. CASE n = 0
  <2>1. frame' = NoFrame
    BY <1>7, <1>15
  <2>2. LoopProceeds'
    BY <1>6, <2>1 DEF LoopProceeds
  <2>3. FlagsMatch'
    <3>1. data_info \subseteq {"FIRST", "CONT", "TEXT", "BINARY", "LAST"}
      BY <1>13 DEF data_info
    <3> QED BY <1>2, <1>7, <1>10, <2>1, <3>1 DEF FlagsMatch
  <2> DEFINE s == State(h, f, 0, stream_type, u, control, o)
             r == EndFrame(s)
  <2>4. After(stream)[at'] = r
    <3>1. Settled(s) = r
      BY <1>8, SettledIs
    <3> HIDE DEF r, s
    <3>2. Reaches(stream, at', s)
      BY <1>9, <1>15, Zenon DEF s
    <3> QED BY <3>1, <3>2, Zenon DEF Reaches
  <2>5. After(stream)[at'] = State(<< >>, NoFrame, 0, stream_type', u, << >>, out')
    <3>1. CASE ~frame.fin
      <4>1. r = State(<< >>, NoFrame, 0, stream_type, u, << >>, o)
        BY <1>8, <3>1, EndData
      <4>2. stream_type' = stream_type /\ out' = o
        BY <1>4, <1>5, <1>7, <3>1
      <4> HIDE DEF r
      <4> QED BY <2>4, <4>1, <4>2, Zenon
    <3>2. CASE frame.fin
      <4>1. "LAST" \in data_info /\ u = << >>
        BY <1>5, <1>15, <3>2 DEF u
      <4>2. r = State(<< >>, NoFrame, 0, "none", u, << >>, Append(o, Ended))
        <5>1. f.opcode \in DataOpcodes /\ f.fin /\ u = << >>
          BY <1>8, <3>2, <4>1
        <5> QED BY <5>1, MessageEnds
      <4>3. stream_type' = "none" /\ out' = Append(o, Ended)
        BY <1>4, <1>7, <4>1
      <4> HIDE DEF r
      <4> QED BY <2>4, <4>2, <4>3, Zenon
    <3> QED BY <3>1, <3>2
  <2>6. After(stream')[at'] = State(header'.buf, NoFrame, 0, stream_type', utf8'.buf, control', out')
    BY <1>2, <1>7, <2>5, Zenon DEF u
  <2>7. Together'
    BY <2>1, <2>6, Zenon DEF Together
  <2> QED BY <1>2, <1>7, <1>11, <1>12, <2>2, <2>3, <2>7, OpenAgain DEF OpenInv
<1> QED BY <1>14, <1>15

\* Bytes of the stream, within others.
LEMMA PartOfBytes ==
  \A s \in Seq(Byte), a \in Nat, k \in Nat, j \in Nat :
    a + k <= Len(s) /\ j <= k =>
      /\ SubSeq(Part(s, a, k), 1, j) = Part(s, a, j)
      /\ SubSeq(Part(s, a, k), j + 1, k) = Part(s, a + j, k - j)
<1> TAKE s \in Seq(Byte), a \in Nat, k \in Nat, j \in Nat
<1> HAVE a + k <= Len(s) /\ j <= k
<1>1. SubSeq(Part(s, a, k), 1, j) = Part(s, a, j)
  BY DEF Part
<1>2. SubSeq(Part(s, a, k), j + 1, k) = Part(s, a + j, k - j)
  BY DEF Part
<1> QED BY <1>1, <1>2, Zenon

\* The bytes that are taken are those behind the ones consumed.
LEMMA TakenIsPart ==
  ASSUME ByteInv, InData
  PROVE  /\ Taken(data_taken) = Part(stream, at, data_taken)
         /\ Part(stream, at, data_taken) \in Seq(Byte) /\ Len(Part(stream, at, data_taken)) = data_taken
         /\ \A j \in Nat : j <= data_taken =>
              /\ SubSeq(Taken(data_taken), 1, j) = Part(stream, at, j)
              /\ SubSeq(Taken(data_taken), j + 1, data_taken) = Part(stream, at + j, data_taken - j)
              /\ at + j \in Nat /\ at + j <= Len(stream)
<1> DEFINE k == data_taken
<1>1. k \in Nat /\ stream \in Seq(Byte) /\ at \in Nat /\ at + k <= Len(stream) /\ k <= len /\ RecvInv
  BY DataRead
<1>2. Taken(k) = Part(stream, at, k)
  BY Zenon DEF Taken, Part
<1> HIDE DEF k
<1>3. Part(stream, at, k) \in Seq(Byte) /\ Len(Part(stream, at, k)) = k
  BY <1>1, PartIs
<1>4. ASSUME NEW j \in Nat, j <= k
      PROVE  /\ SubSeq(Taken(k), 1, j) = Part(stream, at, j)
             /\ SubSeq(Taken(k), j + 1, k) = Part(stream, at + j, k - j)
             /\ at + j \in Nat /\ at + j <= Len(stream)
  <2>1. /\ SubSeq(Part(stream, at, k), 1, j) = Part(stream, at, j)
        /\ SubSeq(Part(stream, at, k), j + 1, k) = Part(stream, at + j, k - j)
    BY <1>1, <1>4, PartOfBytes
  <2>4. at + j \in Nat /\ at + j <= Len(stream)
    BY <1>1, <1>4, Bounds
  <2> QED BY <1>2, <2>1, <2>4, Zenon
<1> QED BY <1>2, <1>3, <1>4 DEF k

\* Data of a binary message.
LEMMA BinaryTogether ==
  ASSUME ByteInv, ReceiverInv', data_delivered, stream_type = "BINARY"
  PROVE  ByteInv'
<1>1. InData
  BY DEF data_delivered
<1> DEFINE k == data_taken
           p == frame.payload_len
<1>2. /\ RecvInv /\ OpenInv /\ k \in Nat /\ k <= p /\ p \in Nat /\ stream \in Seq(Byte) /\ at \in Nat
      /\ at + k <= Len(stream) /\ Heard \in Seq(Item)
  BY <1>1, DataRead, Zenon
<1>3. PICK h, f : Comes(h, f)
  BY <1>1, DataRead, Zenon
<1>4. data_result.send = Part(stream, at, k) /\ utf8' = utf8
  <2>1. data_result = TextOk(Taken(k), utf8)
    BY DEF data_result
  <2>2. Taken(k) = Part(stream, at, k)
    BY <1>1, TakenIsPart
  <2>3. data_result.send = Taken(k) /\ data_result.utf8 = utf8
    BY <2>1 DEF TextOk
  <2> QED BY <2>2, <2>3 DEF data_delivered
<1>5. Part(stream, at, k) \in Seq(Byte)
  BY <1>1, TakenIsPart
<1>6. utf8.needed = 0 /\ utf8.buf = << >>
  BY <1>2 DEF OpenInv, CharacterWaits
<1> HIDE DEF k, p
<1>7. Reaches(stream, at + k,
              State(h, f, p - k, "BINARY", utf8.buf, control, Heard \o DataBytes(Part(stream, at, k))))
  <2>1. Reaches(stream, at, State(h, f, p, "BINARY", utf8.buf, control, Heard))
        /\ f # NoFrame /\ ~f.is_control
    BY <1>3 DEF Comes, p
  <2> QED BY <1>2, <2>1, BinaryRun
<1>8. Reaches(stream, at + k,
              State(h, f, p - k, stream_type, utf8'.buf, control, Heard \o DataBytes(data_result.send)))
  BY <1>4, <1>7, Zenon
<1>9. data_result.send \in Seq(Byte)
  BY <1>4, <1>5
<1>10. (utf8'.needed = 0 => utf8'.buf = << >>) /\ ~(utf8'.needed # 0)
  BY <1>4, <1>6
<1> QED BY <1>3, <1>8, <1>9, <1>10, Delivers DEF k, p

\* Text, of which the bytes taken are whole characters.
LEMMA TextTogether ==
  ASSUME ByteInv, ReceiverInv', data_delivered, stream_type = "TEXT", utf8.needed = 0,
         IsText(Part(stream, at, data_taken)), data_result.send = Part(stream, at, data_taken),
         utf8' = utf8
  PROVE  ByteInv'
<1>1. InData
  BY DEF data_delivered
<1> DEFINE k == data_taken
           p == frame.payload_len
<1>2. /\ RecvInv /\ OpenInv /\ k \in Nat /\ k <= p /\ p \in Nat /\ stream \in Seq(Byte) /\ at \in Nat
      /\ at + k <= Len(stream) /\ Heard \in Seq(Item)
  BY <1>1, DataRead, Zenon
<1>3. PICK h, f : Comes(h, f)
  BY <1>1, DataRead, Zenon
<1>4. Part(stream, at, k) \in Seq(Byte)
  BY <1>1, TakenIsPart
<1>5. utf8.buf = << >>
  BY <1>2 DEF OpenInv, CharacterWaits
<1> HIDE DEF k, p
<1>6. Reaches(stream, at + k,
              State(h, f, p - k, "TEXT", << >>, control, Heard \o DataBytes(Part(stream, at, k))))
  <2>1. Reaches(stream, at, State(h, f, p, "TEXT", << >>, control, Heard)) /\ f # NoFrame /\ ~f.is_control
    BY <1>3, <1>5, Zenon DEF Comes, p
  <2>2. IsText(Part(stream, at, k))
    BY DEF k
  <2> QED BY <1>2, <2>1, <2>2, TextRun
<1>7. Reaches(stream, at + k,
              State(h, f, p - k, stream_type, utf8'.buf, control, Heard \o DataBytes(data_result.send)))
  <2>1. data_result.send = Part(stream, at, k) /\ utf8'.buf = << >>
    BY <1>5 DEF k
  <2> QED BY <1>6, <2>1, Zenon
<1>8. data_result.send \in Seq(Byte)
  BY <1>4 DEF k
<1>9. (utf8'.needed = 0 => utf8'.buf = << >>) /\ ~(utf8'.needed # 0)
  BY <1>5
<1> QED BY <1>3, <1>7, <1>8, <1>9, Delivers DEF k, p

\* Text that is cut within a character.
LEMMA CutTogether ==
  ASSUME ByteInv, ReceiverInv', data_delivered, stream_type = "TEXT", utf8.needed = 0, ~TextStrays,
         NEW n \in Nat, n < data_taken, IsText(Part(stream, at, n)),
         data_result.send = Part(stream, at, n),
         utf8'.buf = Part(stream, at + n, data_taken - n),
         utf8'.needed = utf8_len(utf8'.buf[1]) - Len(utf8'.buf),
         Len(utf8'.buf) < utf8_len(utf8'.buf[1])
  PROVE  ByteInv'
<1>1. InData
  BY DEF data_delivered
<1> DEFINE k == data_taken
           p == frame.payload_len
           m == k - n
           a == at + n
           c == Part(stream, a, m)
<1>2. /\ RecvInv /\ OpenInv /\ k \in Nat /\ k <= p /\ p \in Nat /\ stream \in Seq(Byte) /\ at \in Nat
      /\ at + k <= Len(stream) /\ Heard \in Seq(Item)
  BY <1>1, DataRead, Zenon
<1>3. PICK h, f : Comes(h, f)
  BY <1>1, DataRead, Zenon
<1>4. m \in Nat /\ 0 < m /\ a \in Nat /\ a + m = at + k /\ n <= p /\ p - n \in Nat /\ m <= p - n
      /\ (p - n) - m = p - k /\ n < k
  BY <1>2
<1>5. utf8.buf = << >>
  BY <1>2 DEF OpenInv, CharacterWaits
<1>6. at + n <= Len(stream) /\ a + m <= Len(stream)
  <2>1. n <= data_taken
    BY <1>2, <1>4
  <2>2. at + n <= Len(stream)
    BY <1>1, <2>1, TakenIsPart
  <2> QED BY <1>2, <1>4, <2>2
<1>7. Part(stream, at, n) \in Seq(Byte)
  BY <1>2, <1>6, PartIs
<1>8. c \in Seq(Byte) /\ Len(c) = m /\ c # << >>
  <2>1. c \in Seq(Byte) /\ Len(c) = m
    <3>1. stream \in Seq(Byte) /\ a \in Nat /\ m \in Nat /\ a + m <= Len(stream)
      BY <1>2, <1>4, <1>6
    <3> HIDE DEF m, a
    <3> QED BY <3>1, PartIs, Zenon
  <2>2. c # << >>
    <3> HIDE DEF c
    <3> QED BY <1>4, <2>1, EmptySeq
  <2> QED BY <2>1, <2>2
<1>9. utf8'.buf = c
  OBVIOUS
<1>10. utf8_len(c[1]) \in 0..4
  BY CharacterLength
<1> HIDE DEF c
<1>11. utf8'.needed # 0
  BY <1>4, <1>8, <1>9, <1>10
<1>12. IsCharStart(c) /\ "LAST" \notin data_info
  BY <1>9, <1>11 DEF TextStrays
<1> HIDE DEF k, p, m, a
<1>13. Reaches(stream, a, State(h, f, p - n, "TEXT", << >>, control, Heard \o DataBytes(Part(stream, at, n))))
  <2>1. Reaches(stream, at, State(h, f, p, "TEXT", << >>, control, Heard)) /\ f # NoFrame /\ ~f.is_control
    BY <1>3, <1>5, Zenon DEF Comes, p
  <2>2. Reaches(stream, at + n,
                State(h, f, p - n, "TEXT", << >>, control, Heard \o DataBytes(Part(stream, at, n))))
    BY <1>2, <1>4, <1>6, <2>1, TextRun
  <2> QED BY <2>2, Zenon DEF a
<1>14. Reaches(stream, a + m,
               State(h, f, (p - n) - m, "TEXT", c, control, Heard \o DataBytes(Part(stream, at, n))))
  <2>1. Behind(<< >>, stream, a, m) = c
    <3>1. << >> \o c = c
      BY <1>8
    <3> QED BY <3>1, Zenon DEF Behind, c
  <2>2. << >> \in Seq(Byte)
    OBVIOUS
  <2>3. f # NoFrame /\ ~f.is_control
    BY <1>3 DEF Comes
  <2> DEFINE o == Heard \o DataBytes(Part(stream, at, n))
             e == << >>
  <2>4. Reaches(stream, a, State(h, f, p - n, "TEXT", e, control, o)) /\ e \in Seq(Byte)
        /\ Behind(e, stream, a, m) = c
    BY <1>13, <2>1, <2>2, Zenon
  <2> HIDE DEF o, e
  <2>5. IsCharStart(Behind(e, stream, a, m))
    BY <1>12, <2>4, Zenon
  <2>6. Reaches(stream, a + m, State(h, f, (p - n) - m, "TEXT", Behind(e, stream, a, m), control, o))
    BY <1>2, <1>4, <1>6, <2>3, <2>4, <2>5, StartRun
  <2> QED BY <2>4, <2>6, Zenon DEF o
<1>15. Reaches(stream, at + k,
               State(h, f, p - k, stream_type, utf8'.buf, control, Heard \o DataBytes(data_result.send)))
  <2>1. data_result.send = Part(stream, at, n)
    OBVIOUS
  <2> QED BY <1>4, <1>9, <1>14, <2>1, Zenon
<1>16. data_result.send \in Seq(Byte)
  BY <1>7
<1>17. utf8'.needed # 0 => /\ stream_type = "TEXT" /\ utf8'.buf # << >> /\ IsCharStart(utf8'.buf)
                           /\ utf8'.needed = utf8_len(utf8'.buf[1]) - Len(utf8'.buf)
                           /\ "LAST" \notin data_info
  BY <1>8, <1>9, <1>12
<1>18. utf8'.needed = 0 => utf8'.buf = << >>
  BY <1>11
<1> QED BY <1>3, <1>15, <1>16, <1>17, <1>18, Delivers DEF k, p

\* No data adds nothing to what was told.
LEMMA NothingMore ==
  ASSUME NEW o \in Seq(Item)
  PROVE  o \o DataBytes(<< >>) = o
<1> DEFINE d == DataBytes(<< >>)
<1>1. d = << >>
  BY NoDataBytes
<1> HIDE DEF d
<1>2. o \o d = o
  BY <1>1
<1> QED BY <1>2 DEF d

\* What complete_character has after the bytes that arrive.
LEMMA CharacterRead ==
  ASSUME ByteInv, InData, stream_type = "TEXT", utf8.needed # 0,
         NEW m, m = MinOf(utf8.needed, data_taken)
  PROVE  /\ m \in Nat /\ m <= data_taken /\ m <= utf8.needed
         /\ m = utf8.needed \/ m = data_taken
         /\ utf8.buf \in Seq(Byte) /\ utf8.buf # << >> /\ IsCharStart(utf8.buf)
         /\ "FIRST" \notin fragment_info
         /\ utf8.buf \o SubSeq(Taken(data_taken), 1, m) = Behind(utf8.buf, stream, at, m)
         /\ \A j \in Nat : j <= m =>
              LET c == Behind(utf8.buf, stream, at, j)
              IN  /\ c \in Seq(Byte) /\ c # << >> /\ c[1] = utf8.buf[1]
                  /\ 0 < Len(c) /\ utf8_len(c[1]) - Len(c) = utf8.needed - j
<1>1. /\ OpenInv /\ data_taken \in Nat /\ stream \in Seq(Byte) /\ at \in Nat
      /\ utf8.buf \in Seq(Byte) /\ utf8.needed \in Nat
  BY DataRead
<1>2. /\ "FIRST" \notin fragment_info /\ utf8.buf # << >> /\ IsCharStart(utf8.buf)
      /\ utf8.needed = utf8_len(utf8.buf[1]) - Len(utf8.buf)
  BY <1>1 DEF OpenInv, CharacterWaits
<1>3. m \in Nat /\ m <= data_taken /\ m <= utf8.needed /\ (m = utf8.needed \/ m = data_taken)
  BY <1>1 DEF MinOf
<1>4. utf8.buf \o SubSeq(Taken(data_taken), 1, m) = Behind(utf8.buf, stream, at, m)
  <2>1. SubSeq(Taken(data_taken), 1, m) = Part(stream, at, m)
    BY <1>3, TakenIsPart
  <2> QED BY <2>1, Zenon DEF Behind
<1> DEFINE b == utf8.buf
           n == Len(b)
<1>5. n \in Nat /\ 0 < n
  BY <1>1, <1>2, LenProperties, EmptySeq
<1>6. utf8_len(b[1]) \in 0..4
  BY CharacterLength
<1> HIDE DEF b, n
<1>7. ASSUME NEW j \in Nat, j <= m
      PROVE  LET c == Behind(b, stream, at, j)
             IN  /\ c \in Seq(Byte) /\ c # << >> /\ c[1] = b[1]
                 /\ 0 < Len(c) /\ utf8_len(c[1]) - Len(c) = utf8.needed - j
  <2> DEFINE c == Behind(b, stream, at, j)
  <2>1. at + j <= Len(stream)
    <3>1. j <= data_taken
      BY <1>1, <1>3, <1>7
    <3> QED BY <3>1, TakenIsPart
  <2>2. c \in Seq(Byte) /\ Len(c) = n + j /\ ConsistsOf(c, b, stream, at, j)
    <3>1. b \in Seq(Byte)
      BY <1>1 DEF b
    <3> QED BY <1>1, <1>7, <2>1, <3>1, BehindIs DEF n
  <2> HIDE DEF c
  <2>3. c[1] = b[1]
    <3>1. 1 \in 1..n + j /\ 1 <= n
      BY <1>5, <1>7
    <3>2. c[1] = Element(b, stream, at, 1)
      BY <2>2, <3>1 DEF ConsistsOf, n
    <3> QED BY <3>1, <3>2 DEF Element, n
  <2>4. 0 < Len(c)
    BY <1>5, <1>7, <2>2
  <2>5. c # << >>
    BY <2>4, EmptySeq
  <2>6. utf8_len(c[1]) - Len(c) = utf8.needed - j
    <3> DEFINE l == utf8_len(b[1])
    <3>1. utf8.needed = l - n /\ l \in 0..4
      BY <1>2, <1>6 DEF b, n
    <3>2. utf8_len(c[1]) = l
      BY <2>3
    <3> HIDE DEF l
    <3> QED BY <1>5, <1>7, <2>2, <3>1, <3>2
  <2> QED BY <2>2, <2>3, <2>4, <2>5, <2>6, Zenon DEF c
<1> QED BY <1>1, <1>2, <1>3, <1>4, <1>7, Zenon DEF b

\* The character that was cut is still not complete.
LEMMA StillCutTogether ==
  ASSUME ByteInv, ReceiverInv', data_delivered, stream_type = "TEXT", utf8.needed # 0, ~TextStrays,
         data_taken <= utf8.needed, data_result.send = << >>,
         utf8'.buf = Behind(utf8.buf, stream, at, data_taken),
         utf8'.needed = utf8.needed - data_taken, utf8'.needed # 0
  PROVE  ByteInv'
<1>1. InData
  BY DEF data_delivered
<1> DEFINE k == data_taken
           p == frame.payload_len
           c == Behind(utf8.buf, stream, at, k)
<1>2. /\ k \in Nat /\ k <= p /\ p \in Nat /\ stream \in Seq(Byte) /\ at \in Nat
      /\ at + k <= Len(stream) /\ Heard \in Seq(Item) /\ utf8.buf \in Seq(Byte) /\ utf8.needed \in Nat
  BY <1>1, DataRead, Zenon
<1>3. PICK h, f : Comes(h, f)
  BY <1>1, DataRead, Zenon
<1>4. k = MinOf(utf8.needed, data_taken)
  BY <1>2 DEF MinOf
<1>5. c # << >> /\ utf8_len(c[1]) - Len(c) = utf8.needed - k
  <2>1. k <= k
    BY <1>2
  <2> HIDE DEF c
  <2>2. \A j \in Nat : j <= k =>
              LET e == Behind(utf8.buf, stream, at, j)
              IN  e # << >> /\ utf8_len(e[1]) - Len(e) = utf8.needed - j
    <3> HIDE DEF k
    <3> QED BY <1>1, <1>4, CharacterRead, Zenon
  <2> HIDE DEF k
  <2> QED BY <1>2, <2>1, <2>2, Zenon DEF c
<1> HIDE DEF c
<1>6. utf8'.buf = c
  BY DEF c
<1>7. IsCharStart(c) /\ "LAST" \notin data_info
  BY <1>6 DEF TextStrays
<1>8. Reaches(stream, at + k, State(h, f, p - k, "TEXT", c, control, Heard))
  <2>1. Reaches(stream, at, State(h, f, p, "TEXT", utf8.buf, control, Heard)) /\ f # NoFrame /\ ~f.is_control
    BY <1>3, Zenon DEF Comes
  <2> HIDE DEF k, p
  <2> QED BY <1>2, <1>7, <2>1, StartRun DEF c
<1>9. Heard \o DataBytes(data_result.send) = Heard
  <2>1. Heard \o DataBytes(<< >>) = Heard
    BY <1>2, NothingMore
  <2> QED BY <2>1, Zenon
<1> HIDE DEF k, p
<1>10. Reaches(stream, at + k, State(h, f, p - k, stream_type, utf8'.buf, control,
                                     Heard \o DataBytes(data_result.send)))
  BY <1>6, <1>8, <1>9, Zenon
<1>11. data_result.send \in Seq(Byte)
  OBVIOUS
<1>12. utf8'.needed # 0 => /\ stream_type = "TEXT" /\ utf8'.buf # << >> /\ IsCharStart(utf8'.buf)
                           /\ utf8'.needed = utf8_len(utf8'.buf[1]) - Len(utf8'.buf)
                           /\ "LAST" \notin data_info
  BY <1>5, <1>6, <1>7 DEF k
<1> QED BY <1>3, <1>10, <1>11, <1>12, Delivers DEF k, p

\* The character that was cut is complete.
LEMMA WholeTogether ==
  ASSUME ByteInv, ReceiverInv', data_delivered, stream_type = "TEXT", utf8.needed # 0,
         data_taken = utf8.needed,
         data_result.send = Behind(utf8.buf, stream, at, data_taken),
         utf8_validate(data_result.send).rv = 0,
         utf8_validate(data_result.send).len = Len(data_result.send),
         utf8' = [buf |-> << >>, needed |-> 0]
  PROVE  ByteInv'
<1>1. InData
  BY DEF data_delivered
<1> DEFINE k == data_taken
           p == frame.payload_len
           c == Behind(utf8.buf, stream, at, k)
<1>2. /\ k \in Nat /\ k <= p /\ p \in Nat /\ stream \in Seq(Byte) /\ at \in Nat
      /\ at + k <= Len(stream) /\ utf8.buf \in Seq(Byte) /\ utf8.needed \in Nat
  BY <1>1, DataRead, Zenon
<1>3. PICK h, f : Comes(h, f)
  BY <1>1, DataRead, Zenon
<1>4. k = MinOf(utf8.needed, data_taken)
  BY <1>2 DEF MinOf
<1>5. c \in Seq(Byte) /\ 0 < Len(c) /\ utf8_len(c[1]) - Len(c) = utf8.needed - k
  <2>1. k <= k
    BY <1>2
  <2> HIDE DEF c
  <2>2. \A j \in Nat : j <= k =>
              LET e == Behind(utf8.buf, stream, at, j)
              IN  e \in Seq(Byte) /\ 0 < Len(e) /\ utf8_len(e[1]) - Len(e) = utf8.needed - j
    <3> HIDE DEF k
    <3> QED BY <1>1, <1>4, CharacterRead, Zenon
  <2> HIDE DEF k
  <2> QED BY <1>2, <2>1, <2>2, Zenon DEF c
<1> HIDE DEF c
<1>6. data_result.send = c
  BY DEF c
<1>7. Len(c) = utf8_len(c[1])
  <2>1. utf8_len(c[1]) \in 0..4 /\ Len(c) \in Nat
    BY <1>5, CharacterLength, LenProperties
  <2>2. utf8.needed - k = 0
    BY <1>2
  <2> QED BY <1>5, <2>1, <2>2
<1>8. IsChar(c)
  <2>1. utf8_validate(c).rv = 0 /\ utf8_validate(c).len = Len(c)
    BY <1>6, Zenon
  <2> QED BY <1>5, <1>7, <2>1, CharAccepted
<1>9. Reaches(stream, at + k, State(h, f, p - k, "TEXT", << >>, control, Heard \o DataBytes(c)))
  <2>1. Reaches(stream, at, State(h, f, p, "TEXT", utf8.buf, control, Heard)) /\ f # NoFrame /\ ~f.is_control
    BY <1>3, Zenon DEF Comes
  <2>2. 0 < k
    BY <1>2
  <2>3. IsChar(Behind(utf8.buf, stream, at, k))
    BY <1>8 DEF c
  <2> HIDE DEF k, p
  <2> QED BY <1>2, <2>1, <2>2, <2>3, CharRun DEF c
<1> HIDE DEF k, p
<1>10. utf8'.buf = << >> /\ utf8'.needed = 0
  OBVIOUS
<1>11. Reaches(stream, at + k, State(h, f, p - k, stream_type, utf8'.buf, control,
                                     Heard \o DataBytes(data_result.send)))
  BY <1>6, <1>9, <1>10, Zenon
<1>12. data_result.send \in Seq(Byte)
  BY <1>5, <1>6
<1> QED BY <1>3, <1>10, <1>11, <1>12, Delivers DEF k, p

\* What _process_text_stream makes of the bytes when no character waits.
LEMMA TextRead ==
  ASSUME ByteInv, InData, stream_type = "TEXT", utf8.needed = 0
  PROVE  LET bytes == Taken(data_taken)
             v     == utf8_validate(bytes)
             n     == v.len
             rest  == Part(stream, at + n, data_taken - n)
             cut   == frame.fin /\ frame.payload_len <= data_taken
         IN  /\ v.rv # 0 => ~data_result.ok /\ data_result.utf8 = utf8
             /\ v.rv = 0 /\ n = data_taken =>
                  /\ data_result = TextOk(bytes, utf8)
                  /\ IsText(Part(stream, at, data_taken))
             /\ v.rv = 0 /\ n # data_taken =>
                  /\ n \in Nat /\ n < data_taken /\ IsText(Part(stream, at, n))
                  /\ Len(rest) < utf8_len(rest[1])
                  /\ cut => ~data_result.ok /\ data_result.utf8 = utf8
                  /\ ~cut => data_result = TextOk(Part(stream, at, n),
                                [buf |-> rest, needed |-> utf8_len(rest[1]) - Len(rest)])
<1> DEFINE k == data_taken
           bytes == Taken(k)
           v == utf8_validate(bytes)
           n == v.len
           rest == Part(stream, at + n, k - n)
           sent == Part(stream, at, n)
           cut == frame.fin /\ frame.payload_len <= k
           left == SubSeq(bytes, n + 1, k)
           u(c) == [buf |-> c, needed |-> utf8_len(c[1]) - Len(c)]
<1>1. k \in Nat /\ stream \in Seq(Byte) /\ at \in Nat /\ at + k <= Len(stream)
  BY DataRead
<1>2. bytes = Part(stream, at, k) /\ bytes \in Seq(Byte) /\ Len(bytes) = k
  BY TakenIsPart
<1>3. data_result = IF v.rv # 0 THEN TextError(utf8)
                    ELSE IF n = k THEN TextOk(bytes, utf8)
                    ELSE IF cut THEN TextError(utf8)
                    ELSE TextOk(SubSeq(bytes, 1, n), u(left))
  <2>1. data_result = whole_characters(bytes)
    BY DEF data_result, process_text_stream
  <2>2. whole_characters(bytes) =
          IF v.rv # 0 THEN TextError(utf8)
          ELSE IF v.len = Len(bytes) THEN TextOk(bytes, utf8)
          ELSE IF frame.fin /\ frame.payload_len <= Len(bytes) THEN TextError(utf8)
          ELSE TextOk(SubSeq(bytes, 1, v.len),
                      [buf |-> SubSeq(bytes, v.len + 1, Len(bytes)),
                       needed |-> utf8_len(SubSeq(bytes, v.len + 1, Len(bytes))[1])
                                  - Len(SubSeq(bytes, v.len + 1, Len(bytes)))])
    BY Zenon DEF whole_characters, utf8_get_size
  <2> HIDE DEF v, bytes, k
  <2> QED BY <1>2, <2>1, <2>2, Zenon
<1>4. v.rv = 0 /\ n # k => n \in Nat /\ n < k /\ k - n < utf8_len(bytes[n + 1])
  <2>1. LeavesCutCharacter(bytes)
    <3> HIDE DEF bytes
    <3> QED BY <1>2, LessThanCharacterLeft
  <2>2. v.rv = 0 /\ n # Len(bytes) => n \in 0..Len(bytes) - 1 /\ Len(bytes) - n < utf8_len(bytes[n + 1])
    BY <2>1, Zenon DEF LeavesCutCharacter
  <2> HIDE DEF v, bytes, n, k
  <2>3. v.rv = 0 /\ n # k => n \in 0..k - 1 /\ k - n < utf8_len(bytes[n + 1])
    BY <1>2, <2>2, Zenon
  <2> QED BY <1>1, <2>3
<1>5. v.rv = 0 => IsText(SubSeq(bytes, 1, n))
  <2> HIDE DEF bytes
  <2> QED BY <1>2, ValidatedIsText
<1>6. ASSUME n \in Nat, n <= k PROVE SubSeq(bytes, 1, n) = sent /\ left = rest
  <2> HIDE DEF n
  <2> QED BY <1>6, TakenIsPart
<1>7. ASSUME v.rv = 0, n = k PROVE IsText(Part(stream, at, k))
  <2>1. n \in Nat /\ n <= k
    BY <1>1, <1>7
  <2>2. IsText(sent)
    BY <1>5, <1>6, <1>7, <2>1, Zenon
  <2> QED BY <1>7, <2>2, Zenon
<1>8. ASSUME v.rv = 0, n # k
      PROVE  /\ n \in Nat /\ n < k /\ SubSeq(bytes, 1, n) = sent /\ left = rest
             /\ IsText(sent) /\ Len(rest) < utf8_len(rest[1])
  <2>1. n \in Nat /\ n < k /\ n <= k /\ k - n < utf8_len(bytes[n + 1])
    <3> HIDE DEF n, k
    <3> QED BY <1>1, <1>4, <1>8
  <2>2. SubSeq(bytes, 1, n) = sent /\ left = rest
    BY <1>6, <2>1
  <2>3. IsText(sent)
    BY <1>5, <1>8, <2>2, Zenon
  <2>4. Len(left) = k - n /\ left[1] = bytes[n + 1]
    <3> HIDE DEF n, bytes, k
    <3> QED BY <1>1, <1>2, <2>1
  <2> HIDE DEF n, bytes, k, left, rest, sent
  <2>5. Len(rest) < utf8_len(rest[1])
    BY <2>1, <2>2, <2>4
  <2> QED BY <2>1, <2>2, <2>3, <2>5
<1> HIDE DEF n, v, bytes, k, left, rest, sent, cut
<1>9. v.rv # 0 => ~data_result.ok /\ data_result.utf8 = utf8
  BY <1>3 DEF TextError
<1>10. v.rv = 0 /\ n = k => data_result = TextOk(bytes, utf8) /\ IsText(Part(stream, at, k))
  BY <1>3, <1>7, Zenon
<1>11. v.rv = 0 /\ n # k /\ cut => ~data_result.ok /\ data_result.utf8 = utf8
  BY <1>3 DEF TextError
<1>12. v.rv = 0 /\ n # k /\ ~cut => data_result = TextOk(sent, u(rest))
  <2> HIDE DEF u
  <2> QED BY <1>3, <1>8, Zenon
<1>13. v.rv = 0 /\ n # k => n \in Nat /\ n < k /\ IsText(sent) /\ Len(rest) < utf8_len(rest[1])
  BY <1>8
<1> QED BY <1>9, <1>10, <1>11, <1>12, <1>13, Zenon DEF n, v, bytes, k, rest, sent, cut

\* What it makes of them when one does.
LEMMA CharacterComes ==
  ASSUME ByteInv, InData, stream_type = "TEXT", utf8.needed # 0,
         NEW m, m = MinOf(utf8.needed, data_taken),
         NEW c, c = Behind(utf8.buf, stream, at, m), NEW v, v = utf8_validate(c)
  PROVE  LET u == [buf |-> c, needed |-> utf8.needed - m]
         IN  /\ u.needed # 0 => \/ data_result = TextOk(<< >>, u)
                                \/ data_result = TextError(u)
             /\ u.needed = 0 /\ (v.rv # 0 \/ v.len # Len(c)) => data_result = TextError(u)
             /\ u.needed = 0 /\ ~(v.rv # 0 \/ v.len # Len(c)) =>
                  data_result = TextOk(c, [buf |-> << >>, needed |-> 0])
<1> DEFINE bytes == Taken(data_taken)
           u == [buf |-> c, needed |-> utf8.needed - m]
<1>1. utf8.needed \in Nat
  BY DataRead
<1>2. data_result = complete_character(bytes)
  <2>1. 0 < utf8.needed
    BY <1>1
  <2> QED BY <2>1 DEF data_result, process_text_stream
<1>3. Len(bytes) = data_taken
  BY TakenIsPart
<1>4. utf8.buf \o SubSeq(bytes, 1, m) = c
  BY CharacterRead
<1>5. [buf |-> utf8.buf \o SubSeq(bytes, 1, m), needed |-> utf8.needed - m] = u
  BY <1>4, Zenon
<1>6. u.buf = c
  OBVIOUS
<1>7. m = MinOf(utf8.needed, Len(bytes))
  BY <1>3, Zenon
<1> HIDE DEF bytes, u
<1>8. complete_character(bytes) =
        IF u.needed # 0
        THEN IF utf8_maybe_valid(c) THEN TextOk(<< >>, u) ELSE TextError(u)
        ELSE IF v.rv # 0 \/ v.len # Len(c) THEN TextError(u)
        ELSE TextOk(c, [buf |-> << >>, needed |-> 0])
  <2> DEFINE w == [buf |-> utf8.buf \o SubSeq(bytes, 1, m), needed |-> utf8.needed - m]
  <2>1. complete_character(bytes) =
        IF w.needed # 0
        THEN IF utf8_maybe_valid(w.buf) THEN TextOk(<< >>, w) ELSE TextError(w)
        ELSE IF utf8_validate(w.buf).rv # 0 \/ utf8_validate(w.buf).len # Len(w.buf) THEN TextError(w)
        ELSE TextOk(w.buf, [buf |-> << >>, needed |-> 0])
    BY <1>7, Zenon DEF complete_character
  <2>2. w = u
    BY <1>5
  <2> HIDE DEF w
  <2>3. w.buf = c /\ utf8_validate(w.buf) = v
    BY <1>6, <2>2, Zenon
  <2> QED BY <2>1, <2>2, <2>3, Zenon
<1> QED BY <1>2, <1>8, Zenon DEF u

\* A delivery.
LEMMA DataTogether ==
  ASSUME ByteInv, ReceiverInv', data_delivered, ~TextStrays
  PROVE  ByteInv'
<1>1. InData /\ data_result.ok /\ utf8' = data_result.utf8
  BY DEF data_delivered
<1> DEFINE k == data_taken
           bytes == Taken(k)
<1>2. stream_type \in {"TEXT", "BINARY"} /\ k \in Nat /\ utf8.needed \in Nat /\ stream \in Seq(Byte)
  BY <1>1, DataRead
<1>3. CASE stream_type = "BINARY"
  BY <1>3, BinaryTogether
<1>4. CASE stream_type = "TEXT" /\ utf8.needed = 0
  <2> DEFINE v == utf8_validate(bytes)
             n == v.len
             rest == Part(stream, at + n, k - n)
             cut == frame.fin /\ frame.payload_len <= k
  <2>1. /\ v.rv # 0 => ~data_result.ok
        /\ v.rv = 0 /\ n = k => data_result = TextOk(bytes, utf8) /\ IsText(Part(stream, at, k))
        /\ v.rv = 0 /\ n # k =>
             /\ n \in Nat /\ n < k /\ IsText(Part(stream, at, n))
             /\ Len(rest) < utf8_len(rest[1])
             /\ cut => ~data_result.ok
             /\ ~cut => data_result = TextOk(Part(stream, at, n),
                          [buf |-> rest, needed |-> utf8_len(rest[1]) - Len(rest)])
    BY <1>1, <1>4, TextRead, Zenon
  <2> HIDE DEF v, cut
  <2>2. CASE n = k
    <3>1. data_result = TextOk(bytes, utf8) /\ IsText(Part(stream, at, k))
      BY <1>1, <2>1, <2>2, Zenon
    <3>2. bytes = Part(stream, at, k)
      BY <1>1, TakenIsPart
    <3>3. data_result.send = Part(stream, at, k) /\ utf8' = utf8
      BY <1>1, <3>1, <3>2 DEF TextOk
    <3> QED BY <1>4, <3>1, <3>3, TextTogether
  <2>3. CASE n # k
    <3> DEFINE c == rest
    <3> HIDE DEF n, c
    <3>1. /\ n \in Nat /\ n < k /\ IsText(Part(stream, at, n)) /\ Len(c) < utf8_len(c[1])
          /\ data_result = TextOk(Part(stream, at, n), [buf |-> c, needed |-> utf8_len(c[1]) - Len(c)])
      BY <1>1, <2>1, <2>3, Zenon DEF c
    <3>2. data_result.send = Part(stream, at, n)
          /\ data_result.utf8 = [buf |-> c, needed |-> utf8_len(c[1]) - Len(c)]
      BY <3>1 DEF TextOk
    <3>3. utf8'.buf = c /\ utf8'.needed = utf8_len(c[1]) - Len(c)
      BY <1>1, <3>2
    <3>4. /\ utf8'.buf = Part(stream, at + n, data_taken - n)
          /\ utf8'.needed = utf8_len(utf8'.buf[1]) - Len(utf8'.buf)
          /\ Len(utf8'.buf) < utf8_len(utf8'.buf[1])
      BY <3>1, <3>3, Zenon DEF c
    <3> QED BY <1>4, <3>1, <3>2, <3>4, CutTogether
  <2> QED BY <2>2, <2>3
<1>5. CASE stream_type = "TEXT" /\ utf8.needed # 0
  <2>1. k <= utf8.needed
    BY <1>2, <1>5 DEF TextStrays
  <2>2. PICK m : m = MinOf(utf8.needed, data_taken)
    OBVIOUS
  <2>3. m = k
    BY <1>2, <2>1, <2>2 DEF MinOf
  <2>4. PICK c, v : c = Behind(utf8.buf, stream, at, m) /\ v = utf8_validate(c)
    OBVIOUS
  <2> DEFINE u == [buf |-> c, needed |-> utf8.needed - m]
  <2>5. /\ u.needed # 0 => data_result = TextOk(<< >>, u) \/ data_result = TextError(u)
        /\ u.needed = 0 /\ (v.rv # 0 \/ v.len # Len(c)) => data_result = TextError(u)
        /\ u.needed = 0 /\ ~(v.rv # 0 \/ v.len # Len(c)) =>
             data_result = TextOk(c, [buf |-> << >>, needed |-> 0])
    BY <1>1, <1>5, <2>2, <2>4, CharacterComes
  <2>6. u.needed = utf8.needed - m /\ u.buf = c
    OBVIOUS
  <2> HIDE DEF u
  <2>7. CASE u.needed # 0
    <3>1. data_result.send = << >> /\ data_result.utf8 = u
      BY <1>1, <2>5, <2>7 DEF TextOk, TextError
    <3>2. /\ utf8'.buf = Behind(utf8.buf, stream, at, data_taken)
          /\ utf8'.needed = utf8.needed - data_taken /\ utf8'.needed # 0
      BY <1>1, <2>3, <2>4, <2>6, <2>7, <3>1
    <3> QED BY <1>5, <2>1, <3>1, <3>2, StillCutTogether
  <2>8. CASE u.needed = 0
    <3>1. data_result = TextOk(c, [buf |-> << >>, needed |-> 0]) /\ v.rv = 0 /\ v.len = Len(c)
      <4>1. data_result # TextError(u)
        BY <1>1 DEF TextError
      <4> QED BY <2>5, <2>8, <4>1, Zenon
    <3>2. data_result.send = c /\ utf8' = [buf |-> << >>, needed |-> 0]
      BY <1>1, <3>1 DEF TextOk
    <3>3. data_taken = utf8.needed
      BY <1>2, <2>3, <2>6, <2>8
    <3>4. /\ data_result.send = Behind(utf8.buf, stream, at, data_taken)
          /\ utf8_validate(data_result.send).rv = 0
          /\ utf8_validate(data_result.send).len = Len(data_result.send)
      BY <2>3, <2>4, <3>1, <3>2, Zenon
    <3> QED BY <1>5, <3>2, <3>3, <3>4, WholeTogether
  <2> QED BY <2>7, <2>8
<1> QED BY <1>2, <1>3, <1>4, <1>5

-------------------------------------------------------------------------------
(* Text that is refused *)

\* Nothing is the beginning of a character.
LEMMA EmptyIsStart == IsCharStart(<< >>)
<1> DEFINE t == << >>
<1>1. Len(t) = 0
  BY EmptySeq
<1> HIDE DEF t
<1>2. 1..Len(t) = {}
  BY <1>1
<1>3. PICK r \in Rows : Len(t) < Len(r)
  <2>1. PICK r : r = <<0..127>>
    OBVIOUS
  <2>2. r \in Rows /\ Len(r) = 1
    BY <2>1 DEF Rows
  <2>3. Len(t) < Len(r)
    BY <1>1, <2>2
  <2> QED BY <2>2, <2>3
<1> QED BY <1>2, <1>3 DEF IsCharStart, t

\* What is behind nothing is itself.
LEMMA BehindNothing ==
  ASSUME NEW s \in Seq(Byte), NEW a \in Nat, NEW k \in Nat, a + k <= Len(s)
  PROVE  Behind(<< >>, s, a, k) = Part(s, a, k)
<1>1. Part(s, a, k) \in Seq(Byte)
  BY PartIs
<1> DEFINE p == Part(s, a, k)
<1> HIDE DEF p
<1>2. << >> \o p = p
  BY <1>1 DEF p
<1> QED BY <1>2, Zenon DEF Behind, p

\* ByteReceiver refuses the same text.
LEMMA Refuses ==
  ASSUME ByteInv, text_rejected, ~TextStrays
  PROVE  \E j \in Nat : j <= len /\ Stops(After(stream)[at + j], out, Failed(1007))
<1>1. InData /\ ~data_result.ok /\ utf8' = data_result.utf8
  BY DEF text_rejected
<1> DEFINE k == data_taken
           p == frame.payload_len
<1>2. /\ OpenInv /\ stream_type \in {"TEXT", "BINARY"} /\ k \in Nat /\ k <= len /\ k <= p /\ p \in Nat
      /\ utf8.needed \in Nat /\ stream \in Seq(Byte) /\ at \in Nat /\ at + k <= Len(stream)
      /\ utf8.buf \in Seq(Byte)
  BY <1>1, DataRead
<1>3. PICK h, f : Comes(h, f)
  BY <1>1, DataRead, Zenon
<1>4. stream_type = "TEXT"
  BY <1>1, <1>2 DEF data_result, TextOk
<1>5. "FIRST" \notin fragment_info
  BY <1>2, <1>4 DEF TextStrays, OpenInv, CharacterWaits
<1>6. Heard = out
  BY <1>5 DEF Heard
<1>7. /\ Reaches(stream, at, State(h, f, p, "TEXT", utf8.buf, control, out))
      /\ f # NoFrame /\ ~f.is_control /\ f.opcode \in DataOpcodes /\ f.fin = frame.fin
  BY <1>3, <1>4, <1>6, Zenon DEF Comes, IsFrame
<1>8. CASE utf8.needed = 0
  <2> DEFINE bytes == Taken(k)
             v == utf8_validate(bytes)
             c == Part(stream, at, k)
             cut == frame.fin /\ p <= k
  <2>1. k <= 1
    BY <1>2, <1>4, <1>8 DEF TextStrays
  <2>2. bytes = c /\ c \in Seq(Byte) /\ Len(c) = k
    BY <1>1, TakenIsPart
  <2>3. /\ v.rv = 0 /\ v.len = k => data_result = TextOk(bytes, utf8)
        /\ v.rv = 0 /\ v.len # k /\ ~cut => data_result.ok
    <3> DEFINE n == v.len
               rest == Part(stream, at + n, k - n)
    <3>1. /\ v.rv = 0 /\ n = k => data_result = TextOk(bytes, utf8)
          /\ v.rv = 0 /\ n # k => (~cut => data_result = TextOk(Part(stream, at, n),
                                     [buf |-> rest, needed |-> utf8_len(rest[1]) - Len(rest)]))
      BY <1>1, <1>4, <1>8, TextRead, Zenon
    <3> HIDE DEF v, cut, bytes, rest
    <3> QED BY <3>1 DEF TextOk
  <2>4. utf8.buf = << >>
    BY <1>2, <1>8 DEF OpenInv, CharacterWaits
  <2> HIDE DEF c, bytes
  <2>5. v = utf8_validate(c)
    BY <2>2
  <2> HIDE DEF v
  <2>6. ~(v.rv = 0 /\ v.len = k)
    BY <1>1, <2>3 DEF TextOk
  <2>7. k # 0
    <3>1. ASSUME k = 0 PROVE FALSE
      <4>1. c = << >>
        BY <2>2, <3>1, EmptySeq
      <4>2. IsText(c)
        BY <4>1, EmptyIsText, Zenon
      <4>3. v.rv = 0 /\ v.len = Len(c)
        BY <2>2, <2>5, <4>2, TextAccepted
      <4> QED BY <2>2, <2>6, <4>3
    <3> QED BY <3>1
  <2>8. k = 1 /\ Len(c) = 1
    <3> HIDE DEF k
    <3>1. k = 1
      BY <1>2, <2>1, <2>7
    <3> QED BY <2>2, <3>1
  <2>9. /\ utf8_len(c[1]) = 1 => v.rv = 0 /\ v.len = 1
        /\ utf8_len(c[1]) > 1 => v.rv = 0 /\ v.len = 0 /\ IsCharStart(c) /\ ~IsChar(c)
        /\ utf8_len(c[1]) = 0 => ~IsCharStart(c) /\ ~IsChar(c)
        /\ utf8_len(c[1]) \in Nat
    BY <2>2, <2>5, <2>8, ByteAccepted
  <2> DEFINE e == << >>
  <2>10. /\ Behind(e, stream, at, k) = c /\ e \in Seq(Byte) /\ IsCharStart(e)
         /\ Reaches(stream, at, State(h, f, p, "TEXT", e, control, out))
    <3>1. Behind(e, stream, at, k) = c
      BY <1>2, BehindNothing DEF c
    <3>2. Reaches(stream, at, State(h, f, p, "TEXT", e, control, out))
      BY <1>7, <2>4, Zenon
    <3> QED BY <3>1, <3>2, EmptyIsStart
  <2> HIDE DEF e, cut
  <2>11. Stops(After(stream)[at + k], out, Failed(1007))
    <3>1. CASE utf8_len(c[1]) > 1
      <4>1. v.rv = 0 /\ v.len # k /\ IsCharStart(c)
        BY <2>8, <2>9, <3>1
      <4>2. cut
        BY <1>1, <2>3, <4>1
      <4>3. frame.fin /\ p = k /\ p - k = 0
        BY <1>2, <4>2 DEF cut
      <4>4. Reaches(stream, at + k, State(h, f, p - k, "TEXT", c, control, out))
        <5>1. IsCharStart(Behind(e, stream, at, k))
          BY <2>10, <4>1, Zenon
        <5>2. Reaches(stream, at + k, State(h, f, p - k, "TEXT", Behind(e, stream, at, k), control, out))
          <6> HIDE DEF k, p
          <6> QED BY <1>2, <1>7, <2>10, <5>1, StartRun
        <5> QED BY <2>10, <5>2, Zenon
      <4>5. Settled(State(h, f, 0, "TEXT", c, control, out)) =
              EndFrame(State(h, f, 0, "TEXT", c, control, out))
        BY <1>7, SettledIs
      <4>6. After(stream)[at + k] = EndFrame(State(h, f, 0, "TEXT", c, control, out))
        BY <4>3, <4>4, <4>5, Zenon DEF Reaches
      <4>7. Stops(EndFrame(State(h, f, 0, "TEXT", c, control, out)), out, Failed(1007))
        <5>1. ASSUME c = << >> PROVE FALSE
          <6>1. Len(c) = Len(<< >>)
            BY <5>1
          <6>2. Len(c) = 0
            BY <6>1, EmptySeq
          <6> QED BY <2>8, <6>2
        <5>2. f.fin
          BY <1>7, <4>3
        <5> QED BY <1>7, <5>1, <5>2, MessageEnds
      <4> QED BY <4>6, <4>7, Zenon
    <3>2. CASE utf8_len(c[1]) = 0
      <4>1. ~IsCharStart(Behind(e, stream, at, k))
        BY <2>9, <2>10, <3>2
      <4>2. \A j \in 1..k : ~IsChar(Behind(e, stream, at, j))
        <5>1. \A j \in 1..k : j = k
          BY <2>8
        <5>2. ~IsChar(Behind(e, stream, at, k))
          BY <2>9, <2>10, <3>2
        <5> HIDE DEF k
        <5> QED BY <5>1, <5>2
      <4> HIDE DEF k, p
      <4> QED BY <1>2, <1>7, <2>10, <4>1, <4>2, BadRun
    <3>3. utf8_len(c[1]) # 1
      BY <2>6, <2>8, <2>9
    <3>4. utf8_len(c[1]) > 1 \/ utf8_len(c[1]) = 0 \/ utf8_len(c[1]) = 1
      BY <2>9
    <3> QED BY <3>1, <3>2, <3>3, <3>4
  <2> QED BY <1>2, <2>11
<1>9. CASE utf8.needed # 0
  <2>1. PICK m : m = MinOf(utf8.needed, data_taken)
    OBVIOUS
  <2>2. PICK c, v : c = Behind(utf8.buf, stream, at, m) /\ v = utf8_validate(c)
    OBVIOUS
  <2> DEFINE u == [buf |-> c, needed |-> utf8.needed - m]
  <2>3. /\ u.needed # 0 => data_result = TextOk(<< >>, u) \/ data_result = TextError(u)
        /\ u.needed = 0 /\ (v.rv # 0 \/ v.len # Len(c)) => data_result = TextError(u)
        /\ u.needed = 0 /\ ~(v.rv # 0 \/ v.len # Len(c)) =>
             data_result = TextOk(c, [buf |-> << >>, needed |-> 0])
    BY <1>1, <1>4, <1>9, <2>1, <2>2, CharacterComes
  <2>4. u.needed = utf8.needed - m /\ u.buf = c
    OBVIOUS
  <2> HIDE DEF u
  <2>5. data_result = TextError(u) /\ ~(u.needed = 0 /\ v.rv = 0 /\ v.len = Len(c))
    <3>1. \A s, w : TextOk(s, w).ok
      BY DEF TextOk
    <3> QED BY <1>1, <2>3, <3>1, Zenon
  <2>6. utf8'.buf = c
    BY <1>1, <2>4, <2>5 DEF TextError
  <2>7. ~IsCharStart(c)
    <3>1. ~IsCharStart(utf8'.buf)
      BY <1>4, <1>9 DEF TextStrays
    <3> QED BY <2>6, <3>1, Zenon
  <2>8. /\ m \in Nat /\ m <= k /\ m <= utf8.needed /\ IsCharStart(utf8.buf)
        /\ \A j \in Nat : j <= m =>
             LET e == Behind(utf8.buf, stream, at, j)
             IN  e \in Seq(Byte) /\ 0 < Len(e) /\ utf8_len(e[1]) - Len(e) = utf8.needed - j
    BY <1>1, <1>4, <1>9, <2>1, CharacterRead, Zenon
  <2>9. ASSUME NEW j \in 1..m PROVE ~IsChar(Behind(utf8.buf, stream, at, j))
    <3> DEFINE e == Behind(utf8.buf, stream, at, j)
    <3>1. j \in Nat /\ j <= m
      BY <2>8
    <3>2. e \in Seq(Byte) /\ 0 < Len(e) /\ utf8_len(e[1]) - Len(e) = utf8.needed - j
      BY <2>8, <3>1, Zenon
    <3> HIDE DEF e
    <3>3. utf8_len(e[1]) \in 0..4 /\ Len(e) \in Nat
      BY <3>2, CharacterLength, LenProperties
    <3>4. ASSUME IsChar(e) PROVE FALSE
      <4>1. utf8_len(e[1]) = Len(e)
        BY <3>2, <3>4, CharLength
      <4>2. j = utf8.needed
        BY <1>2, <3>1, <3>2, <3>3, <4>1
      <4>3. j = m
        BY <1>2, <2>8, <3>1, <4>2
      <4>4. e = c
        BY <2>2, <4>3 DEF e
      <4>5. utf8_validate(e).rv = 0 /\ utf8_validate(e).len = Len(e)
        BY <3>2, <3>4, <4>1, CharAccepted
      <4>6. u.needed = 0
        BY <1>2, <2>4, <4>2, <4>3
      <4> QED BY <2>2, <2>5, <4>4, <4>5, <4>6, Zenon
    <3> QED BY <3>4 DEF e
  <2>10. at + m <= Len(stream) /\ m <= p /\ m <= len
    <3>1. at + m <= Len(stream)
      BY <1>1, <2>8, TakenIsPart
    <3>2. m <= p /\ m <= len
      <4>1. len \in Nat
        BY <1>1, DataRead DEF RecvInv, InStream
      <4> HIDE DEF k, p
      <4> QED BY <1>2, <2>8, <4>1
    <3> QED BY <3>1, <3>2
  <2>11. Stops(After(stream)[at + m], out, Failed(1007))
    <3>1. ~IsCharStart(Behind(utf8.buf, stream, at, m))
      BY <2>2, <2>7, Zenon
    <3>2. IsCharStart(utf8.buf) /\ m \in Nat
      BY <2>8
    <3> HIDE DEF k, p
    <3> QED BY <1>2, <1>7, <2>9, <2>10, <3>1, <3>2, BadRun
  <2> QED BY <2>8, <2>10, <2>11
<1> QED BY <1>8, <1>9

\* The text is refused, and both stop.
LEMMA RejectedTogether ==
  ASSUME ByteInv, ReceiverInv', text_rejected, ~TextStrays
  PROVE  ByteInv'
<1>1. PICK j \in Nat : j <= len /\ Stops(After(stream)[at + j], out, Failed(1007))
  BY Refuses
<1>2. stream' = stream /\ at' = at + len /\ close_received' /\ out' = Append(out, Failed(1007))
  BY DEF text_rejected, _error_close, advance
<1>3. Extends(out', out, Failed(1007))
  BY <1>2, Zenon DEF Extends
<1>4. ReceiverInv
  BY DEF ByteInv
<1> QED BY <1>1, <1>2, <1>3, <1>4, EndsTogether

-------------------------------------------------------------------------------
(* The receiver does what ByteReceiver does *)

\* They start together.
LEMMA ByteInitially ==
  ASSUME Init
  PROVE  ByteInv
<1>1. /\ stream \in Seq(Byte) /\ at = 0 /\ pc = "idle" /\ stream_type = "none" /\ fragment_info = {}
      /\ utf8.buf = << >> /\ utf8.needed = 0 /\ frame = NoFrame /\ header.buf = << >>
      /\ header = [buf |-> << >>, needed |-> 0] /\ control = << >> /\ close_received = FALSE
      /\ out = << >>
  BY ReceiveAssumption DEF Init
<1>2. After(stream)[at] = Start
  BY <1>1, AfterSteps
<1>3. Start = State(<< >>, NoFrame, 0, "none", << >>, << >>, << >>)
  BY DEF Start, State
<1>4. After(stream)[at] = State(header.buf, NoFrame, 0, stream_type, utf8.buf, control, out)
  BY <1>1, <1>2, <1>3, Zenon
<1>5. Together
  BY <1>1, <1>4, Zenon DEF Together
<1>6. FlagsMatch /\ LoopProceeds /\ CharacterWaits
  BY <1>1 DEF FlagsMatch, LoopProceeds, CharacterWaits
<1>7. HeaderWaits
  <2>1. header_needed = 2
    BY <1>1 DEF header_needed, WS_FRAME_HEADER_MIN
  <2>2. Len(header.buf) = 0
    BY <1>1, EmptySeq
  <2>3. Waits(header.buf, 2)
    BY <2>2 DEF Waits, WS_FRAME_HEADER_MIN
  <2> QED BY <1>1, <2>1, <2>3 DEF HeaderWaits
<1> QED BY <1>1, <1>5, <1>6, <1>7, ReceiverInitially DEF ByteInv

\* No step separates them but one in which a text strays.
LEMMA ByteSteps ==
  ASSUME ByteInv, Next \/ UNCHANGED vars, ~TextStrays
  PROVE  ByteInv'
<1>1. ReceiverInv'
  BY ReceiverSteps DEF ByteInv
<1>2. CASE UNCHANGED vars
  BY <1>1, <1>2, StutterTogether
<1>3. ASSUME NEW n \in ChunkSizes[stream], receive_cb(n) PROVE ByteInv'
  BY <1>1, <1>3, CallbackTogether
<1>4. ASSUME NEW n \in ChunkSizes[stream], receive_cb_ignored(n) PROVE ByteInv'
  BY <1>1, <1>4, IgnoredTogether
<1>5. CASE header_rejected
  BY <1>1, <1>5, HeaderRejectedTogether
<1>6. CASE header_incomplete
  BY <1>1, <1>6, IncompleteTogether
<1>7. CASE header_complete
  BY <1>1, <1>7, CompleteTogether
<1>8. CASE header_out_of_order
  BY <1>1, <1>8, OutOfOrderTogether
<1>9. CASE control_incomplete
  BY <1>1, <1>9, ControlGoesOn
<1>10. CASE control_dispatched
  BY <1>1, <1>10, DispatchedTogether
<1>11. CASE close_handled
  BY <1>1, <1>11, CloseTogether
<1>12. CASE text_rejected
  BY <1>1, <1>12, RejectedTogether
<1>13. CASE data_delivered
  BY <1>1, <1>13, DataTogether
<1>14. CASE Terminated
  BY <1>2, <1>14 DEF Terminated
<1> QED BY <1>2, <1>3, <1>4, <1>5, <1>6, <1>7, <1>8, <1>9, <1>10, <1>11, <1>12, <1>13, <1>14
        DEF Next, process_frame

\* Between callbacks they have told the same.
LEMMA ToldTheSame ==
  ASSUME ByteInv
  PROVE  OutIsByteByByte
<1>1. SUFFICES ASSUME pc = "idle" PROVE out = After(stream)[at].out
  BY DEF OutIsByteByByte
<1>2. CASE close_received
  BY <1>2, Zenon DEF ByteInv
<1>3. CASE ~close_received /\ frame = NoFrame
  <2>1. PICK l : After(stream)[at] = State(header.buf, NoFrame, l, stream_type, utf8.buf, control, out)
    BY <1>3, Zenon DEF ByteInv, Together
  <2> DEFINE u == State(header.buf, NoFrame, l, stream_type, utf8.buf, control, out)
  <2>2. u.out = out
    BY StateFields
  <2>3. After(stream)[at] = u
    BY <2>1
  <2> HIDE DEF u
  <2> QED BY <2>2, <2>3, Zenon
<1>4. CASE ~close_received /\ frame # NoFrame
  <2>1. 0 < Missing /\ "FIRST" \notin fragment_info
    BY <1>1, <1>4 DEF ByteInv, LoopProceeds
  <2>2. PICK h, f : IsFrame(f) /\ Reaches(stream, at, State(h, f, Missing, stream_type, utf8.buf,
                                                            control, Heard))
    BY <1>4, Zenon DEF ByteInv, Together
  <2>3. Heard = out
    BY <2>1 DEF Heard
  <2>4. frame.opcode \in DataOpcodes \cup ControlOpcodes
    BY <1>4 DEF ByteInv, FlagsMatch
  <2>5. f # NoFrame
    BY <2>2, <2>4, SomeFrame DEF IsFrame
  <2>6. PICK m : m = Missing
    OBVIOUS
  <2> DEFINE u == State(h, f, m, stream_type, utf8.buf, control, out)
  <2>7. After(stream)[at] = Settled(u)
    BY <2>2, <2>3, <2>6, Zenon DEF Reaches
  <2>8. Settled(u) = IF m > 0 THEN u ELSE EndFrame(u)
    BY <2>5, SettledIs, Zenon
  <2>9. u.out = out
    BY StateFields
  <2> HIDE DEF u
  <2>10. Settled(u) = u
    BY <2>1, <2>6, <2>8
  <2> QED BY <2>7, <2>9, <2>10, Zenon
<1> QED BY <1>2, <1>3, <1>4

\* For every byte stream and every cutting of it into chunks, as long as no text strays:
\* the receiver and ByteReceiver stay where the other one is ...
THEOREM ByteByByte ==
  DeliverySpec /\ [][~TextStrays]_delivery_vars => []ByteInv
<1>1. DeliveryInit => ByteInv
  BY ByteInitially DEF DeliveryInit
<1>2. ByteInv /\ [DeliveryNext]_delivery_vars /\ [~TextStrays]_delivery_vars => ByteInv'
  <2>1. ASSUME ByteInv, UNCHANGED delivery_vars PROVE ByteInv'
    <3>1. UNCHANGED vars
      BY <2>1 DEF delivery_vars
    <3>2. ReceiverInv'
      BY <2>1, <3>1, ReceiverSteps DEF ByteInv
    <3> QED BY <2>1, <3>1, <3>2, StutterTogether
  <2>2. ASSUME ByteInv, DeliveryNext, ~TextStrays PROVE ByteInv'
    BY <2>2, DeliverySteps, ByteSteps
  <2> QED BY <2>1, <2>2
<1> QED BY <1>1, <1>2, PTL DEF DeliverySpec

\* ... so what the application was told between two callbacks of curl is what ByteReceiver
\* makes of the bytes one by one: nothing lost, doubled, early or late, and every error found.
THEOREM ToldByteByByte ==
  DeliverySpec /\ [][~TextStrays]_delivery_vars => []OutIsByteByByte
<1>1. ByteInv => OutIsByteByByte
  BY ToldTheSame
<1> QED BY <1>1, ByteByByte, PTL

\* Binary messages and control frames need no such condition.
THEOREM BinaryByteByByte ==
  DeliverySpec /\ [](stream_type # "TEXT") => []OutIsByteByByte
<1>1. stream_type # "TEXT" => [~TextStrays]_delivery_vars
  BY DEF TextStrays
<1> QED BY <1>1, ToldByteByByte, PTL

-------------------------------------------------------------------------------
(* What the handlers owe *)

\* A state of Owed: the type and the data of the open message, and what is to be told.
Account(t, d, m) == [type |-> t, data |-> d, told |-> m]

\* A state of Owed after one more callback.
OwedStep(s, i) ==
  CASE i.fn = "first"   -> [s EXCEPT !.type = i.what, !.data = << >>]
    [] i.fn = "byte"    -> [s EXCEPT !.data = @ \o i.data]
    [] i.fn = "last"    -> [s EXCEPT !.type = "none", !.data = << >>, !.told = Append(@,
         Told(IF s.type = "BINARY" THEN "on_binary" ELSE "on_text", s.data))]
    [] i.fn = "on_ping" -> [s EXCEPT !.told = Append(@, Told("cws_pong", i.data))]
    [] OTHER            -> s

\* The k-th state, from those before it.
AccountStep(items, f, k) ==
  IF k = 0 THEN Account("none", << >>, << >>) ELSE OwedStep(f[k - 1], items[k])

\* f gives the first n states.
AreAccounts(items, f, n) == f = [k \in 0..n |-> AccountStep(items, f, k)]

\* Owed is well defined.
LEMMA OwedIsDefined ==
  ASSUME NEW s, NEW n \in Nat
  PROVE  \E f : AreAccounts(s, f, n)
<1> DEFINE T == {m \in Nat : ~ \E f : AreAccounts(s, f, m)}
<1>1. ASSUME T # {} PROVE FALSE
  <2>1. PICK m \in T : \A y \in T : m <= y
    <3>1. T \subseteq Nat
      OBVIOUS
    <3> HIDE DEF T
    <3> QED BY <1>1, <3>1, LeastNumber
  <2>2. m \in Nat /\ ~ \E f : AreAccounts(s, f, m)
    OBVIOUS
  <2>3. \E f : \A k \in 0..m - 1 : f[k] = AccountStep(s, f, k)
    <3>1. CASE m = 0
      BY <3>1
    <3>2. CASE m # 0
      <4>1. m - 1 \in Nat /\ ~(m <= m - 1)
        BY <2>2, <3>2
      <4>2. m - 1 \notin T
        <5> HIDE DEF T
        <5> QED BY <2>1, <4>1
      <4>3. PICK f : AreAccounts(s, f, m - 1)
        BY <4>1, <4>2
      <4> QED BY <4>3 DEF AreAccounts
    <3> QED BY <3>1, <3>2
  <2> HIDE DEF T
  <2>4. PICK f : \A k \in 0..m - 1 : f[k] = AccountStep(s, f, k)
    BY <2>3
  <2> DEFINE h == [k \in 0..m |-> AccountStep(s, f, k)]
  <2>5. \A k \in 0..m - 1 : h[k] = f[k]
    BY <2>2, <2>4
  <2>6. (\A k \in 0..m : h[k] = AccountStep(s, f, k)) /\ h = [k \in 0..m |-> h[k]]
    OBVIOUS
  <2> HIDE DEF h
  <2>7. ASSUME NEW k \in 0..m PROVE AccountStep(s, f, k) = AccountStep(s, h, k)
    <3>1. CASE k = 0
      BY <3>1 DEF AccountStep
    <3>2. CASE k # 0
      <4>1. k - 1 \in 0..m - 1
        BY <2>2, <3>2
      <4> QED BY <2>5, <4>1 DEF AccountStep
    <3> QED BY <3>1, <3>2
  <2>8. h = [k \in 0..m |-> AccountStep(s, h, k)]
    <3>1. \A k \in 0..m : h[k] = AccountStep(s, h, k)
      BY <2>6, <2>7
    <3> QED BY <2>6, <3>1
  <2> QED BY <2>2, <2>8 DEF AreAccounts
<1> QED BY <1>1

\* f is the way from no callback to all of them.
IsHistory(items, f) ==
  /\ f[0] = Account("none", << >>, << >>)
  /\ \A k \in Nat : k < Len(items) => f[k + 1] = OwedStep(f[k], items[k + 1])

\* Owed is its last state.
LEMMA OwedIs ==
  ASSUME NEW items \in Seq(Item)
  PROVE  \E f : IsHistory(items, f) /\ Owed(items) = f[Len(items)]
<1> DEFINE F == CHOOSE f : f = [k \in 0..Len(items) |-> AccountStep(items, f, k)]
<1>1. Len(items) \in Nat
  BY LenProperties
<1>2. F = [k \in 0..Len(items) |-> AccountStep(items, F, k)]
  BY <1>1, OwedIsDefined DEF AreAccounts
<1>3. Owed(items) = F[Len(items)]
  BY DEF Owed, AccountStep, OwedStep, Account
<1> HIDE DEF F
<1>4. \A k \in 0..Len(items) : F[k] = AccountStep(items, F, k)
  BY <1>2
<1>5. F[0] = Account("none", << >>, << >>)
  <2>1. 0 \in 0..Len(items)
    BY <1>1
  <2> QED BY <1>4, <2>1 DEF AccountStep
<1>6. ASSUME NEW k \in Nat, k < Len(items) PROVE F[k + 1] = OwedStep(F[k], items[k + 1])
  <2>1. k + 1 \in 0..Len(items) /\ k + 1 # 0 /\ (k + 1) - 1 = k
    BY <1>1, <1>6
  <2>2. F[k + 1] = AccountStep(items, F, k + 1)
    BY <1>4, <2>1
  <2> QED BY <2>1, <2>2 DEF AccountStep
<1> QED BY <1>3, <1>5, <1>6 DEF IsHistory

\* f and g are the ways through the first n callbacks of p and of q, which are the same.
Agree(f, g, p, q, n) ==
  /\ f[0] = g[0]
  /\ \A k \in Nat : k < n => /\ f[k + 1] = OwedStep(f[k], p[k + 1])
                            /\ g[k + 1] = OwedStep(g[k], q[k + 1])
                            /\ p[k + 1] = q[k + 1]

\* Both come to the same.
LEMMA SameHistory ==
  ASSUME NEW f, NEW g, NEW p, NEW q, NEW n \in Nat, Agree(f, g, p, q, n)
  PROVE  f[n] = g[n]
<1> DEFINE T == {m \in Nat : m <= n /\ f[m] # g[m]}
<1>1. ASSUME T # {} PROVE FALSE
  <2>1. PICK m \in T : \A y \in T : m <= y
    <3>1. T \subseteq Nat
      OBVIOUS
    <3> HIDE DEF T
    <3> QED BY <1>1, <3>1, LeastNumber
  <2>2. m \in Nat /\ m <= n /\ f[m] # g[m]
    OBVIOUS
  <2>3. m # 0
    BY <2>2 DEF Agree
  <2>4. m - 1 \in Nat /\ m - 1 < n /\ m - 1 <= n /\ ~(m <= m - 1) /\ (m - 1) + 1 = m
    BY <2>2, <2>3
  <2>5. PICK j : j = m - 1
    OBVIOUS
  <2>6. j \notin T
    <3> HIDE DEF T
    <3> QED BY <2>1, <2>4, <2>5
  <2>7. f[j] = g[j]
    BY <2>4, <2>5, <2>6
  <2>8. f[j + 1] = g[j + 1]
    BY <2>4, <2>5, <2>7 DEF Agree
  <2> QED BY <2>2, <2>4, <2>5, <2>8
<1>2. n \in Nat /\ n <= n
  OBVIOUS
<1> QED BY <1>1, <1>2

\* One callback more.
LEMMA OwedAppend ==
  ASSUME NEW items \in Seq(Item), NEW i \in Item
  PROVE  Owed(Append(items, i)) = OwedStep(Owed(items), i)
<1> DEFINE more == Append(items, i)
           n    == Len(items)
<1>1. /\ more \in Seq(Item) /\ Len(more) = n + 1 /\ n \in Nat /\ more[n + 1] = i
      /\ \A k \in 1..n : more[k] = items[k]
  BY LenProperties
<1> HIDE DEF more
<1>2. PICK f : IsHistory(items, f) /\ Owed(items) = f[n]
  BY OwedIs
<1>3. PICK g : IsHistory(more, g) /\ Owed(more) = g[Len(more)]
  BY <1>1, OwedIs
<1> HIDE DEF n
<1>4. n < Len(more) /\ \A k \in Nat : k < n => k < Len(more) /\ k + 1 \in 1..n
  BY <1>1
<1>5. f[n] = g[n]
  <2>1. f[0] = g[0]
    BY <1>2, <1>3, Zenon DEF IsHistory
  <2>2. \A k \in Nat : k < n => /\ f[k + 1] = OwedStep(f[k], items[k + 1])
                                /\ g[k + 1] = OwedStep(g[k], more[k + 1])
                                /\ items[k + 1] = more[k + 1]
    <3>1. \A k \in Nat : k < n => f[k + 1] = OwedStep(f[k], items[k + 1])
      BY <1>2, Zenon DEF IsHistory, n
    <3>2. \A k \in Nat : k < Len(more) => g[k + 1] = OwedStep(g[k], more[k + 1])
      BY <1>3, Zenon DEF IsHistory
    <3>3. \A k \in Nat : k < n => items[k + 1] = more[k + 1]
      BY <1>1, <1>4
    <3> QED BY <1>4, <3>1, <3>2, <3>3, Zenon
  <2>3. Agree(f, g, items, more, n) /\ n \in Nat
    BY <1>1, <2>1, <2>2, Zenon DEF Agree
  <2> QED BY <2>3, SameHistory, Zenon
<1>6. g[n + 1] = OwedStep(g[n], i)
  BY <1>1, <1>3, <1>4 DEF IsHistory
<1>7. Owed(more) = OwedStep(Owed(items), i)
  BY <1>1, <1>2, <1>3, <1>5, <1>6, Zenon
<1> QED BY <1>7 DEF more

\* Nothing is owed for nothing.
LEMMA OwedForNothing == Owed(<< >>) = Account("none", << >>, << >>)
<1>1. << >> \in Seq(Item) /\ Len(<< >>) = 0
  BY EmptySeq
<1>2. PICK f : IsHistory(<< >>, f) /\ Owed(<< >>) = f[0]
  BY <1>1, OwedIs
<1> QED BY <1>2 DEF IsHistory

\* What a callback adds.
LEMMA OwedSteps ==
  \A t, d, m :
    /\ \A type : OwedStep(Account(t, d, m), Started(type)) = Account(type, << >>, m)
    /\ \A b : OwedStep(Account(t, d, m), DataByte(b)) = Account(t, d \o <<b>>, m)
    /\ OwedStep(Account(t, d, m), Ended)
         = Account("none", << >>, Append(m, Told(IF t = "BINARY" THEN "on_binary" ELSE "on_text", d)))
    /\ \A data : OwedStep(Account(t, d, m), Control("on_ping", data))
                   = Account(t, d, Append(m, Told("cws_pong", data)))
    /\ \A data : OwedStep(Account(t, d, m), Control("on_pong", data)) = Account(t, d, m)
    /\ \A i : i.fn \in {"on_close", "error"} => OwedStep(Account(t, d, m), i) = Account(t, d, m)
<1> TAKE t, d, m
<1>1. \A type : OwedStep(Account(t, d, m), Started(type)) = Account(type, << >>, m)
  BY DEF OwedStep, Account, Started
<1>2. \A b : OwedStep(Account(t, d, m), DataByte(b)) = Account(t, d \o <<b>>, m)
  BY DEF OwedStep, Account, DataByte
<1>3. OwedStep(Account(t, d, m), Ended)
        = Account("none", << >>, Append(m, Told(IF t = "BINARY" THEN "on_binary" ELSE "on_text", d)))
  BY DEF OwedStep, Account, Ended
<1>4. \A data : OwedStep(Account(t, d, m), Control("on_ping", data))
                  = Account(t, d, Append(m, Told("cws_pong", data)))
  BY DEF OwedStep, Account, Control
<1>5. \A data : OwedStep(Account(t, d, m), Control("on_pong", data)) = Account(t, d, m)
  BY DEF OwedStep, Account, Control
<1>6. \A i : i.fn \in {"on_close", "error"} => OwedStep(Account(t, d, m), i) = Account(t, d, m)
  BY DEF OwedStep
<1> QED BY <1>1, <1>2, <1>3, <1>4, <1>5, <1>6

-------------------------------------------------------------------------------
(* The buffer of the default handlers *)

\* The bytes of a piece are owed behind those before it.
LEMMA OwedBytes ==
  ASSUME NEW items \in Seq(Item), NEW t, NEW e \in Seq(Byte), NEW m, NEW d \in Seq(Byte),
         Owed(items) = Account(t, e, m)
  PROVE  Owed(items \o DataBytes(d)) = Account(t, e \o d, m)
<1> DEFINE P(j) == Owed(items \o DataBytes(Part(d, 0, j))) = Account(t, e \o Part(d, 0, j), m)
           T    == {j \in Nat : j <= Len(d) /\ ~P(j)}
<1>1. Len(d) \in Nat
  BY LenProperties
<1>2. P(0)
  <2>1. Part(d, 0, 0) = << >>
    BY <1>1, PartIs
  <2>2. \A p \in Seq(Item) : p \o << >> = p
    OBVIOUS
  <2>3. items \o DataBytes(<< >>) = items
    BY <2>2, NoDataBytes
  <2>4. e \o << >> = e
    OBVIOUS
  <2> QED BY <2>1, <2>3, <2>4
<1>3. ASSUME NEW j \in Nat, j < Len(d), P(j) PROVE P(j + 1)
  <2>1. PICK p, b : p = Part(d, 0, j) /\ b = d[j + 1]
    OBVIOUS
  <2>2. p \in Seq(Byte)
    BY <1>1, <1>3, <2>1, PartIs
  <2>3. b \in Byte
    <3>1. j + 1 \in 1..Len(d)
      BY <1>1, <1>3
    <3> QED BY <2>1, <3>1, ElementOfSeq
  <2>4. Part(d, 0, j + 1) = Append(p, b)
    BY <1>1, <1>3, <2>1, NextOfPart
  <2>5. PICK c, x : c = DataBytes(p) /\ x = DataByte(b)
    OBVIOUS
  <2>6. c \in Seq(Item) /\ x \in Item
    BY <2>2, <2>3, <2>5, DataBytesIs, Items
  <2>7. DataBytes(Append(p, b)) = Append(c, x)
    BY <2>2, <2>3, <2>5, DataBytesAppend
  <2>8. items \o Append(c, x) = Append(items \o c, x) /\ items \o c \in Seq(Item)
    BY <2>6
  <2>9. Owed(Append(items \o c, x)) = OwedStep(Owed(items \o c), x)
    BY <2>6, <2>8, OwedAppend, Zenon
  <2>10. Owed(items \o c) = Account(t, e \o p, m)
    BY <1>3, <2>1, <2>5, Zenon
  <2>11. OwedStep(Account(t, e \o p, m), x) = Account(t, (e \o p) \o <<b>>, m)
    <3>1. \A q : OwedStep(Account(t, q, m), DataByte(b)) = Account(t, q \o <<b>>, m)
      BY OwedSteps
    <3> QED BY <2>5, <3>1, Zenon
  <2>12. (e \o p) \o <<b>> = e \o Append(p, b)
    <3>1. e \o Append(p, b) = Append(e \o p, b)
      <4>1. \A g, q \in Seq(Byte), y \in Byte : g \o Append(q, y) = Append(g \o q, y)
        OBVIOUS
      <4> QED BY <2>2, <2>3, <4>1, Zenon
    <3>2. \A q \in Seq(Byte) : q \o <<b>> = Append(q, b)
      BY <2>3
    <3>3. e \o p \in Seq(Byte)
      BY <2>2, Joined
    <3> QED BY <3>1, <3>2, <3>3, Zenon
  <2> QED BY <2>4, <2>7, <2>8, <2>9, <2>10, <2>11, <2>12, Zenon
<1> HIDE DEF P
<1>4. ASSUME T # {} PROVE FALSE
  <2>1. PICK j \in T : \A y \in T : j <= y
    <3>1. T \subseteq Nat
      OBVIOUS
    <3> HIDE DEF T
    <3> QED BY <1>4, <3>1, LeastNumber
  <2>2. j \in Nat /\ j <= Len(d) /\ ~P(j)
    OBVIOUS
  <2>3. j # 0
    BY <1>2, <2>2
  <2>4. PICK k : k = j - 1
    OBVIOUS
  <2>5. k \in Nat /\ k < Len(d) /\ k + 1 = j /\ ~(j <= k)
    BY <1>1, <2>2, <2>3, <2>4
  <2>6. k \notin T
    <3> HIDE DEF T
    <3> QED BY <2>1, <2>5
  <2>7. P(k)
    BY <1>1, <2>5, <2>6
  <2> QED BY <1>3, <2>2, <2>5, <2>7
<1>5. P(Len(d))
  BY <1>1, <1>4
<1>6. Part(d, 0, Len(d)) = d
  <2>1. \A p \in Seq(Byte) : SubSeq(p, 1, Len(p)) = p
    OBVIOUS
  <2> QED BY <2>1 DEF Part
<1> QED BY <1>5, <1>6, Zenon DEF P

\* The callback for a message of the type.
MessageFn(type) == IF type = "BINARY" THEN "on_binary" ELSE "on_text"

\* The buffer holds e.
Buffered(e) ==
  /\ e \in Seq(Byte) /\ stream_buffer \in Seq(Byte)
  /\ stream_buffer_len = Len(e) /\ Len(e) <= Len(stream_buffer)
  /\ SubSeq(stream_buffer, 1, Len(e)) = e

\* The buffer behind the bytes it holds.
LEMMA Extended ==
  ASSUME NEW e, NEW d \in Seq(Byte), Buffered(e)
  PROVE  LET b == extended(Len(e), d)
         IN  /\ b \in Seq(Byte) /\ e \o d \in Seq(Byte) /\ Len(e \o d) = Len(e) + Len(d)
             /\ Len(e \o d) <= Len(b)
             /\ SubSeq(b, 1, Len(e \o d)) = e \o d
<1> DEFINE z == e \o d
<1>1. /\ e \in Seq(Byte) /\ Len(e) \in Nat /\ Len(d) \in Nat /\ stream_buffer \in Seq(Byte)
      /\ SubSeq(stream_buffer, 1, Len(e)) = e /\ Len(stream_buffer) \in Nat
  BY LenProperties DEF Buffered
<1>2. z \in Seq(Byte) /\ Len(z) = Len(e) + Len(d)
  BY <1>1, Joined
<1> HIDE DEF z
<1>3. CASE Len(e) + Len(d) = 0
  <2>1. extended(Len(e), d) = stream_buffer
    BY <1>3 DEF extended
  <2>2. Len(z) = 0
    BY <1>2, <1>3
  <2>3. z = << >> /\ SubSeq(stream_buffer, 1, 0) = << >>
    BY <1>1, <1>2, <2>2
  <2> QED BY <1>1, <1>2, <2>1, <2>2, <2>3 DEF z
<1>4. CASE Len(e) + Len(d) # 0
  <2>1. extended(Len(e), d) = z
    BY <1>1, <1>4 DEF extended, z
  <2>2. \A p \in Seq(Byte) : SubSeq(p, 1, Len(p)) = p /\ Len(p) <= Len(p)
    OBVIOUS
  <2> QED BY <1>2, <2>1, <2>2 DEF z
<1> QED BY <1>3, <1>4

\* What on_fragment leaves and tells.
LEMMA PieceHandled ==
  ASSUME NEW type \in {"TEXT", "BINARY"}, NEW info, NEW d \in Seq(Byte), NEW e, Buffered(e),
         "FIRST" \in info => info \cap {"BINARY", "TEXT"} = {type} /\ e = << >> /\ stream_buffer = << >>,
         "FIRST" \notin info => buffered_type = {type},
         default_on_fragment(info, d)
  PROVE  /\ "LAST" \in info => /\ told' = Append(told, Told(MessageFn(type), e \o d))
                               /\ stream_buffer' = << >> /\ stream_buffer_len' = 0
         /\ "LAST" \notin info => /\ told' = told /\ buffered_type' = {type}
                                  /\ Buffered(e \o d)'
<1> DEFINE z == e \o d
           b == extended(Len(e), d)
<1>1. /\ b \in Seq(Byte) /\ z \in Seq(Byte) /\ Len(z) = Len(e) + Len(d) /\ Len(z) <= Len(b)
      /\ SubSeq(b, 1, Len(z)) = z
  BY Extended
<1>2. stream_buffer_len = Len(e)
  BY DEF Buffered
<1>3. CASE whole_message(info, d)
  <2>1. /\ "FIRST" \in info /\ "LAST" \in info /\ e = << >> /\ stream_buffer = << >>
        /\ info \cap {"BINARY", "TEXT"} = {type}
    BY <1>3 DEF whole_message
  <2>2. told' = Append(told, Told(IF "BINARY" \in info THEN "on_binary" ELSE "on_text", d))
    BY <1>3 DEF whole_message, on_message
  <2>3. "BINARY" \in info <=> type = "BINARY"
    BY <2>1
  <2>4. << >> \o d = d
    OBVIOUS
  <2>5. stream_buffer' = << >> /\ stream_buffer_len' = 0
    BY <1>2, <1>3, <2>1, EmptySeq DEF whole_message
  <2>6. (IF "BINARY" \in info THEN "on_binary" ELSE "on_text") = MessageFn(type)
    BY <2>3 DEF MessageFn
  <2>7. told' = Append(told, Told(MessageFn(type), e \o d))
    BY <2>1, <2>2, <2>4, <2>6, Zenon
  <2> QED BY <2>1, <2>5, <2>7
<1>4. CASE message_part(info, d)
  <2>1. prev_length(info) = Len(e)
    BY <1>2, EmptySeq DEF prev_length
  <2>2. type_of(info) = {type}
    BY DEF type_of
  <2>3. extended(prev_length(info), d) = b /\ prev_length(info) + Len(d) = Len(z)
    BY <1>1, <2>1
  <2>4. buffered_type' = {type}
    BY <1>4, <2>2 DEF message_part
  <2>5. ASSUME "LAST" \in info
        PROVE  /\ told' = Append(told, Told(MessageFn(type), z))
               /\ stream_buffer' = << >> /\ stream_buffer_len' = 0
    <3>1. /\ on_message({type}, SubSeq(b, 1, Len(z)))
          /\ stream_buffer' = << >> /\ stream_buffer_len' = 0
      <4> HIDE DEF b, z
      <4> QED BY <1>4, <2>2, <2>3, <2>5, Zenon DEF message_part
    <3>2. told' = Append(told, Told(IF "BINARY" \in {type} THEN "on_binary" ELSE "on_text", z))
      <4> HIDE DEF b, z
      <4> QED BY <1>1, <3>1, Zenon DEF on_message
    <3>3. (IF "BINARY" \in {type} THEN "on_binary" ELSE "on_text") = MessageFn(type)
      BY DEF MessageFn
    <3> QED BY <3>1, <3>2, <3>3, Zenon
  <2>6. ASSUME "LAST" \notin info
        PROVE  told' = told /\ Buffered(z)'
    <3> HIDE DEF b, z
    <3>1. stream_buffer' = b /\ stream_buffer_len' = Len(z) /\ told' = told
      BY <1>4, <2>3, <2>6, Zenon DEF message_part
    <3> QED BY <1>1, <3>1 DEF Buffered
  <2> QED BY <2>4, <2>5, <2>6
<1> QED BY <1>3, <1>4 DEF default_on_fragment

-------------------------------------------------------------------------------
(* The handlers do what they owe *)

\* The type of the message that was told of and is open.
OpenType == IF "FIRST" \in fragment_info THEN "none" ELSE stream_type

\* The handlers did what they owe for what was told, and have the bytes e of the message.
Collects(e) ==
  /\ Owed(out) = Account(OpenType, e, told)
  /\ Buffered(e)
  /\ OpenType = "none" => e = << >> /\ stream_buffer = << >>
  /\ OpenType # "none" => buffered_type = {OpenType}

\* The inductive invariant of receiver and handlers.
HandlersInv == ReceiverInv /\ OpenFlags /\ \E e : Collects(e)

\* A header does not change the message that was told of.
LEMMA FlagsComplete ==
  ASSUME ReceiverInv, FlagsMatch, header_complete
  PROVE  FlagsMatch' /\ OpenType' = OpenType
<1>1. /\ Reading /\ RecvInv /\ header_valid /\ decoded.err = 0
  BY DEF header_complete, header_valid, ReceiverInv
<1>2. header_bytes \in Seq(Byte)
  BY <1>1, HeaderBytes DEF Reading
<1>3. decoded.delta \in Int
  BY <1>2, Decoded DEF decoded
<1>4. ~(decoded.delta < 0)
  BY <1>1, <1>3 DEF header_valid
<1>5. /\ decoded.opcode \in DataOpcodes \cup ControlOpcodes
      /\ (decoded.is_control <=> decoded.opcode \in ControlOpcodes)
  BY <1>1, <1>2, <1>4, DecodedKind DEF decoded
<1>6. frame = NoFrame /\ frame' = FrameOf(decoded)
  BY <1>1 DEF header_complete, FrameOf, Reading
<1>7. frame'.opcode = decoded.opcode /\ frame'.is_control = decoded.is_control
  BY <1>6 DEF FrameOf
<1>8. frame' # NoFrame
  BY <1>5, <1>7, SomeFrame
<1>9. "FIRST" \notin fragment_info /\ (stream_type = "none" <=> fragment_info = {})
      /\ fragment_info \subseteq {"FIRST", "CONT", "TEXT", "BINARY"}
  BY <1>6 DEF FlagsMatch
<1>10. CASE decoded.is_control /\ UNCHANGED <<stream_type, fragment_info>>
  BY <1>5, <1>7, <1>8, <1>9, <1>10 DEF FlagsMatch, OpenType
<1>11. CASE /\ continues_message
            /\ fragment_info' = (fragment_info \ {"BINARY", "TEXT"}) \cup {"CONT"}
            /\ UNCHANGED stream_type
  BY <1>5, <1>7, <1>8, <1>9, <1>11 DEF FlagsMatch, OpenType, continues_message
<1>12. CASE /\ begins_message /\ stream_type' = message_type
            /\ fragment_info' = {"FIRST", message_type}
  <2>1. message_type \in {"TEXT", "BINARY"} /\ stream_type = "none"
    BY <1>9, <1>12 DEF message_type, begins_message
  <2>2. ~decoded.is_control
    BY <1>5, <1>12 DEF begins_message, ControlOpcodes, WS_OPCODE_CONTINUATION,
                WS_OPCODE_TEXT, WS_OPCODE_BINARY, WS_OPCODE_CLOSE, WS_OPCODE_PING, WS_OPCODE_PONG
  <2> QED BY <1>5, <1>7, <1>8, <1>9, <1>12, <2>1, <2>2 DEF FlagsMatch, OpenType
<1> QED BY <1>10, <1>11, <1>12 DEF header_complete

\* A delivery leaves flags that match, and the message open if it was not the last.
LEMMA FlagsDelivered ==
  ASSUME ReceiverInv, OpenFlags, data_delivered
  PROVE  /\ FlagsMatch'
         /\ OpenType' = IF "LAST" \in data_info THEN "none" ELSE stream_type
<1>1. /\ RecvInv /\ FlagsMatch /\ frame # NoFrame /\ ~frame.is_control
      /\ stream_type \in {"TEXT", "BINARY"}
  BY PieceRead
<1>2. /\ fragment_info' = IF "LAST" \in data_info THEN {}
                          ELSE (data_info \ {"BINARY", "TEXT", "FIRST"}) \cup {"CONT"}
      /\ stream_type' = IF "LAST" \in data_info THEN "none" ELSE stream_type
      /\ frame' = IF data_left = 0 THEN NoFrame ELSE [frame EXCEPT !.payload_len = data_left]
  BY DEF data_delivered
<1>3. /\ fragment_info \subseteq {"FIRST", "CONT", "TEXT", "BINARY"}
      /\ frame.opcode \in DataOpcodes \cup ControlOpcodes
      /\ (frame.is_control <=> frame.opcode \in ControlOpcodes)
      /\ frame \in [opcode : {-1} \cup DataOpcodes \cup ControlOpcodes, fin : BOOLEAN,
                    is_control : BOOLEAN, payload_len : Nat]
  BY <1>1 DEF FlagsMatch, RecvInv, FrameIsValid
<1>4. data_info \subseteq {"FIRST", "CONT", "TEXT", "BINARY", "LAST"}
      /\ ("LAST" \in data_info => data_left = 0)
  BY <1>3 DEF data_info
<1>5. "FIRST" \notin fragment_info'
  BY <1>2
<1>6. OpenType' = IF "LAST" \in data_info THEN "none" ELSE stream_type
  BY <1>2, <1>5 DEF OpenType
<1>7. frame' # NoFrame => /\ "LAST" \notin data_info
                          /\ frame'.opcode = frame.opcode /\ frame'.is_control = frame.is_control
  BY <1>2, <1>3, <1>4
<1>8. /\ (stream_type' = "none" <=> fragment_info' = {})
      /\ fragment_info' \subseteq {"FIRST", "CONT", "TEXT", "BINARY"}
  BY <1>1, <1>2, <1>4
<1>9. FlagsMatch'
  BY <1>1, <1>2, <1>3, <1>5, <1>7, <1>8 DEF FlagsMatch
<1> QED BY <1>6, <1>9

\* The flags go on to match.
LEMMA FlagsSteps ==
  ASSUME ReceiverInv, OpenFlags, Next \/ UNCHANGED vars
  PROVE  OpenFlags'
<1>1. SUFFICES ASSUME ~close_received, ~close_received', FlagsMatch PROVE FlagsMatch'
  <2>1. close_received => close_received'
    BY DEF Next, process_frame, receive_cb, receive_cb_ignored, header_rejected, header_incomplete,
           header_complete, header_out_of_order, control_incomplete, control_dispatched,
           close_handled, text_rejected, data_delivered, Terminated, vars, _error_close
  <2> QED BY <2>1 DEF OpenFlags
<1>2. CASE \/ UNCHANGED vars \/ Terminated \/ header_incomplete \/ control_incomplete
           \/ \E n \in ChunkSizes[stream] : receive_cb(n) \/ receive_cb_ignored(n)
  <2>1. UNCHANGED <<stream_type, fragment_info, frame>>
    BY <1>2 DEF vars, Terminated, header_incomplete, control_incomplete, receive_cb,
                receive_cb_ignored, assembly
  <2> QED BY <1>1, <2>1, FlagsStay
<1>3. CASE header_rejected \/ header_out_of_order \/ close_handled \/ text_rejected
  <2>1. close_received'
    BY <1>3 DEF header_rejected, header_out_of_order, close_handled, text_rejected, _error_close
  <2> QED BY <1>1, <2>1
<1>4. CASE header_complete
  BY <1>1, <1>4, FlagsComplete
<1>5. CASE control_dispatched
  <2>1. UNCHANGED <<stream_type, fragment_info>> /\ frame' = NoFrame /\ frame.is_control
    BY <1>5 DEF control_dispatched, InControl
  <2> QED BY <1>1, <2>1, FlagsStay
<1>6. CASE data_delivered
  BY <1>6, FlagsDelivered
<1> QED BY <1>2, <1>3, <1>4, <1>5, <1>6 DEF Next, process_frame

\* A step that tells nothing and calls no handler.
LEMMA NothingToDo ==
  ASSUME NEW e, Collects(e), UNCHANGED <<handler_vars, out>>, OpenType' = OpenType
  PROVE  Collects(e)'
BY DEF Collects, Buffered, handler_vars

\* The end, or a pong: it is told and calls no handler.
LEMMA NothingToAnswer ==
  ASSUME ReceiverInv, NEW e, Collects(e), UNCHANGED handler_vars, OpenType' = OpenType,
         NEW x \in Item, out' = Append(out, x),
         x.fn \in {"on_close", "error"} \/ \E data : x = Control("on_pong", data)
  PROVE  Collects(e)'
<1>1. PICK t, m : t = OpenType /\ m = told
  OBVIOUS
<1>2. Owed(out) = Account(t, e, m)
  BY <1>1, Zenon DEF Collects
<1>3. Owed(out') = OwedStep(Owed(out), x)
  <2>1. out \in Seq(Item)
    BY DEF ReceiverInv, ToldInv
  <2>2. Owed(Append(out, x)) = OwedStep(Owed(out), x)
    BY <2>1, OwedAppend
  <2> QED BY <2>2, Zenon
<1>4. OwedStep(Account(t, e, m), x) = Account(t, e, m)
  <2>1. CASE x.fn \in {"on_close", "error"}
    BY <2>1, OwedSteps
  <2>2. CASE \E data : x = Control("on_pong", data)
    BY <2>2, OwedSteps
  <2> QED BY <2>1, <2>2
<1>5. told' = told /\ stream_buffer' = stream_buffer /\ stream_buffer_len' = stream_buffer_len
      /\ buffered_type' = buffered_type
  BY DEF handler_vars
<1>6. Owed(out)' = Account(OpenType, e, told)'
  <2>1. OpenType' = t /\ told' = m
    BY <1>1, <1>5
  <2>2. Owed(out') = Account(t, e, m)
    BY <1>2, <1>3, <1>4, Zenon
  <2> QED BY <2>1, <2>2, Zenon
<1> QED BY <1>5, <1>6 DEF Collects, Buffered

\* A ping is answered.
LEMMA PingAnswered ==
  ASSUME ReceiverInv, NEW e, Collects(e), OpenType' = OpenType, NEW data \in Seq(Byte),
         out' = Append(out, Control("on_ping", data)), default_on_ping(data)
  PROVE  Collects(e)'
<1>1. PICK t, m, x : t = OpenType /\ m = told /\ x = Control("on_ping", data)
  OBVIOUS
<1>2. Owed(out) = Account(t, e, m)
  BY <1>1, Zenon DEF Collects
<1>3. Owed(out') = OwedStep(Owed(out), x)
  <2>1. out \in Seq(Item) /\ x \in Item
    BY <1>1, Items DEF ReceiverInv, ToldInv
  <2>2. Owed(Append(out, x)) = OwedStep(Owed(out), x)
    BY <2>1, OwedAppend
  <2> QED BY <1>1, <2>2, Zenon
<1>4. PICK n : n = Append(m, Told("cws_pong", data))
  OBVIOUS
<1>5. OwedStep(Account(t, e, m), x) = Account(t, e, n)
  BY <1>1, <1>4, OwedSteps
<1>6. told' = n /\ stream_buffer' = stream_buffer /\ stream_buffer_len' = stream_buffer_len
      /\ buffered_type' = buffered_type
  BY <1>1, <1>4 DEF default_on_ping
<1>7. Owed(out)' = Account(OpenType, e, told)'
  <2>1. OpenType' = t /\ told' = n
    BY <1>1, <1>6
  <2>2. Owed(out') = Account(t, e, n)
    BY <1>2, <1>3, <1>5, Zenon
  <2> QED BY <2>1, <2>2, Zenon
<1> QED BY <1>6, <1>7 DEF Collects, Buffered

\* The message of a piece is owed its bytes.
LEMMA PieceOwed ==
  ASSUME ReceiverInv, OpenFlags, NEW e, Collects(e), data_delivered
  PROVE  LET z == e \o data_result.send
         IN  /\ "LAST" \notin data_info => Owed(out') = Account(stream_type, z, told)
             /\ "LAST" \in data_info =>
                  Owed(out') = Account("none", << >>, Append(told, Told(MessageFn(stream_type), z)))
<1>1. PICK t, m, d : t = stream_type /\ m = told /\ d = data_result.send
  OBVIOUS
<1>2. /\ FlagsMatch /\ t \in {"TEXT", "BINARY"} /\ d \in Seq(Byte)
      /\ out \in Seq(Item) /\ Heard \in Seq(Item)
  BY <1>1, PieceRead
<1>3. e \in Seq(Byte)
  BY DEF Collects, Buffered
<1>4. Owed(Heard) = Account(t, e, m)
  <2>1. CASE "FIRST" \in fragment_info
    <3>1. Owed(out) = Account("none", << >>, m) /\ e = << >>
      BY <1>1, <2>1 DEF Collects, OpenType
    <3>2. PICK x : x = Started(t)
      OBVIOUS
    <3>3. Heard = Append(out, x) /\ x \in Item
      BY <1>1, <1>2, <2>1, <3>2, Items DEF Heard
    <3>4. Owed(Heard) = OwedStep(Owed(out), x)
      <4>1. Owed(Append(out, x)) = OwedStep(Owed(out), x)
        BY <1>2, <3>3, OwedAppend
      <4> QED BY <3>3, <4>1, Zenon
    <3>5. OwedStep(Account("none", << >>, m), x) = Account(t, << >>, m)
      BY <3>2, OwedSteps
    <3> QED BY <3>1, <3>4, <3>5, Zenon
  <2>2. CASE "FIRST" \notin fragment_info
    <3>1. Heard = out /\ OpenType = t
      BY <1>1, <2>2 DEF Heard, OpenType
    <3> QED BY <1>1, <3>1, Zenon DEF Collects
  <2> QED BY <2>1, <2>2
<1>5. PICK o, z : o = Heard \o DataBytes(d) /\ z = e \o d
  OBVIOUS
<1>6. Owed(o) = Account(t, z, m)
  <2>1. Owed(Heard \o DataBytes(d)) = Account(t, e \o d, m)
    BY <1>2, <1>3, <1>4, OwedBytes
  <2> QED BY <1>5, <2>1, Zenon
<1>7. o \in Seq(Item)
  <2>1. DataBytes(d) \in Seq(Item)
    BY <1>2, DataItems
  <2>2. \A p, q \in Seq(Item) : p \o q \in Seq(Item)
    OBVIOUS
  <2> QED BY <1>2, <1>5, <2>1, <2>2, Zenon
<1>8. CASE "LAST" \notin data_info
  <2>1. out' = o
    BY <1>1, <1>5, <1>8, PieceTold, Zenon
  <2>2. Owed(out') = Account(t, z, m)
    BY <1>6, <2>1, Zenon
  <2> QED BY <1>1, <1>5, <1>8, <2>2, Zenon
<1>9. CASE "LAST" \in data_info
  <2>1. out' = Append(o, Ended)
    BY <1>1, <1>5, <1>9, PieceTold, Zenon
  <2>2. Owed(Append(o, Ended)) = OwedStep(Owed(o), Ended)
    BY <1>7, Items, OwedAppend
  <2>3. OwedStep(Account(t, z, m), Ended)
          = Account("none", << >>, Append(m, Told(IF t = "BINARY" THEN "on_binary" ELSE "on_text", z)))
    BY OwedSteps
  <2>4. Owed(out') = Account("none", << >>, Append(m, Told(MessageFn(t), z)))
    BY <1>6, <2>1, <2>2, <2>3, Zenon DEF MessageFn
  <2> QED BY <1>1, <1>5, <1>9, <2>4, Zenon
<1> QED BY <1>8, <1>9

\* A piece is kept, or is the last one and the message is told.
LEMMA PieceCollected ==
  ASSUME ReceiverInv, OpenFlags, NEW e, Collects(e), fragment_handled
  PROVE  \E c : Collects(c)'
<1>1. data_delivered
  BY DEF fragment_handled
<1>2. PICK t, d : t = stream_type /\ d = data_result.send
  OBVIOUS
<1>3. FlagsMatch /\ t \in {"TEXT", "BINARY"} /\ d \in Seq(Byte) /\ "LAST" \notin fragment_info
  BY <1>1, <1>2, PieceRead
<1>4. OpenType' = IF "LAST" \in data_info THEN "none" ELSE t
  BY <1>1, <1>2, FlagsDelivered
<1>5. "FIRST" \in data_info <=> "FIRST" \in fragment_info
  BY DEF data_info
<1>6. PICK z : z = e \o d
  OBVIOUS
<1>7. /\ "LAST" \notin data_info => Owed(out') = Account(t, z, told)
      /\ "LAST" \in data_info =>
           Owed(out') = Account("none", << >>, Append(told, Told(MessageFn(t), z)))
  BY <1>1, <1>2, <1>6, PieceOwed, Zenon
<1>8. Buffered(e)
  BY DEF Collects
<1>9. CASE has_something
  <2>1. default_on_fragment(data_info, d)
    BY <1>2, <1>9 DEF fragment_handled
  <2>2. "FIRST" \in data_info => data_info \cap {"BINARY", "TEXT"} = {t} /\ e = << >> /\ stream_buffer = << >>
    <3>1. "FIRST" \in data_info => data_info \cap {"BINARY", "TEXT"} = {t}
      BY <1>2, <1>3, <1>5 DEF FlagsMatch, data_info
    <3>2. "FIRST" \in data_info => e = << >> /\ stream_buffer = << >>
      BY <1>5 DEF Collects, OpenType
    <3> QED BY <3>1, <3>2
  <2>3. "FIRST" \notin data_info => buffered_type = {t}
    BY <1>2, <1>3, <1>5 DEF Collects, OpenType
  <2>4. /\ "LAST" \in data_info => /\ told' = Append(told, Told(MessageFn(t), z))
                                   /\ stream_buffer' = << >> /\ stream_buffer_len' = 0
        /\ "LAST" \notin data_info => /\ told' = told /\ buffered_type' = {t}
                                      /\ Buffered(z)'
    <3>1. PICK info : info = data_info
      OBVIOUS
    <3>2. /\ "LAST" \in info => /\ told' = Append(told, Told(MessageFn(t), e \o d))
                                /\ stream_buffer' = << >> /\ stream_buffer_len' = 0
          /\ "LAST" \notin info => /\ told' = told /\ buffered_type' = {t}
                                   /\ Buffered(e \o d)'
      BY <1>3, <1>8, <2>1, <2>2, <2>3, <3>1, PieceHandled
    <3> QED BY <1>6, <3>1, <3>2
  <2>5. CASE "LAST" \notin data_info
    <3>1. OpenType' = t
      BY <1>4, <2>5
    <3>2. Owed(out)' = Account(OpenType, z, told)'
      BY <1>7, <2>4, <2>5, <3>1, Zenon
    <3>3. t # "none"
      BY <1>3
    <3>4. Collects(z)'
      BY <2>4, <2>5, <3>1, <3>2, <3>3, Zenon DEF Collects
    <3> QED BY <3>4
  <2>6. CASE "LAST" \in data_info
    <3>1. OpenType' = "none"
      BY <1>4, <2>6
    <3>2. PICK c : c = << >>
      OBVIOUS
    <3>3. Owed(out)' = Account(OpenType, c, told)'
      BY <1>7, <2>4, <2>6, <3>1, <3>2, Zenon
    <3>4. Buffered(c)'
      <4>1. c \in Seq(Byte) /\ Len(c) = 0 /\ SubSeq(c, 1, 0) = c
        BY <3>2, EmptySeq
      <4>2. stream_buffer' = c /\ stream_buffer_len' = 0
        BY <2>4, <2>6, <3>2
      <4> QED BY <4>1, <4>2 DEF Buffered
    <3>5. stream_buffer' = << >>
      BY <2>4, <2>6
    <3>6. Collects(c)'
      BY <3>1, <3>2, <3>3, <3>4, <3>5, Zenon DEF Collects
    <3> QED BY <3>6
  <2> QED BY <2>5, <2>6
<1>10. CASE ~has_something
  <2>1. /\ UNCHANGED handler_vars /\ out' = out /\ "FIRST" \notin fragment_info
        /\ "LAST" \notin data_info
    BY <1>1, <1>5, <1>10 DEF fragment_handled, data_delivered, has_something
  <2>2. OpenType = t /\ OpenType' = t
    BY <1>2, <1>4, <2>1 DEF OpenType
  <2>3. Collects(e)'
    BY <2>1, <2>2, NothingToDo
  <2> QED BY <2>3
<1> QED BY <1>9, <1>10

\* Every step of the receiver and its handlers keeps what they owe.
LEMMA HandlersSteps ==
  ASSUME HandlersInv, DeliveryNext \/ UNCHANGED delivery_vars
  PROVE  HandlersInv'
<1>1. ReceiverInv /\ OpenFlags /\ (Next \/ UNCHANGED vars)
  BY DeliverySteps DEF HandlersInv
<1>2. ReceiverInv' /\ OpenFlags'
  BY <1>1, ReceiverSteps, FlagsSteps
<1>3. PICK e : Collects(e)
  BY DEF HandlersInv
<1>4. ASSUME pc = "loop" PROVE RecvInv /\ ~close_received /\ FlagsMatch
  BY <1>1, <1>4 DEF ReceiverInv, RecvInv, LoopIsOpen, OpenFlags
<1>5. CASE UNCHANGED delivery_vars \/ (Terminated /\ UNCHANGED handler_vars) \/ curl_delivers
  <2>1. UNCHANGED <<handler_vars, out, stream_type, fragment_info>>
    BY <1>5 DEF delivery_vars, vars, Terminated, curl_delivers, receive_cb, receive_cb_ignored, assembly
  <2>2. OpenType' = OpenType
    BY <2>1 DEF OpenType
  <2>3. Collects(e)'
    BY <1>3, <2>1, <2>2, NothingToDo
  <2> QED BY <1>2, <2>3 DEF HandlersInv
<1>6. CASE fragment_handled
  <2>1. \E c : Collects(c)'
    BY <1>1, <1>3, <1>6, PieceCollected
  <2> QED BY <1>2, <2>1 DEF HandlersInv
<1>7. CASE control_frame_handled
  <2>1. control_dispatched /\ InControl
    BY <1>7 DEF control_frame_handled, control_dispatched
  <2>2. OpenType' = OpenType
    BY <2>1 DEF control_dispatched, OpenType
  <2>3. PICK c : c = control_bytes
    OBVIOUS
  <2>4. c \in Seq(Byte)
    BY <1>4, <2>1, <2>3, ControlBytes DEF InControl
  <2>5. CASE frame.opcode = WS_OPCODE_PING
    <3>1. out' = Append(out, Control("on_ping", c)) /\ default_on_ping(c)
      BY <1>7, <2>1, <2>3, <2>5 DEF control_frame_handled, control_dispatched,
                                    WS_OPCODE_PING, WS_OPCODE_PONG
    <3>2. Collects(e)'
      BY <1>1, <1>3, <2>2, <2>4, <3>1, PingAnswered
    <3> QED BY <1>2, <3>2 DEF HandlersInv
  <2>6. CASE frame.opcode # WS_OPCODE_PING
    <3>1. out' = Append(out, Control("on_pong", c)) /\ UNCHANGED handler_vars
      BY <1>7, <2>1, <2>3, <2>6 DEF control_frame_handled, control_dispatched
    <3>2. PICK x : x = Control("on_pong", c)
      OBVIOUS
    <3>3. x \in Item
      BY <2>4, <3>2, Items
    <3>4. Collects(e)'
      BY <1>1, <1>3, <2>2, <3>1, <3>2, <3>3, NothingToAnswer
    <3> QED BY <1>2, <3>4 DEF HandlersInv
  <2> QED BY <2>5, <2>6
<1>8. CASE unhandled
  <2>1. UNCHANGED handler_vars
    BY <1>8 DEF unhandled
  <2>2. CASE header_incomplete \/ control_incomplete
    <3>1. UNCHANGED <<out, stream_type, fragment_info>>
      BY <2>2 DEF header_incomplete, control_incomplete, assembly
    <3>2. Collects(e)'
      BY <1>3, <2>1, <3>1, NothingToDo DEF OpenType
    <3> QED BY <1>2, <3>2 DEF HandlersInv
  <2>3. CASE header_complete
    <3>1. pc = "loop" /\ out' = out
      BY <2>3 DEF header_complete, header_valid, Reading
    <3>2. OpenType' = OpenType
      BY <1>1, <1>4, <2>3, <3>1, FlagsComplete
    <3>3. Collects(e)'
      BY <1>3, <2>1, <3>1, <3>2, NothingToDo
    <3> QED BY <1>2, <3>3 DEF HandlersInv
  <2>4. CASE header_rejected \/ header_out_of_order \/ text_rejected
    <3>1. UNCHANGED <<stream_type, fragment_info>>
      <4>1. CASE header_rejected
        BY <4>1 DEF header_rejected, assembly
      <4>2. CASE header_out_of_order
        BY <4>2 DEF header_out_of_order, assembly
      <4>3. CASE text_rejected
        BY <4>3 DEF text_rejected
      <4> QED BY <2>4, <4>1, <4>2, <4>3
    <3>2. PICK x \in Item : out' = Append(out, x) /\ x.fn \in {"on_close", "error"}
      <4>1. PICK code \in Nat : _error_close(code)
        <5>1. _error_close(1002) \/ _error_close(1007)
          BY <2>4, Zenon DEF header_rejected, header_out_of_order, text_rejected
        <5> QED BY <5>1
      <4>2. PICK x : x = Failed(code)
        OBVIOUS
      <4>3. x \in Item
        BY <4>2, Items, Zenon
      <4>4. x.fn = "error"
        BY <4>2 DEF Failed
      <4>5. out' = Append(out, x)
        BY <4>1, <4>2, Zenon DEF _error_close
      <4> QED BY <4>3, <4>4, <4>5
    <3>3. OpenType' = OpenType
      BY <3>1 DEF OpenType
    <3>4. Collects(e)'
      BY <1>1, <1>3, <2>1, <3>2, <3>3, NothingToAnswer
    <3> QED BY <1>2, <3>4 DEF HandlersInv
  <2>5. CASE close_handled
    <3>1. InControl /\ UNCHANGED <<stream_type, fragment_info>>
      BY <2>5 DEF close_handled
    <3>2. PICK x : x = close_outcome(control_bytes)
      OBVIOUS
    <3>3. x \in Item /\ x.fn \in {"on_close", "error"} /\ out' = Append(out, x)
      BY <1>4, <2>5, <3>1, <3>2, ControlBytes, CloseOutcome DEF close_handled, InControl, EndCalls
    <3>4. OpenType' = OpenType
      BY <3>1 DEF OpenType
    <3>5. Collects(e)'
      BY <1>1, <1>3, <2>1, <3>3, <3>4, NothingToAnswer
    <3> QED BY <1>2, <3>5 DEF HandlersInv
  <2> QED BY <1>8, <2>2, <2>3, <2>4, <2>5 DEF unhandled
<1> QED BY <1>5, <1>6, <1>7, <1>8 DEF DeliveryNext, handled_frame

\* Nothing is owed in the beginning.
LEMMA HandlersInitially ==
  ASSUME DeliveryInit
  PROVE  HandlersInv
<1>1. /\ Init /\ buffered_type = {} /\ stream_buffer = << >> /\ stream_buffer_len = 0 /\ told = << >>
  BY DEF DeliveryInit, HandlersInit
<1>2. /\ out = << >> /\ stream_type = "none" /\ fragment_info = {} /\ frame = NoFrame
  BY <1>1 DEF Init
<1>3. ReceiverInv
  BY <1>1, ReceiverInitially
<1>4. OpenFlags
  BY <1>2 DEF OpenFlags, FlagsMatch
<1>5. PICK e : e = << >>
  OBVIOUS
<1>6. OpenType = "none"
  BY <1>2 DEF OpenType
<1>7. Owed(out) = Account(OpenType, e, told)
  BY <1>1, <1>2, <1>5, <1>6, OwedForNothing, Zenon
<1>8. Buffered(e)
  <2>1. e \in Seq(Byte) /\ Len(e) = 0 /\ SubSeq(e, 1, 0) = e
    BY <1>5, EmptySeq
  <2> QED BY <1>1, <1>5, <2>1 DEF Buffered
<1>9. Collects(e)
  BY <1>1, <1>5, <1>6, <1>7, <1>8, Zenon DEF Collects
<1> QED BY <1>3, <1>4, <1>9 DEF HandlersInv

\* For every byte stream, text that strays included, the default handlers have at every
\* step told and buffered what they owe for what the receiver has told them.
THEOREM HandlersInvariant == DeliverySpec => []HandlersInv
<1>1. DeliveryInit => HandlersInv
  BY HandlersInitially
<1>2. HandlersInv /\ [DeliveryNext]_delivery_vars => HandlersInv'
  BY HandlersSteps
<1> QED BY <1>1, <1>2, PTL DEF DeliverySpec

\* Between callbacks the messages told are those of the bytes received ...
LEMMA MessagesWhole ==
  ASSUME HandlersInv, OutIsByteByByte
  PROVE  MessagesAreWhole
<1>1. PICK e : Owed(out) = Account(OpenType, e, told)
  BY DEF HandlersInv, Collects
<1>2. \A t, d, m : Account(t, d, m).told = m
  BY DEF Account
<1>3. Owed(out).told = told
  <2>1. PICK a : a = Account(OpenType, e, told)
    OBVIOUS
  <2>2. a.told = told /\ Owed(out) = a
    BY <1>1, <1>2, <2>1
  <2> QED BY <2>2, Zenon
<1> QED BY <1>3, Zenon DEF MessagesAreWhole, OutIsByteByByte

\* ... and the buffer holds the bytes of the open one.
LEMMA BufferOpen ==
  ASSUME HandlersInv, ByteInv
  PROVE  BufferIsOpenMessage
<1>1. SUFFICES ASSUME pc = "idle", ~close_received
               PROVE  LET s == Owed(After(stream)[at].out)
                      IN  /\ stream_buffer_len = Len(s.data)
                          /\ SubSeq(stream_buffer, 1, stream_buffer_len) = s.data
                          /\ s.type = "none" => stream_buffer = << >>
  BY DEF BufferIsOpenMessage
<1>2. PICK e : Collects(e)
  BY DEF HandlersInv
<1>3. PICK s : s = Owed(out)
  OBVIOUS
<1>4. s = Owed(After(stream)[at].out)
  BY <1>1, <1>3, ToldTheSame, Zenon DEF OutIsByteByByte
<1>5. s = Account(OpenType, e, told)
  BY <1>2, <1>3, Zenon DEF Collects
<1>6. s.data = e /\ s.type = OpenType
  <2>1. \A t, d, m : Account(t, d, m).data = d /\ Account(t, d, m).type = t
    BY DEF Account
  <2> QED BY <1>5, <2>1, Zenon
<1>7. stream_buffer_len = Len(e) /\ SubSeq(stream_buffer, 1, stream_buffer_len) = e
  BY <1>2 DEF Collects, Buffered
<1>8. OpenType = "none" => stream_buffer = << >>
  BY <1>2 DEF Collects
<1> QED BY <1>4, <1>6, <1>7, <1>8, Zenon

\* Messages are told whole, once and in order, and every ping is answered, for every byte
\* stream and every cutting of it into chunks in which no text strays.
THEOREM MessagesComeWhole ==
  DeliverySpec /\ [][~TextStrays]_delivery_vars => []MessagesAreWhole
<1>1. HandlersInv /\ OutIsByteByByte => MessagesAreWhole
  BY MessagesWhole
<1> QED BY <1>1, HandlersInvariant, ToldByteByByte, PTL

\* In these the buffer holds the open message.
THEOREM BufferHoldsOpenMessage ==
  DeliverySpec /\ [][~TextStrays]_delivery_vars => []BufferIsOpenMessage
<1>1. HandlersInv /\ ByteInv => BufferIsOpenMessage
  BY BufferOpen
<1> QED BY <1>1, HandlersInvariant, ByteByByte, PTL

\* A server that sends no text needs no such condition.
THEOREM BinaryComesWhole ==
  DeliverySpec /\ [](stream_type # "TEXT") => [](MessagesAreWhole /\ BufferIsOpenMessage)
<1>1. stream_type # "TEXT" => [~TextStrays]_delivery_vars
  BY DEF TextStrays
<1> QED BY <1>1, MessagesComeWhole, BufferHoldsOpenMessage, PTL
===============================================================================
