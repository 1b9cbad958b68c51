------------------------------ MODULE FrameCodec ------------------------------
(***************************************************************************)
(* The websocket frame header of curlws: the sizes of ws.h, and            *)
(* frame_encode, frame_decode and frame_validate of frame.c.  Bytes are    *)
(* numbers in 0..255, a buffer is a sequence of them.  The payload is      *)
(* represented by its length; masking the payload is not part of this      *)
(* module (only the header carries control information).                   *)
(***************************************************************************)
EXTENDS Integers, Sequences

\* ws.h: the sizes, in bytes.
WS_FRAME_HEADER_MIN  == 2
WS_FRAME_HEADER_MASK == 4
WS_FRAME_HEADER_MAX  == 14
WS_CTL_PAYLOAD_MAX   == 125
WS_CTL_FRAME_MAX     == WS_FRAME_HEADER_MIN + WS_FRAME_HEADER_MASK + WS_CTL_PAYLOAD_MAX
UINT16_MAX           == 65535

\* ws.h: the opcodes.
WS_OPCODE_CONTINUATION == 0
WS_OPCODE_TEXT         == 1
WS_OPCODE_BINARY       == 2
WS_OPCODE_CLOSE        == 8
WS_OPCODE_PING         == 9
WS_OPCODE_PONG         == 10
DataOpcodes    == {WS_OPCODE_CONTINUATION, WS_OPCODE_TEXT, WS_OPCODE_BINARY}
ControlOpcodes == {WS_OPCODE_CLOSE, WS_OPCODE_PING, WS_OPCODE_PONG}

Byte == 0..255

\* ws.c: the close codes an endpoint may send.
is_close_code_valid(code) ==
  code \in 3000..4999 \cup 1000..1003 \cup 1007..1011

(***************************************************************************)
(* frame_encode.  The header of a masked client frame: the length takes 0, *)
(* 2 or 8 bytes after the first two, then the 4 bytes of the masking key.  *)
(***************************************************************************)
\* A number as 2 or 8 bytes, most significant first (sizeof(size_t) = 8).
Bytes2(n) == <<(n \div 256) % 256, n % 256>>
Bytes8(n) == <<0, 0, 0, 0, (n \div 16777216) % 256, (n \div 65536) % 256>> \o Bytes2(n)

\* Mutant: the greatest length of the short form is off by one.
encoded_header_len_126(n) ==
  IF n <= 126             THEN WS_FRAME_HEADER_MIN + WS_FRAME_HEADER_MASK
  ELSE IF n <= UINT16_MAX THEN WS_FRAME_HEADER_MIN + 2 + WS_FRAME_HEADER_MASK
  ELSE WS_FRAME_HEADER_MAX

encoded_header_len(n) ==
  IF n <= 125             THEN WS_FRAME_HEADER_MIN + WS_FRAME_HEADER_MASK
  ELSE IF n <= UINT16_MAX THEN WS_FRAME_HEADER_MIN + 2 + WS_FRAME_HEADER_MASK
  ELSE WS_FRAME_HEADER_MAX

\* The header bytes of a frame with payload length n (n < 2^32: Bytes8).
encoded_header(fin, opcode, n, key) ==
  LET b0 == (IF fin THEN 128 ELSE 0) + opcode
  IN  IF n <= 125             THEN <<b0, 128 + n>> \o key
      ELSE IF n <= UINT16_MAX THEN <<b0, 128 + 126>> \o Bytes2(n) \o key
      ELSE <<b0, 128 + 127>> \o Bytes8(n) \o key

\* The bytes written into a buffer of len bytes: 0 when the frame does not fit.
frame_encode(n, len) ==
  IF \/ len < WS_FRAME_HEADER_MIN + WS_FRAME_HEADER_MASK + n
     \/ len < encoded_header_len(n) + n
  THEN 0
  ELSE encoded_header_len(n) + n

(***************************************************************************)
(* _frame_decode.  The result is a record: err is the error code (0 when   *)
(* there is none), delta the bytes still needed (negative) or the bytes    *)
(* used (positive), and the fields of the frame when it is complete.       *)
(***************************************************************************)
DecodeError(e) == [err |-> e, delta |-> 0]

NeedMore(d) == [err |-> 0, delta |-> d]

\* Bytes of the extended length that follow the first two bytes.
ext_len_bytes(len7) == CASE len7 = 126 -> 2 [] len7 = 127 -> 8 [] OTHER -> 0

\* The number in the eight bytes behind the first two, most significant first.
Value8(buf) ==
  LET two(i) == buf[i] * 256 + buf[i + 1]
  IN  ((two(3) * 65536 + two(5)) * 65536 + two(7)) * 65536 + two(9)

\* Mutant: the bytes of a length are taken in the wrong order.
payload_length_swapped(buf, len7) ==
  IF len7 = 126      THEN buf[4] * 256 + buf[3]
  ELSE IF len7 = 127 THEN Value8(buf)
  ELSE len7

payload_length(buf, len7) ==
  IF len7 = 126      THEN buf[3] * 256 + buf[4]
  ELSE IF len7 = 127 THEN Value8(buf)
  ELSE len7

frame_decode(buf) ==
  LET used == Len(buf)
      len7 == buf[2] % 128
      mask == buf[2] \div 128
      opcode == buf[1] % 16
      body == WS_FRAME_HEADER_MIN + ext_len_bytes(len7)   \* header without the key
      all  == body + mask * WS_FRAME_HEADER_MASK
      n    == payload_length(buf, len7)
  IN  IF used < WS_FRAME_HEADER_MIN                     THEN NeedMore(used - WS_FRAME_HEADER_MIN)
      ELSE IF (buf[1] \div 16) % 8 # 0                   THEN DecodeError(-1)
      ELSE IF opcode \notin DataOpcodes \cup ControlOpcodes THEN DecodeError(-2)
      ELSE IF used < body                               THEN NeedMore(used - body)
      ELSE IF len7 = 126 /\ n < 126                     THEN DecodeError(-3)
      ELSE IF len7 = 127 /\ buf[3] >= 128               THEN DecodeError(-4)
      ELSE IF len7 = 127 /\ n <= UINT16_MAX             THEN DecodeError(-5)
      ELSE IF used < all                                THEN NeedMore(used - all)
      ELSE [err         |-> 0,
            delta       |-> all,
            fin         |-> buf[1] >= 128,
            opcode      |-> opcode,
            is_control  |-> opcode \in ControlOpcodes,
            mask        |-> mask,
            payload_len |-> n]

\* Mutant: the length of a control frame is not checked.
frame_validate_any_length(f) ==
  IF f.mask # 0 THEN -1 ELSE IF f.is_control /\ ~f.fin THEN -4 ELSE 0

\* frame_validate(f, FRAME_DIR_S2C): a frame from the server is not masked, a
\* control frame is whole and short.
frame_validate_S2C(f) ==
  CASE f.mask # 0                                             -> -1
    [] f.mask = 0 /\ f.is_control /\ ~f.fin                   -> -4
    [] f.mask = 0 /\ f.is_control /\ f.fin
         /\ f.payload_len > WS_CTL_PAYLOAD_MAX                -> -3
    [] OTHER                                                  -> 0
===============================================================================
