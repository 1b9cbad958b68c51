------------------------------- MODULE Receive --------------------------------
(***************************************************************************)
(* The receiving half of a curlws connection: receive.c.  Curl passes the  *)
(* bytes of the server to _receive_cb in chunks of any size; the library   *)
(* assembles frame headers, control frames and characters across chunks    *)
(* and calls the application back.  One step is one call of                *)
(* _process_frame_header, _process_control_frame or _process_data_frame.   *)
(*                                                                         *)
(* The bytes a redirected response carries are ignored (an early return    *)
(* that changes nothing) and are not part of the stream.                   *)
(***************************************************************************)
EXTENDS ByteReceiver, Utf8

CONSTANTS
  Streams,     \* the byte sequences the server may send
  ChunkSizes   \* the sizes of the buffers in which curl delivers each of them

ASSUME ReceiveAssumption ==
  /\ Streams \subseteq Seq(Byte)
  /\ ChunkSizes \in [Streams -> SUBSET (Nat \ {0})]

VARIABLES
  stream,         \* what this server sends
  at,             \* the bytes of it that are consumed
  len,            \* the bytes of the current chunk that are not
  pc,             \* "idle", or "loop" in the loop of _receive_cb
  prev_len,       \* len at the start of this iteration of the loop
  stream_type,    \* recv.stream_type
  fragment_info,  \* recv.fragment_info, a set of flags
  utf8,           \* recv.utf8: the bytes used, and the number needed
  frame,          \* recv.frame
  header,         \* recv.header: the bytes used, and the number needed
  control,        \* recv.control: the bytes used
  close_received, \* CLOSE_RECEIVED in close_state
  piece,          \* history: the last on_fragment call
  out             \* history: what the application was told

vars == <<stream, at, len, pc, prev_len, stream_type, fragment_info, utf8, frame, header,
          control, close_received, piece, out>>

assembly == <<stream_type, fragment_info, utf8, control>>

MinOf(a, b) == IF a < b THEN a ELSE b
Taken(k)    == SubSeq(stream, at + 1, at + k)    \* the next k bytes

\* Mutant: the loop does not end with the chunk.
advance_forever(l, closed) ==
  IF closed THEN pc' = "idle" /\ len' = 0 /\ prev_len' = 0 /\ at' = at + len
            ELSE pc' = "loop" /\ len' = l /\ prev_len' = l /\ at' = at + (len - l)

\* The loop of _receive_cb goes on with l bytes, or the callback returns and the
\* rest of the chunk counts as processed.
advance(l, closed) ==
  IF l = 0 \/ l = prev_len \/ closed
  THEN pc' = "idle" /\ len' = 0 /\ prev_len' = 0 /\ at' = at + len
  ELSE pc' = "loop" /\ len' = l /\ prev_len' = l /\ at' = at + (len - l)

\* _error_close, as far as the receiver sees it: what the sending side does with
\* the close is module SendQueue.
_error_close(code) ==
  /\ close_received' = TRUE
  /\ out' = Append(out, Failed(code))

-------------------------------------------------------------------------------
\* Mutant: bytes after a close are processed.
receive_cb_after_close(n) ==
  /\ pc = "idle"
  /\ n <= Len(stream) - at
  /\ pc' = "loop" /\ len' = n /\ prev_len' = n
  /\ UNCHANGED <<stream, at, assembly, frame, header, close_received, piece, out>>

\* A callback of curl with n bytes.
receive_cb(n) ==
  /\ pc = "idle"
  /\ n <= Len(stream) - at
  /\ ~close_received
  /\ pc' = "loop" /\ len' = n /\ prev_len' = n
  /\ UNCHANGED <<stream, at, assembly, frame, header, close_received, piece, out>>

receive_cb_ignored(n) ==
  /\ pc = "idle"
  /\ n <= Len(stream) - at
  /\ close_received
  /\ at' = at + n
  /\ UNCHANGED <<stream, len, pc, prev_len, assembly, frame, header, close_received, piece, out>>

-------------------------------------------------------------------------------
(* _process_frame_header, and the start of _cws_process_frame *)

header_needed == IF header.needed = 0 THEN WS_FRAME_HEADER_MIN ELSE header.needed
header_taken  == MinOf(header_needed, len)
header_bytes  == header.buf \o Taken(header_taken)
decoded       == frame_decode(header_bytes)

Reading == pc = "loop" /\ frame = NoFrame

header_rejected ==
  /\ Reading
  /\ \/ decoded.err # 0
     \/ decoded.err = 0 /\ 0 < decoded.delta /\ frame_validate_S2C(decoded) # 0
  /\ header' = [buf |-> header_bytes, needed |-> header_needed - header_taken]
  /\ _error_close(1002)
  /\ advance(len, TRUE)
  /\ UNCHANGED <<stream, assembly, frame, piece>>

header_incomplete ==
  /\ Reading
  /\ decoded.err = 0 /\ decoded.delta < 0
  /\ header' = [buf |-> header_bytes, needed |-> -decoded.delta]
  /\ advance(len - header_taken, FALSE)
  /\ UNCHANGED <<stream, assembly, frame, close_received, piece, out>>

header_valid == /\ Reading
                /\ decoded.err = 0 /\ 0 < decoded.delta
                /\ frame_validate_S2C(decoded) = 0

\* The stream a data frame belongs to: a new one, the open one, or none.
begins_message    == decoded.opcode \in {WS_OPCODE_BINARY, WS_OPCODE_TEXT} /\ fragment_info = {}
continues_message == decoded.opcode = WS_OPCODE_CONTINUATION /\ stream_type # "none"

message_type == IF decoded.opcode = WS_OPCODE_TEXT THEN "TEXT" ELSE "BINARY"

\* The header is complete; the loop goes on with the frame in the same iteration.
header_complete ==
  /\ header_valid
  /\ \/ /\ decoded.is_control
        /\ UNCHANGED <<stream_type, fragment_info>>
     \/ /\ begins_message
        /\ stream_type' = message_type
        /\ fragment_info' = {"FIRST", message_type}
     \/ /\ continues_message
        /\ fragment_info' = (fragment_info \ {"BINARY", "TEXT"}) \cup {"CONT"}
        /\ UNCHANGED stream_type
  /\ frame' = [opcode |-> decoded.opcode, fin |-> decoded.fin,
               is_control |-> decoded.is_control, payload_len |-> decoded.payload_len]
  /\ header' = [buf |-> << >>, needed |-> header_needed - header_taken]
  /\ at' = at + header_taken
  /\ len' = len - header_taken
  /\ UNCHANGED <<stream, pc, prev_len, utf8, control, close_received, piece, out>>

\* A data frame that belongs to no stream.  The header is consumed.
header_out_of_order ==
  /\ header_valid
  /\ ~decoded.is_control /\ ~begins_message /\ ~continues_message
  /\ header' = [buf |-> << >>, needed |-> header_needed - header_taken]
  /\ _error_close(1002)
  /\ advance(len - header_taken, TRUE)
  /\ UNCHANGED <<stream, assembly, frame, piece>>

-------------------------------------------------------------------------------
(* _process_control_frame and _handle_close *)

control_bytes == control \o Taken(MinOf(frame.payload_len - Len(control), len))
control_taken == Len(control_bytes) - Len(control)

InControl == pc = "loop" /\ frame # NoFrame /\ frame.is_control

\* Mutant: the bytes of every chunk are copied to the start of the control buffer.
control_incomplete_restarts ==
  /\ InControl
  /\ Len(control_bytes) < frame.payload_len
  /\ control' = Taken(control_taken)
  /\ advance(len - control_taken, FALSE)
  /\ UNCHANGED <<stream, stream_type, fragment_info, utf8, frame, header, close_received,
                 piece, out>>

control_incomplete ==
  /\ InControl
  /\ Len(control_bytes) < frame.payload_len
  /\ control' = control_bytes
  /\ advance(len - control_taken, FALSE)
  /\ UNCHANGED <<stream, stream_type, fragment_info, utf8, frame, header, close_received,
                 piece, out>>

control_dispatched ==
  /\ InControl
  /\ Len(control_bytes) = frame.payload_len
  /\ \/ /\ frame.opcode = WS_OPCODE_PING
        /\ out' = Append(out, Control("on_ping", control_bytes))
     \/ /\ frame.opcode = WS_OPCODE_PONG
        /\ out' = Append(out, Control("on_pong", control_bytes))
  /\ frame' = NoFrame
  /\ header' = [buf |-> << >>, needed |-> WS_FRAME_HEADER_MIN]
  /\ control' = << >>
  /\ advance(len - control_taken, FALSE)
  /\ UNCHANGED <<stream, stream_type, fragment_info, utf8, close_received, piece>>

\* What _handle_close does with the payload: an error, or on_close.
close_outcome(data) ==
  IF Len(data) = 1 THEN Failed(1002)
  ELSE IF data = << >> THEN Closed(1005, << >>)
  ELSE IF ~is_close_code_valid(close_code(data)) THEN Failed(1002)
  ELSE LET reason == SubSeq(data, 3, Len(data))
           v      == utf8_validate(reason)
       IN  IF v.rv # 0 \/ v.len # Len(reason) THEN Failed(1007)
           ELSE Closed(close_code(data), reason)

close_handled ==
  /\ InControl
  /\ Len(control_bytes) = frame.payload_len
  /\ frame.opcode = WS_OPCODE_CLOSE
  /\ out' = Append(out, close_outcome(control_bytes))
  /\ close_received' = TRUE
  /\ frame' = NoFrame
  /\ control' = control_bytes
  /\ advance(len - control_taken, TRUE)
  /\ UNCHANGED <<stream, stream_type, fragment_info, utf8, header, piece>>

-------------------------------------------------------------------------------
(* _process_data_frame, _process_text_stream and _send_data_frame *)

TextError(u)   == [ok |-> FALSE, send |-> << >>, utf8 |-> u]
TextOk(s, u)   == [ok |-> TRUE,  send |-> s,     utf8 |-> u]

\* The character that was cut by the end of the previous buffer.  Of the bytes
\* that arrive now only those that complete it are looked at.
complete_character(bytes) ==
  LET m == MinOf(utf8.needed, Len(bytes))
      u == [buf |-> utf8.buf \o SubSeq(bytes, 1, m), needed |-> utf8.needed - m]
      v == utf8_validate(u.buf)
  IN  IF u.needed # 0
      THEN IF utf8_maybe_valid(u.buf) THEN TextOk(<< >>, u) ELSE TextError(u)
      ELSE IF v.rv # 0 \/ v.len # Len(u.buf) THEN TextError(u)
      ELSE TextOk(u.buf, [buf |-> << >>, needed |-> 0])

\* Mutant: a cut character is passed on.
whole_characters_and_rest(bytes) ==
  IF utf8_validate(bytes).rv # 0 THEN TextError(utf8) ELSE TextOk(bytes, utf8)

\* No character is pending: all whole characters are sent, a cut one is kept.
whole_characters(bytes) ==
  LET v    == utf8_validate(bytes)
      rest == SubSeq(bytes, v.len + 1, Len(bytes))
  IN  IF v.rv # 0 THEN TextError(utf8)
      ELSE IF v.len = Len(bytes) THEN TextOk(bytes, utf8)
      ELSE IF frame.fin /\ frame.payload_len <= Len(bytes) THEN TextError(utf8)
      ELSE TextOk(SubSeq(bytes, 1, v.len),
                  [buf |-> rest, needed |-> utf8_get_size(rest[1]) - Len(rest)])

process_text_stream(bytes) ==
  IF 0 < utf8.needed THEN complete_character(bytes) ELSE whole_characters(bytes)

data_taken == MinOf(frame.payload_len, len)
data_result ==
  IF stream_type = "TEXT" THEN process_text_stream(Taken(data_taken))
                          ELSE TextOk(Taken(data_taken), utf8)

InData == pc = "loop" /\ frame # NoFrame /\ ~frame.is_control

text_rejected ==
  /\ InData
  /\ ~data_result.ok
  /\ utf8' = data_result.utf8
  /\ _error_close(1007)
  /\ advance(len, TRUE)
  /\ UNCHANGED <<stream, stream_type, fragment_info, frame, header, control, piece>>

\* cb_on_fragment, as the application sees it.
on_fragment(info, data) ==
  /\ piece' = [type |-> stream_type, info |-> info, data |-> data]
  /\ out' = out \o (IF "FIRST" \in info THEN <<Started(stream_type)>> ELSE << >>)
                \o DataBytes(data)
                \o (IF "LAST" \in info THEN <<Ended>> ELSE << >>)

data_left       == frame.payload_len - data_taken
data_info       == fragment_info \cup (IF data_left = 0 /\ frame.fin THEN {"LAST"} ELSE {})
has_something   == data_result.send # << >> \/ {"FIRST", "LAST"} \cap data_info # {}

data_delivered ==
  /\ InData
  /\ data_result.ok
  /\ utf8' = data_result.utf8
  /\ IF has_something THEN on_fragment(data_info, data_result.send)
                      ELSE UNCHANGED <<piece, out>>
  /\ fragment_info' = IF "LAST" \in data_info THEN {}
                      ELSE (data_info \ {"BINARY", "TEXT", "FIRST"}) \cup {"CONT"}
  /\ stream_type' = IF "LAST" \in data_info THEN "none" ELSE stream_type
  /\ frame' = IF data_left = 0 THEN NoFrame ELSE [frame EXCEPT !.payload_len = data_left]
  /\ advance(len - data_taken, FALSE)
  /\ UNCHANGED <<stream, header, control, close_received>>

-------------------------------------------------------------------------------
Init ==
  /\ stream \in Streams
  /\ at = 0
  /\ len = 0
  /\ pc = "idle"
  /\ prev_len = 0
  /\ stream_type = "none"
  /\ fragment_info = {}
  /\ utf8 = [buf |-> << >>, needed |-> 0]
  /\ frame = NoFrame
  /\ header = [buf |-> << >>, needed |-> 0]
  /\ control = << >>
  /\ close_received = FALSE
  /\ piece = [type |-> "none", info |-> {}, data |-> << >>]
  /\ out = << >>

\* _cws_process_frame
process_frame ==
  \/ header_rejected
  \/ header_incomplete
  \/ header_complete
  \/ header_out_of_order
  \/ control_incomplete
  \/ control_dispatched
  \/ close_handled
  \/ text_rejected
  \/ data_delivered

Terminated == pc = "idle" /\ at = Len(stream) /\ UNCHANGED vars

Next ==
  \/ \E n \in ChunkSizes[stream] : receive_cb(n) \/ receive_cb_ignored(n)
  \/ process_frame
  \/ Terminated

Spec == Init /\ [][Next]_vars

-------------------------------------------------------------------------------
(* Properties *)

Item == [fn : {"first", "byte", "last", "on_ping", "on_pong", "on_close", "error"},
         what : {"", "none", "BINARY", "TEXT"}, code : Nat, data : Seq(Byte)]
Info == {"CONT", "BINARY", "TEXT", "FIRST", "LAST"}

\* The type invariant of the receiving side.
TypeOK ==
  /\ stream \in Streams
  /\ at \in Nat /\ len \in Nat /\ prev_len \in Nat
  /\ at + len <= Len(stream)
  /\ pc \in {"idle", "loop"}
  /\ stream_type \in {"none", "BINARY", "TEXT"}
  /\ fragment_info \subseteq Info
  /\ utf8 \in [buf : Seq(Byte), needed : Nat]
  /\ frame \in [opcode : {-1} \cup DataOpcodes \cup ControlOpcodes, fin : BOOLEAN,
                is_control : BOOLEAN, payload_len : Nat]
  /\ header \in [buf : Seq(Byte), needed : Nat]
  /\ control \in Seq(Byte)
  /\ close_received \in BOOLEAN
  /\ piece \in [type : {"none", "BINARY", "TEXT"}, info : SUBSET Info, data : Seq(Byte)]
  /\ out \in Seq(Item)

\* The fixed buffers of struct recv are never overrun, nor will the next copy
\* into them do so: header.buf[14], control.buf[125] and utf8.buf[4].  (After a breach
\* a whole header may remain in the first; no copy follows then.)
BuffersBounded ==
  /\ Len(header.buf) <= WS_FRAME_HEADER_MAX
  /\ ~close_received => Len(header.buf) + header_needed <= WS_FRAME_HEADER_MAX
  /\ frame.is_control => frame.payload_len <= WS_CTL_PAYLOAD_MAX
  /\ Len(control) <= (IF frame.is_control THEN frame.payload_len ELSE WS_CTL_PAYLOAD_MAX)
  /\ Len(utf8.buf) + utf8.needed <= 4

\* Between callbacks of curl, what the application was told is what it would
\* have been told had the same bytes arrived one by one: nothing is lost, nothing
\* is delivered twice, early or late, and every error is found.
OutIsByteByByte == pc = "idle" => out = After(stream)[at].out

\* The last piece of a text consists of whole characters.
TextPieceWhole == piece.type = "TEXT" => IsText(piece.data)

\* The application hears of the end once, and of nothing after it.
EndIsLast ==
  /\ close_received = (\E i \in 1..Len(out) : out[i].fn \in {"on_close", "error"})
  /\ \A i \in 1..Len(out) : out[i].fn \in {"on_close", "error"} => i = Len(out)

\* A character that waits for more bytes belongs to the message that is open ("if
\* we have extra characters, then we have a problem and must close error out").
NoCharacterOutlivesMessage ==
  pc = "idle" /\ ~close_received /\ stream_type = "none" => utf8.needed = 0

\* _receive_cb returns, whatever the chunk holds.
CallbackReturns == pc = "loop" ~> pc = "idle"
===============================================================================
