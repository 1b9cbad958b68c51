------------------------------ MODULE SendQueue -------------------------------
(***************************************************************************)
(* The outgoing half of a curlws connection: the frame queue and the read  *)
(* callback (send.c), the frame senders (frame_senders.c), the block       *)
(* sender (data_block_sender.c), the sending API (curlws.c) and the way    *)
(* the receive side ends the connection (_error_close of receive.c).       *)
(*                                                                         *)
(* The library is single threaded, so an API call and a callback never     *)
(* overlap; they come in any order.  The loops of _fill_outgoing_buffer    *)
(* and of data_block_sender take one step per iteration, and while one is  *)
(* running (pc) nothing else happens.  Bit masks are sets of flag names.   *)
(***************************************************************************)
EXTENDS FrameCodec

CONSTANTS
  max_payload_size,  \* cfg.max_payload_size
  BufferSizes,       \* the sizes of the buffers curl passes to _send_cb
  CtlLens,           \* the payload lengths given to cws_ping and cws_pong
  CloseArgs,         \* the arguments given to cws_close
  PingLens,          \* the payload lengths of the pings of the peer
  PeerCodes,         \* the codes in its close frames
  CallbackResults,   \* what the callbacks of the application return
  Blocks,            \* the buffers given to cws_send_blk_*
  Pieces,            \* the buffers given to cws_send_strm_*
  Infos,             \* the info arguments given to cws_send_strm_*
  MallocMayFail,     \* whether the pool may run out of memory
  FollowRedirects,   \* cfg.follow_redirects
  MaxFrames          \* bound: API calls stop once this many frames were queued

\* The flags of an options or info argument; "OTHER" stands for any other bit.
NONCTRL_MASK == {"CONT", "BINARY", "TEXT"}
DataTypes    == {{"CONT"}, {"BINARY"}, {"TEXT"}}
ALLOWED      == NONCTRL_MASK \cup {"FIRST", "LAST"}
OptionBits   == ALLOWED \cup {"OTHER"}
CloseBits    == {"RECEIVED", "QUEUED", "SENT", "CLOSED"}
CWScode      == {"OK", "OUT_OF_MEMORY", "CLOSED_CONNECTION", "INVALID_CLOSE_REASON_CODE",
                 "APP_DATA_LENGTH_TOO_LONG", "INVALID_UTF8", "INVALID_OPTIONS",
                 "STREAM_CONTINUITY_ISSUE", "BAD_FUNCTION_ARGUMENT"}

(* A buffer of the application: its length, whether the pointer is NULL, and   *)
(* what utf8_validate says of it: valid, and then the bytes of the characters  *)
(* that are whole (len - whole bytes of a last, cut character remain).         *)
AppBuffer ==
  {b \in [null : BOOLEAN, len : Nat, valid : BOOLEAN, whole : Nat] : b.whole <= b.len}

(* The arguments of cws_close: reason is a pointer to len bytes ("utf8" when   *)
(* they are whole UTF-8 characters).                                           *)
CloseArg == [code : Int, reason : {"NULL", "utf8", "other"}, len : Nat]

ASSUME SizesAssumption ==
  /\ max_payload_size \in Nat \ {0}
  /\ BufferSizes \subseteq Nat \ {0}
  /\ CtlLens \subseteq Nat
  /\ PingLens \subseteq Nat
  /\ MaxFrames \in Nat
ASSUME InputsAssumption ==
  /\ CloseArgs \subseteq CloseArg
  /\ \A code \in PeerCodes : is_close_code_valid(code)
  /\ CallbackResults \subseteq Int
  /\ Blocks \subseteq AppBuffer
  /\ Pieces \subseteq AppBuffer
  /\ Infos \subseteq SUBSET OptionBits
  /\ MallocMayFail \in BOOLEAN
  /\ FollowRedirects \in BOOLEAN

VARIABLES
  send,         \* priv->send: the queue of frames, each a cws_buf_queue
  close_state,  \* priv->close_state, a set of CloseBits
  pause_flags,  \* priv->pause_flags
  last_sent_data_frame_info,
  redirection,  \* priv->header_state.redirection
  pc,           \* the loop that is running: "idle", "fill" or "blk"
  fill,         \* the locals of _fill_outgoing_buffer
  blk,          \* the locals of data_block_sender
  curl,         \* curl's view: sending paused, EOF seen
  wire,         \* history: what was handed to curl, one segment per frame
  nframes       \* history: the number of frames queued, the id of the last one

\* The locals of a loop that is not running.
NoFill == [len |-> 0, data_to_send |-> 0, sent |-> 0]
NoBlk  == [options |-> {}, len |-> 0]

api  == <<close_state, last_sent_data_frame_info>>
vars == <<send, close_state, pause_flags, last_sent_data_frame_info, redirection,
          pc, fill, blk, curl, wire, nframes>>

-------------------------------------------------------------------------------
(* struct cws_buf_queue.  id and the frame's fin and opcode are not in the C   *)
(* struct (fin and opcode are in its buffer); they identify the frame.         *)
Buf == [id : Nat, opcode : DataOpcodes \cup ControlOpcodes, fin : BOOLEAN,
        is_close_frame : BOOLEAN, len : Nat, written : Nat, sent : Nat]

buffer_size(opcode) ==
  IF opcode \in ControlOpcodes THEN WS_CTL_FRAME_MAX
                               ELSE max_payload_size + WS_FRAME_HEADER_MAX

new_buf(opcode, fin, n) ==
  [id |-> nframes + 1, opcode |-> opcode, fin |-> fin,
   is_close_frame |-> opcode = WS_OPCODE_CLOSE,
   len |-> buffer_size(opcode),
   written |-> frame_encode(n, buffer_size(opcode)),
   sent |-> 0]

\* Mutant: a frame goes behind the head and not to the end of the queue.
enqueue_second(q, buf) == IF q = << >> THEN <<buf>> ELSE <<q[1], buf>> \o Tail(q)

\* Where send_frame puts a frame.  Its branch for urgent frames is never taken:
\* control_frame refuses them.
enqueue(q, buf) == Append(q, buf)

\* send_frame, up to the queue: the frame is queued, or there is no memory.
queue_frame(opcode, fin, n, rv) ==
  \/ /\ rv = "OK"
     /\ send' = enqueue(send, new_buf(opcode, fin, n))
     /\ nframes' = nframes + 1
  \/ /\ rv = "OUT_OF_MEMORY"
     /\ MallocMayFail
     /\ UNCHANGED <<send, nframes>>

\* curl_easy_pause(priv->easy, flags): curl takes over the flags.
curl_easy_pause(flags) == curl' = [curl EXCEPT !.paused = "SEND" \in flags]

\* The end of send_frame and of _error_close: wake curl if it was paused.
unpause_sending ==
  \/ /\ "SEND" \in pause_flags
     /\ pause_flags' = pause_flags \ {"SEND"}
     /\ curl_easy_pause(pause_flags')
  \/ /\ "SEND" \notin pause_flags
     /\ UNCHANGED <<pause_flags, curl>>

\* Mutant: queueing a frame does not wake curl.
never_unpause(rv) == rv \in CWScode /\ UNCHANGED <<pause_flags, curl>>

\* send_frame wakes curl when it has queued the frame.
unpause_if_queued(rv) ==
  IF rv = "OK" THEN unpause_sending ELSE UNCHANGED <<pause_flags, curl>>

-------------------------------------------------------------------------------
(* frame_senders.c *)

\* Mutant: control frames are accepted after a close was queued.
control_frame_unchecked(opcode, urgent, n, rv) ==
  /\ ~urgent /\ n <= WS_CTL_PAYLOAD_MAX
  /\ queue_frame(opcode, TRUE, n, rv)

\* frame_sender_control up to the queue.  CWS_URGENT is not in CWS_CTRL_MASK, so
\* that an urgent frame is refused before anything else is looked at.
control_frame(opcode, urgent, n, rv) ==
  LET refusal == IF urgent                        THEN "INVALID_OPTIONS"
                 ELSE IF "QUEUED" \in close_state THEN "CLOSED_CONNECTION"
                 ELSE IF WS_CTL_PAYLOAD_MAX < n   THEN "APP_DATA_LENGTH_TOO_LONG"
                 ELSE "OK"
  IN  IF refusal # "OK" THEN rv = refusal /\ UNCHANGED <<send, nframes>>
                        ELSE queue_frame(opcode, TRUE, n, rv)

\* A data message has been started and not finished.
stream_open(info) == info # {} /\ "LAST" \notin info

\* Mutant: a message may start while another one is open.
data_refusal_no_continuity(options) ==
  IF ~(options \subseteq ALLOWED) THEN "INVALID_OPTIONS"
  ELSE IF close_state # {} THEN "CLOSED_CONNECTION" ELSE "OK"

\* Why frame_sender_data refuses a frame ("OK": it does not).
data_refusal(options) ==
  LET type == options \cap NONCTRL_MASK
  IN  IF ~(options \subseteq ALLOWED) \/ type \notin DataTypes THEN "INVALID_OPTIONS"
      ELSE IF (type = {"CONT"}) = ("FIRST" \in options)        THEN "INVALID_OPTIONS"
      ELSE IF (type = {"CONT"}) # stream_open(last_sent_data_frame_info)
                                                THEN "STREAM_CONTINUITY_ISSUE"
      ELSE IF close_state # {}                  THEN "CLOSED_CONNECTION"
      ELSE "OK"

data_opcode(options) ==
  IF "CONT" \in options THEN WS_OPCODE_CONTINUATION
  ELSE IF "TEXT" \in options THEN WS_OPCODE_TEXT ELSE WS_OPCODE_BINARY

frame_sender_data(options, n, rv) ==
  \/ /\ rv = data_refusal(options)
     /\ rv # "OK"
     /\ UNCHANGED <<send, nframes, last_sent_data_frame_info, pause_flags, curl>>
  \/ /\ data_refusal(options) = "OK"
     /\ last_sent_data_frame_info' = options
     /\ queue_frame(data_opcode(options), "LAST" \in options, n, rv)
     /\ unpause_if_queued(rv)

-------------------------------------------------------------------------------
(* cws_close: curlws.c *)

\* -1 is the urgent form of 0, -c the urgent form of the code c.
urgent(a)     == a.code < 0
close_code(a) == IF a.code = -1 THEN 0 ELSE IF a.code < 0 THEN -a.code ELSE a.code

\* The argument check of cws_close and _normalize_close_inputs ("OK": accepted).
close_refusal(a) ==
  IF a.reason = "NULL" /\ 0 < a.len                             THEN "BAD_FUNCTION_ARGUMENT"
  ELSE IF a.reason = "other" /\ 0 < a.len                       THEN "INVALID_UTF8"
  ELSE IF a.reason # "NULL" /\ WS_CTL_PAYLOAD_MAX - 3 < a.len   THEN "APP_DATA_LENGTH_TOO_LONG"
  ELSE IF close_code(a) = 0 /\ 0 < a.len                        THEN "INVALID_CLOSE_REASON_CODE"
  ELSE IF close_code(a) # 0 /\ ~is_close_code_valid(close_code(a)) THEN "INVALID_CLOSE_REASON_CODE"
  ELSE "OK"

close_payload_len(a) == IF close_code(a) = 0 THEN 0 ELSE a.len + 2

\* cws_close up to waking curl, with close_state already extended by received.
\* CLOSE_QUEUED is set whatever frame_sender_control returned: also when it found no
\* memory, or refused the frame because it is urgent.
close_frame(a, received, rv) ==
  \/ /\ rv = close_refusal(a)
     /\ rv # "OK"
     /\ close_state' = close_state \cup received
     /\ UNCHANGED <<send, nframes>>
  \/ /\ close_refusal(a) = "OK"
     /\ control_frame(WS_OPCODE_CLOSE, urgent(a), close_payload_len(a), rv)
     /\ close_state' = close_state \cup received \cup {"QUEUED"}

-------------------------------------------------------------------------------
(* The API.  An application calls it from its callbacks or between curl's      *)
(* calls; both are "when no loop of this library is running".  A call that is  *)
(* refused before it has changed anything is not a step.                       *)

Idle == pc = "idle"
Room == nframes < MaxFrames

control_call(opcode, n) ==
  /\ Idle /\ Room
  /\ \E rv \in CWScode : control_frame(opcode, FALSE, n, rv) /\ unpause_if_queued(rv)
  /\ UNCHANGED <<close_state, last_sent_data_frame_info, redirection, pc, fill, blk, wire>>

cws_ping(n) == control_call(WS_OPCODE_PING, n)
cws_pong(n) == control_call(WS_OPCODE_PONG, n)

cws_close(a) ==
  /\ Idle /\ Room
  /\ \E rv \in CWScode : close_frame(a, {}, rv) /\ unpause_if_queued(rv)
  /\ UNCHANGED <<last_sent_data_frame_info, redirection, pc, fill, blk, wire>>

\* __process_rv of cb.c: a callback that does not return 0 closes the connection,
\* with what it returned if that is a close code.
process_rv(rv) ==
  /\ rv # 0
  /\ cws_close([code |-> IF is_close_code_valid(rv) THEN rv ELSE 1011, reason |-> "NULL", len |-> 0])

\* The checks of cws_send_blk_* and of data_block_sender before its loop.
block_refusal(type, b) ==
  IF b.null /\ 0 < b.len THEN "BAD_FUNCTION_ARGUMENT"
  ELSE IF type = "TEXT" /\ 0 < b.len /\ (~b.valid \/ b.whole # b.len) THEN "INVALID_UTF8"
  ELSE IF close_state # {} THEN "CLOSED_CONNECTION"
  ELSE "OK"

cws_send_blk(type, b) ==
  /\ Idle /\ Room
  /\ block_refusal(type, b) = "OK"
  /\ pc' = "blk"
  /\ blk' = [options |-> {type, "FIRST"}, len |-> b.len]
  /\ UNCHANGED <<send, api, pause_flags, redirection, fill, curl, wire, nframes>>

\* One iteration of the loop of data_block_sender, or the frame after it.
data_block_sender ==
  /\ pc = "blk"
  /\ \E rv \in CWScode :
       \/ /\ max_payload_size < blk.len
          /\ frame_sender_data(blk.options, max_payload_size, rv)
          /\ \/ /\ rv = "OK"
                /\ blk' = [options |-> {"CONT"}, len |-> blk.len - max_payload_size]
                /\ UNCHANGED pc
             \/ /\ rv # "OK"
                /\ pc' = "idle"
                /\ blk' = NoBlk
       \/ /\ blk.len <= max_payload_size
          /\ frame_sender_data(blk.options \cup {"LAST"}, blk.len, rv)
          /\ pc' = "idle"
          /\ blk' = NoBlk
  /\ UNCHANGED <<close_state, redirection, fill, wire>>

\* The length that cws_send_strm_* passes to _send_stream: a text is cut to its
\* whole characters.
stream_len(type, b) == IF type = "TEXT" /\ ~b.null THEN b.whole ELSE b.len

stream_options(type, info) == info \cup (IF "FIRST" \in info THEN {type} ELSE {"CONT"})

\* What cws_send_strm_* and _send_stream return before frame_sender_data
\* ("SEND": they call it, otherwise nothing changes).
stream_result(type, info, b) ==
  IF type = "TEXT" /\ ~b.null /\ 0 < b.len /\ ~b.valid THEN "INVALID_UTF8"
  ELSE IF b.null /\ 0 < b.len                           THEN "BAD_FUNCTION_ARGUMENT"
  ELSE IF info = {} /\ stream_len(type, b) = 0
    THEN IF last_sent_data_frame_info # {} THEN "OK" ELSE "STREAM_CONTINUITY_ISSUE"
  ELSE "SEND"

cws_send_strm(type, info, b) ==
  /\ Idle /\ Room
  /\ stream_result(type, info, b) = "SEND"
  /\ \E rv \in CWScode : frame_sender_data(stream_options(type, info), stream_len(type, b), rv)
  /\ UNCHANGED <<close_state, redirection, pc, fill, blk, wire>>

-------------------------------------------------------------------------------
(* The receive side and the response headers *)

\* The arguments _error_close gives to cws_close: the code of the peer's close
\* frame or 0, or 1002 or 1007 with or without a text.
PeerCloseArg(code)     == [code |-> code, reason |-> "utf8", len |-> 0]
NoCodeCloseArg         == [code |-> 0, reason |-> "NULL", len |-> 0]
BreachCloseArg(code)   == [code |-> code, reason |-> "NULL", len |-> 0]
BadPayloadCloseArg(n)  == [code |-> 1002, reason |-> "utf8", len |-> n]

ErrorCloseArgs ==
  {PeerCloseArg(code) : code \in PeerCodes}
  \cup {NoCodeCloseArg, BreachCloseArg(1002), BreachCloseArg(1007),
        BadPayloadCloseArg(20), BadPayloadCloseArg(28)}

\* Mutant: curl is not woken when the peer's close is all there was to wait for.
error_close_no_unpause(a) ==
  /\ Idle
  /\ "RECEIVED" \notin close_state
  /\ \E rv \in CWScode : close_frame(a, {"RECEIVED"}, rv) /\ unpause_if_queued(rv)
  /\ UNCHANGED <<last_sent_data_frame_info, redirection, pc, fill, blk, wire>>

\* A close frame or a protocol error was received.  The result of cws_close is
\* ignored; curl is woken in any case.
_error_close(a) ==
  /\ Idle
  /\ "RECEIVED" \notin close_state
  /\ \E rv \in CWScode : close_frame(a, {"RECEIVED"}, rv)
  /\ unpause_sending
  /\ UNCHANGED <<last_sent_data_frame_info, redirection, pc, fill, blk, wire>>

\* The header callback: a response line with a 3xx status starts a redirection,
\* one with another status ends it.
header_redirection(status3xx) ==
  /\ Idle
  /\ FollowRedirects
  /\ redirection' = status3xx
  /\ UNCHANGED <<send, api, pause_flags, pc, fill, blk, curl, wire, nframes>>

-------------------------------------------------------------------------------
(* The read callback: curl asks for len bytes when sending is not paused and   *)
(* it has not been told that there is nothing more to send.                    *)

\* Mutant: the peer's close frame is not awaited.
ready_when_sent(state) == "SENT" \in state /\ "CLOSED" \notin state

READY_TO_CLOSE(state) == {"SENT", "RECEIVED"} \subseteq state /\ "CLOSED" \notin state

curl_reads == Idle /\ ~curl.paused /\ ~curl.eof

\* During a redirection curl is told that its buffer was filled, without a byte
\* being written: what is sent belongs to the exchange that curl abandons.
send_cb_redirected ==
  /\ curl_reads
  /\ redirection
  /\ UNCHANGED vars

send_cb_closed ==
  /\ curl_reads
  /\ ~redirection
  /\ send = << >>
  /\ READY_TO_CLOSE(close_state)
  /\ close_state' = close_state \cup {"CLOSED"}
  /\ curl' = [curl EXCEPT !.eof = TRUE]
  /\ UNCHANGED <<send, last_sent_data_frame_info, pause_flags, redirection, pc, fill, blk,
                 wire, nframes>>

send_cb_pause ==
  /\ curl_reads
  /\ ~redirection
  /\ send = << >>
  /\ ~READY_TO_CLOSE(close_state)
  /\ pause_flags' = pause_flags \cup {"SEND"}
  /\ curl' = [curl EXCEPT !.paused = TRUE]
  /\ UNCHANGED <<send, api, redirection, pc, fill, blk, wire, nframes>>

\* Mutant: a redirection does not stop the read callback.
send_cb_fill_redirected(len) ==
  /\ curl_reads
  /\ send # << >>
  /\ pc' = "fill"
  /\ fill' = [len |-> len, data_to_send |-> send[1].written - send[1].sent, sent |-> 0]
  /\ UNCHANGED <<send, api, pause_flags, redirection, blk, curl, wire, nframes>>

send_cb_fill(len) ==
  /\ curl_reads
  /\ ~redirection
  /\ send # << >>
  /\ pc' = "fill"
  /\ fill' = [len |-> len, data_to_send |-> send[1].written - send[1].sent, sent |-> 0]
  /\ UNCHANGED <<send, api, pause_flags, redirection, blk, curl, wire, nframes>>

\* The bytes of a frame handed to curl: they extend the segment of that frame
\* if it is the last one, and start a segment otherwise.
handed_over(w, buf, k) ==
  IF w # << >> /\ w[Len(w)].id = buf.id
  THEN [w EXCEPT ![Len(w)].n = @ + k]
  ELSE Append(w, [id |-> buf.id, opcode |-> buf.opcode, fin |-> buf.fin,
                  n |-> k, written |-> buf.written])

\* Mutant: the place reached in a frame is forgotten.
after_sending_restarts(q, k) == IF q[1].sent + k # q[1].written THEN q ELSE Tail(q)

\* The queue after k bytes of its head were handed over: a frame that is done is
\* recycled, and a close frame with all that is behind it (send_destroy).
after_sending(q, k) ==
  LET head == [q[1] EXCEPT !.sent = @ + k]
  IN  IF head.sent # head.written THEN <<head>> \o Tail(q)
      ELSE IF head.is_close_frame THEN << >>
      ELSE Tail(q)

\* Mutant: the next frame is not counted.
next_data_to_send_forgets(q, d, k) == d - k

\* What data_to_send becomes: the next frame counts with all its bytes.
next_data_to_send(q, d, k) ==
  IF q[1].sent + k # q[1].written THEN d - k
  ELSE IF q[1].is_close_frame     THEN 0
  ELSE IF Len(q) = 1              THEN d - k
  ELSE d - k + q[2].written

\* One iteration of the loop of _fill_outgoing_buffer.
fill_step ==
  LET k == IF fill.data_to_send < fill.len THEN fill.data_to_send ELSE fill.len
  IN  /\ pc = "fill"
      /\ 0 < fill.len /\ 0 < fill.data_to_send
      /\ send' = after_sending(send, k)
      /\ fill' = [len |-> fill.len - k,
                  data_to_send |-> next_data_to_send(send, fill.data_to_send, k),
                  sent |-> fill.sent + k]
      /\ wire' = handed_over(wire, send[1], k)
      /\ close_state' = IF send[1].is_close_frame /\ send[1].sent + k = send[1].written
                          THEN close_state \cup {"SENT"} ELSE close_state
      /\ UNCHANGED <<last_sent_data_frame_info, pause_flags, redirection, pc, blk, curl,
                     nframes>>

\* _fill_outgoing_buffer and _send_cb return; for curl, 0 bytes are the end.
fill_return ==
  /\ pc = "fill"
  /\ fill.len = 0 \/ fill.data_to_send = 0
  /\ pc' = "idle"
  /\ fill' = NoFill
  /\ curl' = [curl EXCEPT !.eof = (fill.sent = 0)]
  /\ UNCHANGED <<send, api, pause_flags, redirection, blk, wire, nframes>>

-------------------------------------------------------------------------------
Init ==
  /\ send = << >>
  /\ close_state = {}
  /\ pause_flags = {}
  /\ last_sent_data_frame_info = {}
  /\ redirection = FALSE
  /\ pc = "idle"
  /\ fill = NoFill
  /\ blk = NoBlk
  /\ curl = [paused |-> FALSE, eof |-> FALSE]
  /\ wire = << >>
  /\ nframes = 0

Call ==
  \/ \E n \in CtlLens : cws_ping(n) \/ cws_pong(n)
  \/ \E a \in CloseArgs : cws_close(a)
  \/ \E rv \in CallbackResults : process_rv(rv)
  \/ \E type \in {"BINARY", "TEXT"}, b \in Blocks : cws_send_blk(type, b)
  \/ \E type \in {"BINARY", "TEXT"}, info \in Infos, b \in Pieces : cws_send_strm(type, info, b)

\* What the peer sends makes the library answer, end, or be silent.
Peer ==
  \/ \E n \in PingLens : cws_pong(n)
  \/ \E a \in ErrorCloseArgs : _error_close(a)
  \/ \E b \in BOOLEAN : header_redirection(b)

\* _send_cb
send_cb ==
  \/ send_cb_redirected
  \/ send_cb_closed
  \/ send_cb_pause
  \/ \E len \in BufferSizes : send_cb_fill(len)

\* The transfer is over once curl was told so; any other state without a
\* successor is a deadlock.
Terminated == Idle /\ curl.eof /\ UNCHANGED vars

Next ==
  \/ Call
  \/ data_block_sender
  \/ Peer
  \/ send_cb
  \/ fill_step
  \/ fill_return
  \/ Terminated

Spec == Init /\ [][Next]_vars

(* A loop that runs goes on, and curl, driven by the application's event loop, *)
(* asks for data again and again while sending is neither paused nor ended.    *)
Fairness ==
  /\ WF_vars(data_block_sender)
  /\ WF_vars(fill_step)
  /\ WF_vars(fill_return)
  /\ WF_vars(send_cb)

FairSpec == Spec /\ Fairness

-------------------------------------------------------------------------------
(* Properties *)

Segment == [id : Nat, opcode : DataOpcodes \cup ControlOpcodes, fin : BOOLEAN,
            n : Nat, written : Nat]

\* The type invariant of the sending side.
TypeOK ==
  /\ send \in Seq(Buf)
  /\ close_state \subseteq CloseBits
  /\ pause_flags \subseteq {"SEND"}
  /\ last_sent_data_frame_info \subseteq OptionBits
  /\ redirection \in BOOLEAN
  /\ pc \in {"idle", "fill", "blk"}
  /\ fill \in [len : Nat, data_to_send : Nat, sent : Nat]
  /\ blk \in [options : SUBSET OptionBits, len : Nat]
  /\ curl \in [paused : BOOLEAN, eof : BOOLEAN]
  /\ wire \in Seq(Segment)
  /\ nframes \in Nat

\* Every stream piece fits in a data buffer once it has its frame header.
PiecesFit ==
  \A b \in Pieces : 0 < frame_encode(b.len, max_payload_size + WS_FRAME_HEADER_MAX)
                   /\ 0 < frame_encode(b.whole, max_payload_size + WS_FRAME_HEADER_MAX)

\* No close is urgent: the urgent form queues no frame and blocks every other close.
NoUrgentClose == \A a \in CloseArgs : 0 <= a.code

\* In _fill_outgoing_buffer data_to_send is what is left of the first frame, so
\* that memcpy never reads past the bytes written into its buffer and the loop
\* never touches an empty queue.
FillCountsHead ==
  pc = "fill" =>
    fill.data_to_send = IF send = << >> THEN 0 ELSE send[1].written - send[1].sent

\* What curl was handed is a sequence of frames, however its buffers cut them: a
\* frame that is resumed in a later callback goes on where it stopped, none gets
\* more bytes than it has, and the next one starts when it is complete.
FramesWholeOnWire ==
  /\ \A i \in 1..Len(wire) : wire[i].n <= wire[i].written
                            /\ (i < Len(wire) => wire[i].n = wire[i].written)
  /\ \A i, j \in 1..Len(wire) : wire[i].id = wire[j].id => i = j

\* Nothing follows a close frame, neither on the wire nor in the queue, whatever
\* the application, the peer's pings and its close go on to ask for; once it is
\* sent the queue is empty for good.
NothingAfterClose ==
  /\ \A i \in 1..Len(wire) : wire[i].opcode = WS_OPCODE_CLOSE => i = Len(wire)
  /\ \A i \in 1..Len(send) : send[i].is_close_frame => i = Len(send)
  /\ "SENT" \in close_state => send = << >>

\* From the moment CLOSE_QUEUED is set until the close is sent there is exactly one
\* close frame in the queue: the closing handshake is neither lost nor repeated.
\* It takes that no allocation fails and that NoUrgentClose holds; cws_close sets
\* the flag in any case.
CloseFrameOwed ==
  LET closes == {i \in 1..Len(send) : send[i].is_close_frame}
  IN  IF {"QUEUED", "SENT"} \cap close_state = {"QUEUED"}
      THEN \E i \in closes : closes = {i}
      ELSE closes = {}

\* A message is open before place i of a sequence of frames: the data frame that
\* precedes this place is not the last of its message.
OpenBefore(frames, i) ==
  \E j \in 1..i - 1 :
    /\ frames[j].opcode \in DataOpcodes
    /\ ~frames[j].fin
    /\ \A k \in j + 1..i - 1 : frames[k].opcode \notin DataOpcodes

\* The data frames in a sequence form messages: a continuation frame comes
\* exactly when a message is open.
IsDataGrammar(frames) ==
  \A i \in 1..Len(frames) :
    frames[i].opcode \in DataOpcodes =>
      (frames[i].opcode = WS_OPCODE_CONTINUATION <=> OpenBefore(frames, i))

\* Blocks and stream pieces, mixed by the application in any order, never
\* interleave two messages on the wire.
DataFramesFormMessages == IsDataGrammar(wire)

\* curl is asleep only when there is nothing it could do: no frame is queued,
\* the connection is not waiting to be closed, and the library knows that it
\* has to wake curl for the next frame.
NoLostWakeup ==
  curl.paused => /\ "SEND" \in pause_flags
                 /\ send = << >>
                 /\ ~READY_TO_CLOSE(close_state)

\* _send_cb returns 0, which makes curl shut the connection down, only when the
\* closing handshake is complete (the comment in _send_cb).
EofOnlyWhenClosed == curl.eof => {"RECEIVED", "SENT", "CLOSED"} \subseteq close_state

\* Once the peer has closed, or broke the protocol, curl is told to end the
\* transfer ("No matter what, the send code must close the connection.").  The code
\* keeps this only if no allocation fails and NoUrgentClose holds.
ReceivedCloseEnds == "RECEIVED" \in close_state ~> curl.eof

\* A close that is marked as queued is sent, whatever is queued before it and
\* however curl reads.  The code keeps this only if no allocation fails and
\* NoUrgentClose holds.
QueuedCloseIsSent == "QUEUED" \in close_state ~> "SENT" \in close_state

-------------------------------------------------------------------------------
(* Refinement: the queue of buffers implements Outbound.  A frame of which no  *)
(* byte was handed over is pending, one with a segment on the wire is emitted. *)

OutFrame(f) == [id |-> f.id, opcode |-> f.opcode, fin |-> f.fin,
                is_close |-> f.opcode = WS_OPCODE_CLOSE, written |-> f.written]

unsent == IF send # << >> /\ 0 < send[1].sent THEN Tail(send) ELSE send

Out == INSTANCE Outbound WITH
  Frame   <- [id : Nat, opcode : DataOpcodes \cup ControlOpcodes, fin : BOOLEAN,
              is_close : BOOLEAN, written : Nat],
  pending <- [i \in 1..Len(unsent) |-> OutFrame(unsent[i])],
  emitted <- [i \in 1..Len(wire) |-> OutFrame(wire[i])]

\* The sending side implements Outbound: what was accepted leaves in that order,
\* each frame at most once and none is dropped, and nothing is accepted after a close.
ImplementsOutbound == Out!Spec
===============================================================================
