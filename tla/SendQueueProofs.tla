--------------------------- MODULE SendQueueProofs ----------------------------
(***************************************************************************)
(* Theorems about SendQueue, for every payload size, every buffer size of  *)
(* curl, every argument of the application, with and without allocation    *)
(* failures and redirections.                                              *)
(***************************************************************************)
EXTENDS SendQueue, TLAPS

-------------------------------------------------------------------------------
(* What an encoded frame measures *)

\* frame_encode never writes more than the buffer holds.
LEMMA EncodeBounded ==
  ASSUME NEW n \in Nat, NEW len \in Nat
  PROVE  frame_encode(n, len) \in Nat /\ frame_encode(n, len) <= len
<1>1. encoded_header_len(n) \in Nat
  BY DEF encoded_header_len, WS_FRAME_HEADER_MIN, WS_FRAME_HEADER_MASK, WS_FRAME_HEADER_MAX,
         UINT16_MAX
<1> QED BY <1>1 DEF frame_encode

\* A control frame always fits its buffer.
LEMMA ControlFrameFits ==
  ASSUME NEW n \in Nat, n <= WS_CTL_PAYLOAD_MAX
  PROVE  0 < frame_encode(n, WS_CTL_FRAME_MAX)
BY DEF frame_encode, encoded_header_len, WS_CTL_FRAME_MAX, WS_CTL_PAYLOAD_MAX,
       WS_FRAME_HEADER_MIN, WS_FRAME_HEADER_MASK, WS_FRAME_HEADER_MAX, UINT16_MAX

\* A data frame of at most max_payload_size bytes always fits its buffer.
LEMMA DataFrameFits ==
  ASSUME NEW n \in Nat, n <= max_payload_size
  PROVE  0 < frame_encode(n, max_payload_size + WS_FRAME_HEADER_MAX)
BY SizesAssumption
   DEF frame_encode, encoded_header_len, WS_FRAME_HEADER_MIN, WS_FRAME_HEADER_MASK,
       WS_FRAME_HEADER_MAX, UINT16_MAX

-------------------------------------------------------------------------------
(* The queue *)

\* No frame is sent beyond its end, and only the first one is partly sent.
Queued(q) ==
  \A i \in 1..Len(q) : q[i].sent <= q[i].written /\ (1 < i => q[i].sent = 0)

\* A sequence with an element is not the empty one.
LEMMA NotEmpty ==
  ASSUME NEW S, NEW s \in Seq(S), Len(s) # 0
  PROVE  s # << >>
OBVIOUS

\* Handing over bytes of a buffer changes nothing else of it.
LEMMA PartlySent ==
  ASSUME NEW b \in Buf, NEW k \in Nat
  PROVE  LET h == [b EXCEPT !.sent = @ + k]
         IN  h \in Buf /\ h.sent = b.sent + k /\ h.written = b.written
             /\ h.is_close_frame = b.is_close_frame /\ h.id = b.id
BY DEF Buf

\* A fresh frame at the end leaves the queue in shape.
LEMMA EnqueueKeepsShape ==
  ASSUME NEW q \in Seq(Buf), Queued(q), NEW b \in Buf, b.sent = 0
  PROVE  enqueue(q, b) \in Seq(Buf) /\ Queued(enqueue(q, b))
<1>1. b.sent <= b.written
  BY DEF Buf
<1> QED BY <1>1 DEF Queued, enqueue

\* Sending k bytes of the head keeps the shape of the queue, and data_to_send
\* stays what is left of the head.
LEMMA SendingKeepsShape ==
  ASSUME NEW q \in Seq(Buf), Queued(q), q # << >>,
         NEW k \in Nat, k <= q[1].written - q[1].sent
  PROVE  LET r == after_sending(q, k)
         IN  /\ r \in Seq(Buf)
             /\ Queued(r)
             /\ next_data_to_send(q, q[1].written - q[1].sent, k)
                  = IF r = << >> THEN 0 ELSE r[1].written - r[1].sent
             /\ next_data_to_send(q, q[1].written - q[1].sent, k) \in Nat
<1> DEFINE head == [q[1] EXCEPT !.sent = @ + k]
           r    == after_sending(q, k)
           d    == next_data_to_send(q, q[1].written - q[1].sent, k)
<1>0. q[1] \in Buf
  OBVIOUS
<1>1. q[1].sent \in Nat /\ q[1].written \in Nat
  BY <1>0 DEF Buf
<1>2. head \in Buf /\ head.sent = q[1].sent + k /\ head.written = q[1].written
      /\ head.is_close_frame = q[1].is_close_frame
  BY <1>0, PartlySent
<1>3. Tail(q) \in Seq(Buf) /\ Len(Tail(q)) = Len(q) - 1
      /\ \A i \in 1..Len(q) - 1 : Tail(q)[i] = q[i + 1]
  OBVIOUS
<1>4. CASE q[1].sent + k # q[1].written
  <2>1. r = <<head>> \o Tail(q)
    BY <1>4, <1>2 DEF after_sending
  <2>2. r \in Seq(Buf) /\ Len(r) = Len(q) /\ r[1] = head /\ r # << >>
        /\ \A i \in 2..Len(r) : r[i] = q[i]
    BY <2>1, <1>2, <1>3
  <2>3. Queued(r)
    <3>1. head.sent <= head.written
      BY <1>1, <1>2
    <3> HIDE DEF head, r
    <3> SUFFICES ASSUME NEW i \in 1..Len(r)
                 PROVE  r[i].sent <= r[i].written /\ (1 < i => r[i].sent = 0)
      BY DEF Queued
    <3>2. CASE i = 1
      BY <3>1, <3>2, <2>2
    <3>3. CASE 1 < i
      <4>1. i \in 1..Len(q) /\ r[i] = q[i]
        BY <3>3, <2>2
      <4> QED BY <4>1, <3>3 DEF Queued
    <3> QED BY <3>2, <3>3
  <2>4. d = q[1].written - q[1].sent - k
    BY <1>4 DEF next_data_to_send
  <2> QED BY <2>2, <2>3, <2>4, <1>1, <1>2
<1>5. CASE q[1].sent + k = q[1].written /\ q[1].is_close_frame
  <2>1. r = << >> /\ d = 0
    BY <1>5, <1>2 DEF after_sending, next_data_to_send
  <2>2. Queued(r)
    BY <2>1 DEF Queued
  <2> QED BY <2>1, <2>2
<1>6. CASE q[1].sent + k = q[1].written /\ ~q[1].is_close_frame
  <2>1. r = Tail(q)
    BY <1>6, <1>2 DEF after_sending
  <2>2. r \in Seq(Buf) /\ Queued(r)
    BY <2>1, <1>3 DEF Queued
  <2>3. CASE Len(q) = 1
    <3>1. r = << >>
      BY <2>1, <2>3, <1>3
    <3>2. d = q[1].written - q[1].sent - k
      BY <1>6, <2>3 DEF next_data_to_send
    <3> QED BY <3>1, <3>2, <2>2, <1>1, <1>6
  <2>4. CASE Len(q) # 1
    <3>1. r # << >> /\ r[1] = q[2] /\ q[2] \in Buf /\ q[2].sent = 0
      <4>1. 2 \in 1..Len(q) /\ 1 \in 1..Len(Tail(q))
        BY <2>4, <1>3
      <4>2. Tail(q)[1] = q[2]
        BY <4>1, <1>3
      <4>3. Tail(q) # << >>
        <5>1. Len(Tail(q)) # 0
          BY <2>4, <1>3
        <5> QED BY <5>1, <1>3, NotEmpty
      <4>4. q[2] \in Buf
        BY <4>1
      <4>5. q[2].sent = 0
        BY <4>1 DEF Queued
      <4> QED BY <4>2, <4>3, <4>4, <4>5, <2>1
    <3>2. d = q[1].written - q[1].sent - k + q[2].written
      BY <1>6, <2>4 DEF next_data_to_send
    <3>3. q[2].written \in Nat
      BY <3>1 DEF Buf
    <3> QED BY <3>1, <3>2, <3>3, <2>2, <1>1, <1>6
  <2> QED BY <2>3, <2>4
<1> QED BY <1>4, <1>5, <1>6, <1>1

\* What is handed to curl is recorded as segments.
LEMMA HandedOverTyped ==
  ASSUME NEW w \in Seq(Segment), NEW b \in Buf, NEW k \in Nat
  PROVE  handed_over(w, b, k) \in Seq(Segment)
<1>1. CASE w # << >> /\ w[Len(w)].id = b.id
  <2>1. Len(w) \in 1..Len(w) /\ w[Len(w)] \in Segment
    BY <1>1
  <2>2. \A x \in Segment : [x EXCEPT !.n = @ + k] \in Segment
    BY DEF Segment
  <2>3. handed_over(w, b, k) = [w EXCEPT ![Len(w)] = [w[Len(w)] EXCEPT !.n = @ + k]]
    BY <1>1 DEF handed_over
  <2> QED BY <2>1, <2>2, <2>3
<1>2. CASE ~(w # << >> /\ w[Len(w)].id = b.id)
  <2>1. [id |-> b.id, opcode |-> b.opcode, fin |-> b.fin, n |-> k, written |-> b.written]
          \in Segment
    BY DEF Buf, Segment
  <2> QED BY <1>2, <2>1 DEF handed_over
<1> QED BY <1>1, <1>2

-------------------------------------------------------------------------------
(* The inductive invariant.  Types alone are not inductive: that data_to_send  *)
(* stays a natural number needs FillCountsHead, which needs the shape of the   *)
(* queue, and the wake-up needs that curl never runs the loop while paused.    *)
FillIsAwake == pc = "fill" => ~curl.paused

\* The inductive invariant of the sending side.
IInv ==
  /\ TypeOK
  /\ Queued(send)
  /\ FillCountsHead
  /\ NoLostWakeup
  /\ FillIsAwake

\* What a step of send_frame leaves behind, with the result rv.
QueueKept(rv) ==
  /\ send' \in Seq(Buf)
  /\ Queued(send')
  /\ nframes' \in Nat
  /\ rv # "OK" => send' = send

\* What waking curl leaves behind, with the result rv.
WakeKept(rv) ==
  /\ pause_flags' \subseteq {"SEND"}
  /\ curl' \in [paused : BOOLEAN, eof : BOOLEAN]
  /\ rv = "OK" => ~curl'.paused
  /\ rv # "OK" => pause_flags' = pause_flags /\ curl' = curl

\* Every frame send_frame builds is a buffer, not yet sent.
LEMMA NewBufTyped ==
  ASSUME TypeOK, NEW opcode \in DataOpcodes \cup ControlOpcodes, NEW fin \in BOOLEAN,
         NEW n \in Nat
  PROVE  new_buf(opcode, fin, n) \in Buf /\ new_buf(opcode, fin, n).sent = 0
<1>1. buffer_size(opcode) \in Nat
  BY SizesAssumption DEF buffer_size, WS_CTL_FRAME_MAX, WS_CTL_PAYLOAD_MAX, WS_FRAME_HEADER_MIN,
     WS_FRAME_HEADER_MAX, WS_FRAME_HEADER_MASK
<1>2. frame_encode(n, buffer_size(opcode)) \in Nat
  BY <1>1, EncodeBounded
<1>3. nframes + 1 \in Nat
  BY DEF TypeOK
<1> QED BY <1>1, <1>2, <1>3 DEF new_buf, Buf

\* send_frame keeps the queue in shape, whatever it is given.
LEMMA QueueFrame ==
  ASSUME IInv, NEW opcode \in DataOpcodes \cup ControlOpcodes, NEW fin \in BOOLEAN,
         NEW n \in Nat, NEW rv, queue_frame(opcode, fin, n, rv)
  PROVE  QueueKept(rv)
<1>1. send \in Seq(Buf) /\ Queued(send) /\ nframes \in Nat
  BY DEF IInv, TypeOK
<1>2. CASE rv = "OK"
  <2>1. send' = enqueue(send, new_buf(opcode, fin, n)) /\ nframes' = nframes + 1
    BY <1>2 DEF queue_frame
  <2>2. new_buf(opcode, fin, n) \in Buf /\ new_buf(opcode, fin, n).sent = 0
    BY NewBufTyped DEF IInv
  <2>3. send' \in Seq(Buf) /\ Queued(send')
    BY <1>1, <2>1, <2>2, EnqueueKeepsShape
  <2> QED BY <1>1, <1>2, <2>1, <2>3 DEF QueueKept
<1>3. CASE rv # "OK"
  BY <1>1, <1>3 DEF queue_frame, QueueKept
<1> QED BY <1>2, <1>3

\* Waking curl really wakes it.
LEMMA Unpause ==
  ASSUME IInv, unpause_sending
  PROVE  WakeKept("OK")
<1>1. pause_flags \subseteq {"SEND"}
      /\ curl \in [paused : BOOLEAN, eof : BOOLEAN]
  BY DEF IInv, TypeOK
<1>2. CASE "SEND" \in pause_flags
  <2>1. pause_flags' = {} /\ curl' = [curl EXCEPT !.paused = FALSE]
    <3>1. pause_flags' = {} /\ curl' = [curl EXCEPT !.paused = ("SEND" \in pause_flags')]
      BY <1>1, <1>2 DEF unpause_sending, curl_easy_pause
    <3>2. ("SEND" \in pause_flags') = FALSE
      BY <3>1
    <3> QED BY <3>1, <3>2
  <2>2. curl' \in [paused : BOOLEAN, eof : BOOLEAN] /\ curl'.paused = FALSE
    BY <1>1, <2>1
  <2> QED BY <2>1, <2>2 DEF WakeKept
<1>3. CASE "SEND" \notin pause_flags
  <2>1. ~curl.paused
    BY <1>3 DEF IInv, NoLostWakeup
  <2> QED BY <1>1, <1>3, <2>1 DEF unpause_sending, WakeKept
<1> QED BY <1>2, <1>3

\* A queued frame wakes curl, a refused one changes nothing.
LEMMA UnpauseIfQueued ==
  ASSUME IInv, NEW rv, unpause_if_queued(rv)
  PROVE  WakeKept(rv)
<1>1. CASE rv = "OK"
  <2>1. unpause_sending
    BY <1>1 DEF unpause_if_queued
  <2> QED BY <1>1, <2>1, Unpause
<1>2. CASE rv # "OK"
  BY <1>2 DEF unpause_if_queued, WakeKept, IInv, TypeOK
<1> QED BY <1>1, <1>2

\* frame_sender_control: as send_frame.
LEMMA ControlFrame ==
  ASSUME IInv, NEW opcode \in ControlOpcodes, NEW u \in BOOLEAN, NEW n \in Nat, NEW rv,
         control_frame(opcode, u, n, rv)
  PROVE  QueueKept(rv)
<1>1. CASE UNCHANGED <<send, nframes>>
  BY <1>1 DEF IInv, TypeOK, QueueKept
<1>2. CASE queue_frame(opcode, TRUE, n, rv)
  BY <1>2, QueueFrame
<1> QED BY <1>1, <1>2 DEF control_frame

\* frame_sender_data: as send_frame; it remembers an admitted info only.
LEMMA DataFrame ==
  ASSUME IInv, NEW options, NEW n \in Nat, NEW rv, frame_sender_data(options, n, rv)
  PROVE  QueueKept(rv) /\ WakeKept(rv) /\ last_sent_data_frame_info' \subseteq OptionBits
<1>1. CASE rv = data_refusal(options) /\ rv # "OK"
           /\ UNCHANGED <<send, nframes, last_sent_data_frame_info, pause_flags, curl>>
  BY <1>1 DEF IInv, TypeOK, QueueKept, WakeKept
<1>2. CASE data_refusal(options) = "OK"
           /\ last_sent_data_frame_info' = options
           /\ queue_frame(data_opcode(options), "LAST" \in options, n, rv)
           /\ unpause_if_queued(rv)
  <2>1. data_opcode(options) \in DataOpcodes /\ ("LAST" \in options) \in BOOLEAN
    BY DEF data_opcode, DataOpcodes
  <2>2. QueueKept(rv)
    BY <1>2, <2>1, QueueFrame
  <2>3. WakeKept(rv)
    BY <1>2, UnpauseIfQueued
  <2>4. options \subseteq OptionBits
    BY <1>2 DEF data_refusal, OptionBits
  <2> QED BY <1>2, <2>2, <2>3, <2>4
<1> QED BY <1>1, <1>2 DEF frame_sender_data

\* A call keeps everything but the types, whatever its frame (result q) and the
\* wake-up (result w) did: a sleeping curl missed no frame and no close.
LEMMA CallKeeps ==
  ASSUME IInv, NEW q, NEW w, QueueKept(q), WakeKept(w), w = "OK" \/ w = q,
         pc # "fill", pc' # "fill",
         READY_TO_CLOSE(close_state') => READY_TO_CLOSE(close_state)
  PROVE  Queued(send)' /\ FillCountsHead' /\ NoLostWakeup' /\ FillIsAwake'
<1>1. Queued(send)'
  BY DEF QueueKept
<1>2. FillCountsHead' /\ FillIsAwake'
  BY DEF FillCountsHead, FillIsAwake
<1>3. NoLostWakeup'
  <2>1. CASE w = "OK"
    BY <2>1 DEF WakeKept, NoLostWakeup
  <2>2. CASE w # "OK"
    BY <2>2 DEF WakeKept, QueueKept, NoLostWakeup, IInv
  <2> QED BY <2>1, <2>2
<1> QED BY <1>1, <1>2, <1>3

\* cws_ping and cws_pong.
LEMMA ControlCallKeeps ==
  ASSUME IInv, NEW opcode \in ControlOpcodes, NEW n \in Nat, control_call(opcode, n)
  PROVE  IInv'
<1>1. PICK rv \in CWScode : control_frame(opcode, FALSE, n, rv) /\ unpause_if_queued(rv)
  BY DEF control_call
<1>2. QueueKept(rv) /\ WakeKept(rv)
  BY <1>1, ControlFrame, UnpauseIfQueued
<1>3. TypeOK'
  BY <1>1, <1>2 DEF control_call, QueueKept, WakeKept, IInv, TypeOK
<1>4. Queued(send)' /\ FillCountsHead' /\ NoLostWakeup' /\ FillIsAwake'
  BY <1>2, CallKeeps DEF control_call, Idle
<1> QED BY <1>3, <1>4 DEF IInv

\* cws_close, and the close that answers the peer: the payload has a length.
LEMMA CloseFrame ==
  ASSUME IInv, NEW a \in CloseArg, NEW received \in SUBSET CloseBits, NEW rv,
         close_frame(a, received, rv)
  PROVE  QueueKept(rv) /\ close_state' \subseteq CloseBits
<1>1. close_state \subseteq CloseBits
  BY DEF IInv, TypeOK
<1>2. CASE UNCHANGED <<send, nframes>> /\ close_state' = close_state \cup received
  BY <1>1, <1>2 DEF QueueKept, IInv, TypeOK
<1>3. CASE /\ control_frame(WS_OPCODE_CLOSE, urgent(a), close_payload_len(a), rv)
           /\ close_state' = close_state \cup received \cup {"QUEUED"}
  <2>1. WS_OPCODE_CLOSE \in ControlOpcodes /\ urgent(a) \in BOOLEAN
        /\ close_payload_len(a) \in Nat
    BY DEF ControlOpcodes, urgent, close_payload_len, CloseArg
  <2>2. QueueKept(rv)
    BY <1>3, <2>1, ControlFrame
  <2> QED BY <1>1, <1>3, <2>2 DEF CloseBits
<1> QED BY <1>2, <1>3 DEF close_frame

\* cws_close.
LEMMA CloseKeeps ==
  ASSUME IInv, NEW a \in CloseArg, cws_close(a)
  PROVE  IInv'
<1>1. PICK rv \in CWScode : /\ close_frame(a, {}, rv)
                           /\ unpause_if_queued(rv)
  BY DEF cws_close
<1>2. QueueKept(rv) /\ WakeKept(rv) /\ close_state' \subseteq CloseBits
  BY <1>1, CloseFrame, UnpauseIfQueued
<1>3. TypeOK'
  BY <1>1, <1>2 DEF cws_close, QueueKept, WakeKept, IInv, TypeOK
<1>4. READY_TO_CLOSE(close_state') => READY_TO_CLOSE(close_state)
  BY <1>1 DEF close_frame, READY_TO_CLOSE
<1>5. Queued(send)' /\ FillCountsHead' /\ NoLostWakeup' /\ FillIsAwake'
  BY <1>2, <1>4, CallKeeps DEF cws_close, Idle
<1> QED BY <1>3, <1>5 DEF IInv

\* What _error_close is called with are arguments of cws_close.
LEMMA ErrorCloseArgsTyped == ErrorCloseArgs \subseteq CloseArg
<1> SUFFICES ASSUME NEW a \in ErrorCloseArgs PROVE a \in CloseArg
  OBVIOUS
<1>1. CASE \E code \in PeerCodes : a = PeerCloseArg(code)
  <2>1. PICK code \in PeerCodes : a = PeerCloseArg(code)
    BY <1>1
  <2>2. code \in Int
    BY SMTT(30), InputsAssumption DEF is_close_code_valid
  <2> QED BY <2>1, <2>2 DEF PeerCloseArg, CloseArg
<1>2. CASE a \in {NoCodeCloseArg, BreachCloseArg(1002), BreachCloseArg(1007),
                  BadPayloadCloseArg(20), BadPayloadCloseArg(28)}
  BY <1>2 DEF NoCodeCloseArg, BreachCloseArg, BadPayloadCloseArg, CloseArg
<1> QED BY <1>1, <1>2 DEF ErrorCloseArgs

\* _error_close wakes curl whatever became of its frame.
LEMMA ErrorCloseKeeps ==
  ASSUME IInv, NEW a \in ErrorCloseArgs, _error_close(a)
  PROVE  IInv'
<1>1. PICK rv \in CWScode : close_frame(a, {"RECEIVED"}, rv)
  BY DEF _error_close
<1>2. a \in CloseArg /\ {"RECEIVED"} \in SUBSET CloseBits
  BY ErrorCloseArgsTyped DEF CloseBits
<1>3. QueueKept(rv) /\ close_state' \subseteq CloseBits
  BY <1>1, <1>2, CloseFrame
<1>4. WakeKept("OK")
  BY Unpause DEF _error_close
<1>5. TypeOK'
  BY <1>3, <1>4 DEF _error_close, QueueKept, WakeKept, IInv, TypeOK
<1>6. Queued(send)' /\ FillCountsHead' /\ FillIsAwake'
  BY <1>3 DEF _error_close, Idle, QueueKept, FillCountsHead, FillIsAwake
<1>7. NoLostWakeup'
  BY <1>4 DEF WakeKept, NoLostWakeup
<1> QED BY <1>5, <1>6, <1>7 DEF IInv

\* cws_send_blk_* up to the loop.
LEMMA BlockKeeps ==
  ASSUME IInv, NEW type \in {"BINARY", "TEXT"}, NEW b \in AppBuffer, cws_send_blk(type, b)
  PROVE  IInv'
<1>1. pc = "idle" /\ pc' \in {"idle", "blk"} /\ UNCHANGED <<send, close_state, pause_flags, curl>>
  BY DEF cws_send_blk, Idle, IInv, TypeOK, api
<1>2. blk' \in [options : SUBSET OptionBits, len : Nat]
  <2>1. {type, "FIRST"} \subseteq OptionBits /\ b.len \in Nat
    BY DEF OptionBits, ALLOWED, NONCTRL_MASK, AppBuffer
  <2>2. blk' = [options |-> {type, "FIRST"}, len |-> b.len] \/ blk' = blk
    BY DEF cws_send_blk
  <2>3. blk \in [options : SUBSET OptionBits, len : Nat]
    BY DEF IInv, TypeOK
  <2> QED BY <2>1, <2>2, <2>3
<1>4. TypeOK'
  BY <1>1, <1>2 DEF cws_send_blk, api, IInv, TypeOK
<1>5. Queued(send)' /\ FillCountsHead' /\ NoLostWakeup' /\ FillIsAwake'
  BY <1>1 DEF IInv, FillCountsHead, NoLostWakeup, FillIsAwake
<1> QED BY <1>4, <1>5 DEF IInv

\* The loop of data_block_sender.
LEMMA BlockSenderKeeps ==
  ASSUME IInv, data_block_sender
  PROVE  IInv'
<1>1. pc = "blk" /\ UNCHANGED <<close_state, redirection, fill, wire>>
  BY DEF data_block_sender
<1>2. PICK rv \in CWScode :
        \/ /\ max_payload_size < blk.len
           /\ frame_sender_data(blk.options, max_payload_size, rv)
           /\ \/ /\ rv = "OK"
                 /\ blk' = [options |-> {"CONT"}, len |-> blk.len - max_payload_size]
                 /\ UNCHANGED pc
              \/ /\ rv # "OK"
                 /\ pc' = "idle"
                 /\ blk' = NoBlk
        \/ /\ blk.len <= max_payload_size
           /\ frame_sender_data(blk.options \cup {"LAST"}, blk.len, rv)
           /\ pc' = "idle"
           /\ blk' = NoBlk
  BY DEF data_block_sender
<1>3. max_payload_size \in Nat /\ blk.len \in Nat
  BY SizesAssumption DEF IInv, TypeOK
<1>4. QueueKept(rv) /\ WakeKept(rv) /\ last_sent_data_frame_info' \subseteq OptionBits
  <2>1. CASE frame_sender_data(blk.options, max_payload_size, rv)
    BY <1>3, <2>1, DataFrame
  <2>2. CASE frame_sender_data(blk.options \cup {"LAST"}, blk.len, rv)
    BY <1>3, <2>2, DataFrame
  <2> QED BY <1>2, <2>1, <2>2
<1>5. blk' \in [options : SUBSET OptionBits, len : Nat]
  <2>1. blk' = NoBlk \/ (/\ max_payload_size < blk.len
                         /\ blk' = [options |-> {"CONT"}, len |-> blk.len - max_payload_size])
    BY <1>2
  <2>2. {"CONT"} \subseteq OptionBits
    BY DEF OptionBits, ALLOWED, NONCTRL_MASK
  <2> QED BY <2>1, <2>2, <1>3 DEF NoBlk
<1>6. pc' \in {"idle", "blk"}
  BY <1>1, <1>2
<1>7. TypeOK'
  BY <1>1, <1>4, <1>5, <1>6 DEF QueueKept, WakeKept, IInv, TypeOK
<1>8. Queued(send)' /\ FillCountsHead' /\ NoLostWakeup' /\ FillIsAwake'
  BY <1>1, <1>4, <1>6, CallKeeps
<1> QED BY <1>7, <1>8 DEF IInv

\* cws_send_strm_*.
LEMMA StreamKeeps ==
  ASSUME IInv, NEW type \in {"BINARY", "TEXT"}, NEW info \in SUBSET OptionBits,
         NEW b \in AppBuffer, cws_send_strm(type, info, b)
  PROVE  IInv'
<1>1. PICK rv \in CWScode :
        frame_sender_data(stream_options(type, info), stream_len(type, b), rv)
  BY DEF cws_send_strm
<1>2. stream_len(type, b) \in Nat
  BY DEF stream_len, AppBuffer
<1>4. pc = "idle" /\ UNCHANGED <<close_state, redirection, pc, fill, blk, wire>>
  BY DEF cws_send_strm, Idle
<1>5. QueueKept(rv) /\ WakeKept(rv) /\ last_sent_data_frame_info' \subseteq OptionBits
  BY <1>1, <1>2, DataFrame
<1>6. TypeOK'
  BY <1>4, <1>5 DEF QueueKept, WakeKept, IInv, TypeOK
<1>7. Queued(send)' /\ FillCountsHead' /\ NoLostWakeup' /\ FillIsAwake'
  BY <1>4, <1>5, CallKeeps
<1> QED BY <1>6, <1>7 DEF IInv

\* The read callback outside its loop: curl sleeps only over an empty queue.
LEMMA SendCbKeeps ==
  ASSUME IInv, send_cb
  PROVE  IInv'
<1>1. pc = "idle" /\ ~curl.paused
  BY DEF send_cb, send_cb_redirected, send_cb_closed, send_cb_pause, send_cb_fill, curl_reads, Idle
<1>2. curl \in [paused : BOOLEAN, eof : BOOLEAN]
  BY DEF IInv, TypeOK
<1>3. CASE send_cb_redirected
  BY <1>1, <1>2, <1>3
     DEF send_cb_redirected, vars, IInv, TypeOK, FillCountsHead, NoLostWakeup, FillIsAwake
<1>4. CASE send_cb_closed
  BY <1>1, <1>2, <1>4
     DEF send_cb_closed, CloseBits, IInv, TypeOK, FillCountsHead, NoLostWakeup, FillIsAwake
<1>5. CASE send_cb_pause
  BY <1>1, <1>2, <1>5
     DEF send_cb_pause, api, IInv, TypeOK, FillCountsHead, NoLostWakeup, FillIsAwake
<1>6. CASE \E len \in BufferSizes : send_cb_fill(len)
  <2>1. PICK len \in BufferSizes : send_cb_fill(len)
    BY <1>6
  <2>2. len \in Nat
    BY SizesAssumption
  <2>3. send[1] \in Buf /\ send[1].sent <= send[1].written
    BY <2>1 DEF send_cb_fill, IInv, TypeOK, Queued
  <2>4. send[1].written - send[1].sent \in Nat
    BY <2>3 DEF Buf
  <2>5. TypeOK'
    BY <2>1, <2>2, <2>4 DEF send_cb_fill, api, IInv, TypeOK
  <2>6. Queued(send)' /\ FillCountsHead' /\ NoLostWakeup' /\ FillIsAwake'
    BY <1>1, <2>1 DEF send_cb_fill, api, IInv, FillCountsHead, NoLostWakeup, FillIsAwake
  <2> QED BY <2>5, <2>6 DEF IInv
<1> QED BY <1>3, <1>4, <1>5, <1>6 DEF send_cb

\* One iteration of _fill_outgoing_buffer: memcpy stays inside the first frame.
LEMMA FillStepKeeps ==
  ASSUME IInv, fill_step
  PROVE  IInv'
<1> DEFINE k == IF fill.data_to_send < fill.len THEN fill.data_to_send ELSE fill.len
<1>1. fill.len \in Nat /\ fill.data_to_send \in Nat /\ fill.sent \in Nat
  BY DEF IInv, TypeOK
<1>2. send # << >> /\ fill.data_to_send = send[1].written - send[1].sent
  BY <1>1 DEF fill_step, IInv, FillCountsHead
<1>3. k \in Nat /\ k <= fill.data_to_send /\ fill.len - k \in Nat /\ fill.sent + k \in Nat
  BY <1>1
<1>4. /\ send' = after_sending(send, k)
      /\ fill' = [len |-> fill.len - k,
                  data_to_send |-> next_data_to_send(send, fill.data_to_send, k),
                  sent |-> fill.sent + k]
      /\ wire' = handed_over(wire, send[1], k)
  BY DEF fill_step
<1>5. /\ send' \in Seq(Buf) /\ Queued(send')
      /\ fill'.data_to_send = IF send' = << >> THEN 0 ELSE send'[1].written - send'[1].sent
      /\ fill'.data_to_send \in Nat
  <2> HIDE DEF k
  <2>1. send \in Seq(Buf) /\ Queued(send)
    BY DEF IInv, TypeOK
  <2>2. k <= send[1].written - send[1].sent
    BY <1>2, <1>3
  <2> QED BY <1>2, <1>3, <1>4, <2>1, <2>2, SendingKeepsShape
<1>6. wire' \in Seq(Segment)
  <2>1. send[1] \in Buf
    BY <1>2 DEF IInv, TypeOK
  <2> HIDE DEF k
  <2> QED BY <1>3, <1>4, <2>1, HandedOverTyped DEF IInv, TypeOK
<1>7. TypeOK'
  <2>1. fill' \in [len : Nat, data_to_send : Nat, sent : Nat]
    <3> HIDE DEF k
    <3> QED BY <1>3, <1>4, <1>5
  <2>2. close_state' \subseteq CloseBits
    BY DEF fill_step, CloseBits, IInv, TypeOK
  <2> QED BY <1>5, <1>6, <2>1, <2>2 DEF fill_step, IInv, TypeOK
<1>8. FillCountsHead'
  BY <1>5 DEF FillCountsHead
<1>9. NoLostWakeup' /\ FillIsAwake'
  BY DEF fill_step, IInv, NoLostWakeup, FillIsAwake
<1> QED BY <1>5, <1>7, <1>8, <1>9 DEF IInv

\* The end of the read callback.
LEMMA FillReturnKeeps ==
  ASSUME IInv, fill_return
  PROVE  IInv'
<1>1. curl \in [paused : BOOLEAN, eof : BOOLEAN] /\ ~curl.paused
  BY DEF fill_return, IInv, TypeOK, FillIsAwake
<1>2. curl' \in [paused : BOOLEAN, eof : BOOLEAN] /\ ~curl'.paused
  BY <1>1 DEF fill_return
<1>3. TypeOK'
  BY <1>2 DEF fill_return, NoFill, api, IInv, TypeOK
<1>4. Queued(send)' /\ FillCountsHead' /\ NoLostWakeup' /\ FillIsAwake'
  BY <1>2 DEF fill_return, IInv, FillCountsHead, NoLostWakeup, FillIsAwake
<1> QED BY <1>3, <1>4 DEF IInv

-------------------------------------------------------------------------------
(* The theorems *)

\* Initially nothing is queued and curl is awake.
LEMMA InitHolds == Init => IInv
<1> SUFFICES ASSUME Init PROVE IInv
  OBVIOUS
<1>1. TypeOK
  <2>1. blk \in [options : SUBSET OptionBits, len : Nat]
    BY DEF Init, NoBlk
  <2>2. fill \in [len : Nat, data_to_send : Nat, sent : Nat]
    BY DEF Init, NoFill
  <2>3. send \in Seq(Buf) /\ wire \in Seq(Segment)
    BY DEF Init
  <2>4. curl \in [paused : BOOLEAN, eof : BOOLEAN]
    BY DEF Init
  <2>5. nframes \in Nat /\ pc \in {"idle", "fill", "blk"} /\ redirection \in BOOLEAN
    BY DEF Init
  <2>6. close_state = {} /\ pause_flags = {} /\ last_sent_data_frame_info = {}
    BY DEF Init
  <2> QED BY <2>1, <2>2, <2>3, <2>4, <2>5, <2>6 DEF TypeOK
<1>2. Queued(send)
  BY DEF Init, Queued
<1>3. FillCountsHead /\ NoLostWakeup /\ FillIsAwake
  BY DEF Init, FillCountsHead, NoLostWakeup, FillIsAwake
<1> QED BY <1>1, <1>2, <1>3 DEF IInv

\* Every step of the library, of curl and of the peer keeps the invariant.
LEMMA NextKeeps == IInv /\ [Next]_vars => IInv'
<1> SUFFICES ASSUME IInv, [Next]_vars PROVE IInv'
  OBVIOUS
<1>1. ASSUME NEW n \in CtlLens \cup PingLens, cws_ping(n) \/ cws_pong(n) PROVE IInv'
  <2>1. n \in Nat
    BY SizesAssumption
  <2>2. CASE cws_ping(n)
    BY <2>1, <2>2, ControlCallKeeps DEF cws_ping, ControlOpcodes
  <2>3. CASE cws_pong(n)
    BY <2>1, <2>3, ControlCallKeeps DEF cws_pong, ControlOpcodes
  <2> QED BY <1>1, <2>2, <2>3
<1>2. ASSUME NEW a \in CloseArgs, cws_close(a) PROVE IInv'
  BY <1>2, CloseKeeps, InputsAssumption
<1>3. ASSUME NEW type \in {"BINARY", "TEXT"}, NEW b \in Blocks, cws_send_blk(type, b) PROVE IInv'
  BY <1>3, BlockKeeps, InputsAssumption
<1>4. ASSUME NEW type \in {"BINARY", "TEXT"}, NEW info \in Infos, NEW b \in Pieces,
             cws_send_strm(type, info, b)
      PROVE  IInv'
  BY <1>4, StreamKeeps, InputsAssumption
<1>5. CASE data_block_sender
  BY <1>5, BlockSenderKeeps
<1>6. ASSUME NEW a \in ErrorCloseArgs, _error_close(a) PROVE IInv'
  BY <1>6, ErrorCloseKeeps
<1>7. ASSUME NEW b \in BOOLEAN, header_redirection(b) PROVE IInv'
  BY <1>7 DEF header_redirection, api, IInv, TypeOK, FillCountsHead, NoLostWakeup, FillIsAwake
<1>8. CASE send_cb
  BY <1>8, SendCbKeeps
<1>9. CASE fill_step
  BY <1>9, FillStepKeeps
<1>10. CASE fill_return
  BY <1>10, FillReturnKeeps
<1>11. ASSUME NEW rv \in CallbackResults, process_rv(rv) PROVE IInv'
  <2> DEFINE a == [code |-> IF is_close_code_valid(rv) THEN rv ELSE 1011,
                   reason |-> "NULL", len |-> 0]
  <2>1. a \in CloseArg
    BY InputsAssumption DEF CloseArg
  <2>2. cws_close(a)
    BY <1>11 DEF process_rv
  <2> HIDE DEF a
  <2> QED BY <2>1, <2>2, CloseKeeps
<1>12. CASE UNCHANGED vars
  BY <1>12 DEF vars, IInv, TypeOK, FillCountsHead, NoLostWakeup, FillIsAwake
<1> QED
  BY <1>1, <1>2, <1>3, <1>4, <1>5, <1>6, <1>7, <1>8, <1>9, <1>10, <1>11, <1>12
     DEF Next, Call, Peer, Terminated

\* The invariant holds in every reachable state.
LEMMA Invariant == Spec => []IInv
BY InitHolds, NextKeeps, PTL DEF Spec

\* Every variable of the sending side keeps its type: no length underflows.
THEOREM TypeCorrect == Spec => []TypeOK
<1>1. IInv => TypeOK
  BY DEF IInv
<1> QED BY <1>1, Invariant, PTL

\* _fill_outgoing_buffer copies exactly the bytes that its first frame holds and
\* has not sent, so it never reads past a frame nor follows an empty queue.
THEOREM FillIsExact == Spec => []FillCountsHead
<1>1. IInv => FillCountsHead
  BY DEF IInv
<1> QED BY <1>1, Invariant, PTL

\* send_frame, _error_close and _send_cb together lose no wake-up of curl: it is
\* never left asleep over a queued frame or a connection that has to end.
THEOREM WakeupIsNotLost == Spec => []NoLostWakeup
<1>1. IInv => NoLostWakeup
  BY DEF IInv
<1> QED BY <1>1, Invariant, PTL

-------------------------------------------------------------------------------
(* When every stream piece fits in a data frame (PiecesFit) every queued frame *)
(* has bytes to send and the read callback never returns 0 by accident.  Both   *)
(* are false without PiecesFit: the run send_oversized shows it.                *)

\* Every frame of the queue still has bytes to send.
Unsent(q) == \A i \in 1..Len(q) : q[i].sent < q[i].written

\* The loop of _fill_outgoing_buffer starts with work to do.
FillHasWork ==
  pc = "fill" => /\ ~curl.eof
                 /\ fill.sent = 0 => 0 < fill.len /\ 0 < fill.data_to_send

\* What holds in addition to IInv when every piece fits.
FitInv ==
  /\ Unsent(send)
  /\ FillHasWork
  /\ EofOnlyWhenClosed

-------------------------------------------------------------------------------
(* The queue *)

\* send_frame adds its frame and loses none.
LEMMA EnqueueKeepsUnsent ==
  ASSUME NEW q \in Seq(Buf), Unsent(q), NEW b \in Buf, b.sent < b.written
  PROVE  Unsent(enqueue(q, b))
BY DEF Unsent, enqueue

\* Sending takes a frame out of the queue with its last byte.
LEMMA SendingKeepsUnsent ==
  ASSUME NEW q \in Seq(Buf), Unsent(q), q # << >>,
         NEW k \in Nat, k <= q[1].written - q[1].sent
  PROVE  Unsent(after_sending(q, k))
<1> DEFINE head == [q[1] EXCEPT !.sent = @ + k]
<1>0. q[1] \in Buf
  OBVIOUS
<1>1. q[1].sent \in Nat /\ q[1].written \in Nat
  BY <1>0 DEF Buf
<1>2. head \in Buf /\ head.sent = q[1].sent + k /\ head.written = q[1].written
      /\ head.is_close_frame = q[1].is_close_frame
  BY <1>0, PartlySent
<1>3. Tail(q) \in Seq(Buf) /\ Len(Tail(q)) = Len(q) - 1
      /\ \A i \in 1..Len(q) - 1 : Tail(q)[i] = q[i + 1]
  OBVIOUS
<1>4. CASE q[1].sent + k # q[1].written
  <2> DEFINE r == <<head>> \o Tail(q)
  <2>1. after_sending(q, k) = r
    BY <1>4, <1>2 DEF after_sending
  <2>2. Len(r) = Len(q) /\ r[1] = head /\ \A i \in 2..Len(r) : r[i] = q[i]
    BY <1>2, <1>3
  <2>3. head.sent < head.written
    BY <1>1, <1>2, <1>4
  <2> HIDE DEF head, r
  <2>4. Unsent(r)
    <3> SUFFICES ASSUME NEW i \in 1..Len(r) PROVE r[i].sent < r[i].written
      BY DEF Unsent
    <3>1. CASE i = 1
      BY <3>1, <2>2, <2>3
    <3>2. CASE 1 < i
      <4>1. i \in 1..Len(q) /\ r[i] = q[i]
        BY <3>2, <2>2
      <4> QED BY <4>1 DEF Unsent
    <3> QED BY <3>1, <3>2
  <2> QED BY <2>1, <2>4
<1>5. CASE q[1].sent + k = q[1].written
  <2>1. after_sending(q, k) = << >> \/ after_sending(q, k) = Tail(q)
    BY <1>5, <1>2 DEF after_sending
  <2>2. Unsent(<< >>)
    BY DEF Unsent
  <2>3. Unsent(Tail(q))
    BY <1>3 DEF Unsent
  <2> QED BY <2>1, <2>2, <2>3
<1> QED BY <1>4, <1>5

-------------------------------------------------------------------------------
(* The frames that are queued *)

\* A frame that fits in its buffer is queued with bytes to send.
LEMMA QueueFrameFits ==
  ASSUME IInv, Unsent(send), NEW opcode \in DataOpcodes \cup ControlOpcodes,
         NEW fin \in BOOLEAN, NEW n \in Nat, NEW rv,
         0 < frame_encode(n, buffer_size(opcode)), queue_frame(opcode, fin, n, rv)
  PROVE  Unsent(send')
<1>1. CASE send' = send
  BY <1>1
<1>2. CASE send' = enqueue(send, new_buf(opcode, fin, n))
  <2>1. new_buf(opcode, fin, n) \in Buf
    BY NewBufTyped DEF IInv
  <2>2. new_buf(opcode, fin, n).sent < new_buf(opcode, fin, n).written
    BY DEF new_buf
  <2>3. send \in Seq(Buf)
    BY DEF IInv, TypeOK
  <2> QED BY <1>2, <2>1, <2>2, <2>3, EnqueueKeepsUnsent
<1> QED BY <1>1, <1>2 DEF queue_frame

\* frame_sender_control refuses what would not fit.
LEMMA ControlFrameUnsent ==
  ASSUME IInv, Unsent(send), NEW opcode \in ControlOpcodes, NEW u \in BOOLEAN, NEW n \in Nat,
         NEW rv, control_frame(opcode, u, n, rv)
  PROVE  Unsent(send')
<1>1. CASE UNCHANGED <<send, nframes>>
  BY <1>1
<1>2. CASE queue_frame(opcode, TRUE, n, rv) /\ n <= WS_CTL_PAYLOAD_MAX
  <2>1. 0 < frame_encode(n, buffer_size(opcode))
    BY <1>2, ControlFrameFits DEF buffer_size
  <2> QED BY <1>2, <2>1, QueueFrameFits
<1>3. WS_CTL_PAYLOAD_MAX < n \/ n <= WS_CTL_PAYLOAD_MAX
  BY DEF WS_CTL_PAYLOAD_MAX
<1> QED BY <1>1, <1>2, <1>3 DEF control_frame

\* A data frame is queued with bytes to send if the caller's bytes fit.
LEMMA DataFrameUnsent ==
  ASSUME IInv, Unsent(send), NEW options, NEW n \in Nat, NEW rv,
         0 < frame_encode(n, max_payload_size + WS_FRAME_HEADER_MAX),
         frame_sender_data(options, n, rv)
  PROVE  Unsent(send')
<1>1. CASE UNCHANGED <<send, nframes, last_sent_data_frame_info, pause_flags, curl>>
  BY <1>1
<1>2. CASE queue_frame(data_opcode(options), "LAST" \in options, n, rv)
  <2>1. data_opcode(options) \in DataOpcodes /\ ("LAST" \in options) \in BOOLEAN
    BY DEF data_opcode, DataOpcodes
  <2>2. data_opcode(options) \notin ControlOpcodes
    BY DEF data_opcode, ControlOpcodes, WS_OPCODE_CONTINUATION, WS_OPCODE_TEXT,
           WS_OPCODE_BINARY, WS_OPCODE_CLOSE, WS_OPCODE_PING, WS_OPCODE_PONG
  <2>3. 0 < frame_encode(n, buffer_size(data_opcode(options)))
    BY <2>2 DEF buffer_size
  <2> QED BY <1>2, <2>1, <2>3, QueueFrameFits
<1> QED BY <1>1, <1>2 DEF frame_sender_data

\* A step that hands nothing over keeps FitInv if the queue stays unsent.
LEMMA QuietKeeps ==
  ASSUME FitInv, Unsent(send'), pc' # "fill", curl'.eof = curl.eof,
         close_state \subseteq close_state'
  PROVE  FitInv'
<1>1. FillHasWork' /\ EofOnlyWhenClosed'
  BY DEF FitInv, FillHasWork, EofOnlyWhenClosed
<1> QED BY <1>1 DEF FitInv, Unsent

\* Waking curl does not tell it that the data has ended.
LEMMA UnpauseKeepsEof ==
  ASSUME IInv, unpause_sending
  PROVE  curl'.eof = curl.eof
BY DEF unpause_sending, curl_easy_pause, IInv, TypeOK

\* Neither does a frame that is queued or refused.
LEMMA UnpauseIfQueuedKeepsEof ==
  ASSUME IInv, NEW rv, unpause_if_queued(rv)
  PROVE  curl'.eof = curl.eof
BY UnpauseKeepsEof DEF unpause_if_queued

\* frame_sender_data does not touch the end of the data, whatever it returns.
LEMMA DataFrameKeepsEof ==
  ASSUME IInv, NEW options, NEW n, NEW rv, frame_sender_data(options, n, rv)
  PROVE  curl'.eof = curl.eof
BY UnpauseIfQueuedKeepsEof DEF frame_sender_data

-------------------------------------------------------------------------------
(* The steps *)

\* cws_ping and cws_pong.
LEMMA ControlCallFits ==
  ASSUME IInv, FitInv, NEW opcode \in ControlOpcodes, NEW n \in Nat,
         control_call(opcode, n)
  PROVE  FitInv'
<1>1. PICK rv \in CWScode : control_frame(opcode, FALSE, n, rv) /\ unpause_if_queued(rv)
  BY DEF control_call
<1>2. Unsent(send')
  BY <1>1, ControlFrameUnsent DEF FitInv
<1>3. curl'.eof = curl.eof
  BY <1>1, UnpauseIfQueuedKeepsEof
<1> QED BY <1>2, <1>3, QuietKeeps DEF control_call, Idle

\* A close frame is queued with bytes to send, and no close state is taken back.
LEMMA CloseFrameUnsent ==
  ASSUME IInv, Unsent(send), NEW a \in CloseArg, NEW received, NEW rv,
         close_frame(a, received, rv)
  PROVE  Unsent(send') /\ close_state \subseteq close_state'
<1>1. close_state \subseteq close_state'
  BY DEF close_frame
<1>2. CASE UNCHANGED <<send, nframes>>
  BY <1>1, <1>2
<1>3. CASE control_frame(WS_OPCODE_CLOSE, urgent(a), close_payload_len(a), rv)
  <2>1. WS_OPCODE_CLOSE \in ControlOpcodes /\ urgent(a) \in BOOLEAN
        /\ close_payload_len(a) \in Nat
    BY DEF ControlOpcodes, urgent, close_payload_len, CloseArg
  <2> QED BY <1>1, <1>3, <2>1, ControlFrameUnsent
<1> QED BY <1>2, <1>3 DEF close_frame

\* cws_close.
LEMMA CloseFits ==
  ASSUME IInv, FitInv, NEW a \in CloseArg, cws_close(a)
  PROVE  FitInv'
<1>1. PICK rv \in CWScode : close_frame(a, {}, rv) /\ unpause_if_queued(rv)
  BY DEF cws_close
<1>2. Unsent(send') /\ close_state \subseteq close_state'
  BY <1>1, CloseFrameUnsent DEF FitInv
<1>3. curl'.eof = curl.eof
  BY <1>1, UnpauseIfQueuedKeepsEof
<1> QED BY <1>2, <1>3, QuietKeeps DEF cws_close, Idle

\* _error_close.
LEMMA ErrorCloseFits ==
  ASSUME IInv, FitInv, NEW a \in ErrorCloseArgs, _error_close(a)
  PROVE  FitInv'
<1>1. PICK rv \in CWScode : close_frame(a, {"RECEIVED"}, rv)
  BY DEF _error_close
<1>2. a \in CloseArg
  BY ErrorCloseArgsTyped
<1>3. Unsent(send') /\ close_state \subseteq close_state'
  BY <1>1, <1>2, CloseFrameUnsent DEF FitInv
<1>4. curl'.eof = curl.eof
  BY UnpauseKeepsEof DEF _error_close
<1> QED BY <1>3, <1>4, QuietKeeps DEF _error_close, Idle

\* The loop of data_block_sender: no frame of a block exceeds max_payload_size.
LEMMA BlockSenderFits ==
  ASSUME IInv, FitInv, data_block_sender
  PROVE  FitInv'
<1>1. pc = "blk" /\ close_state' = close_state
  BY DEF data_block_sender
<1>2. max_payload_size \in Nat /\ blk.len \in Nat
  BY SizesAssumption DEF IInv, TypeOK
<1>3. ASSUME NEW options, NEW n \in Nat, n <= max_payload_size, NEW rv,
             frame_sender_data(options, n, rv)
      PROVE  Unsent(send') /\ curl'.eof = curl.eof
  BY <1>3, DataFrameFits, DataFrameUnsent, DataFrameKeepsEof DEF FitInv
<1>4. Unsent(send') /\ curl'.eof = curl.eof
  <2>1. PICK rv \in CWScode :
          \/ frame_sender_data(blk.options, max_payload_size, rv)
          \/ /\ blk.len <= max_payload_size
             /\ frame_sender_data(blk.options \cup {"LAST"}, blk.len, rv)
    BY DEF data_block_sender
  <2>2. CASE frame_sender_data(blk.options, max_payload_size, rv)
    BY <1>2, <1>3, <2>2
  <2>3. CASE /\ blk.len <= max_payload_size
             /\ frame_sender_data(blk.options \cup {"LAST"}, blk.len, rv)
    BY <1>2, <1>3, <2>3
  <2> QED BY <2>1, <2>2, <2>3
<1>5. pc' # "fill"
  <2>1. pc' = pc \/ pc' = "idle"
    BY DEF data_block_sender
  <2> QED BY <1>1, <2>1
<1> QED BY <1>1, <1>4, <1>5, QuietKeeps

\* cws_send_strm_*, of which PiecesFit speaks.
LEMMA StreamFits ==
  ASSUME PiecesFit, IInv, FitInv, NEW type, NEW info, NEW b \in Pieces,
         cws_send_strm(type, info, b)
  PROVE  FitInv'
<1>1. stream_len(type, b) \in Nat
      /\ 0 < frame_encode(stream_len(type, b), max_payload_size + WS_FRAME_HEADER_MAX)
  BY InputsAssumption DEF PiecesFit, stream_len, AppBuffer
<1>2. pc = "idle" /\ pc' = pc /\ close_state' = close_state
  BY DEF cws_send_strm, Idle
<1>3. PICK rv \in CWScode :
        frame_sender_data(stream_options(type, info), stream_len(type, b), rv)
  BY DEF cws_send_strm
<1>4. Unsent(send') /\ curl'.eof = curl.eof
  BY <1>1, <1>3, DataFrameUnsent, DataFrameKeepsEof DEF FitInv
<1> QED BY <1>2, <1>4, QuietKeeps

\* The read callback outside its loop: it ends the data only after the handshake.
LEMMA SendCbFits ==
  ASSUME IInv, FitInv, send_cb
  PROVE  FitInv'
<1>1. CASE send_cb_redirected
  BY <1>1, QuietKeeps DEF send_cb_redirected, curl_reads, Idle, vars, FitInv, IInv, TypeOK
<1>2. CASE send_cb_closed
  <2>1. {"RECEIVED", "SENT", "CLOSED"} \subseteq close_state'
    BY <1>2 DEF send_cb_closed, READY_TO_CLOSE
  <2>2. Unsent(send)' /\ pc' # "fill"
    BY <1>2 DEF send_cb_closed, curl_reads, Idle, FitInv, Unsent
  <2> QED BY <2>1, <2>2 DEF FitInv, FillHasWork, EofOnlyWhenClosed
<1>3. CASE send_cb_pause
  BY <1>3, QuietKeeps DEF send_cb_pause, curl_reads, Idle, api, FitInv, IInv, TypeOK
<1>4. ASSUME NEW len \in BufferSizes, send_cb_fill(len) PROVE FitInv'
  <2>1. len \in Nat /\ 0 < len
    BY SizesAssumption
  <2>2. send[1] \in Buf /\ send[1].sent < send[1].written
    BY <1>4 DEF send_cb_fill, FitInv, Unsent, IInv, TypeOK
  <2>3. 0 < send[1].written - send[1].sent
    BY <2>2 DEF Buf
  <2>4. FillHasWork'
    BY <1>4, <2>1, <2>3 DEF send_cb_fill, curl_reads, FillHasWork
  <2>5. Unsent(send)' /\ EofOnlyWhenClosed'
    BY <1>4 DEF send_cb_fill, api, FitInv, Unsent, EofOnlyWhenClosed
  <2> QED BY <2>4, <2>5 DEF FitInv
<1> QED BY <1>1, <1>2, <1>3, <1>4 DEF send_cb

\* One iteration of _fill_outgoing_buffer hands over at least one byte.
LEMMA FillStepFits ==
  ASSUME IInv, FitInv, fill_step
  PROVE  FitInv'
<1> DEFINE k == IF fill.data_to_send < fill.len THEN fill.data_to_send ELSE fill.len
<1>1. fill.len \in Nat /\ fill.data_to_send \in Nat /\ fill.sent \in Nat
  BY DEF IInv, TypeOK
<1>2. k \in Nat /\ 0 < k /\ k <= fill.data_to_send /\ 0 < fill.data_to_send
  BY <1>1 DEF fill_step
<1>3. send # << >> /\ fill.data_to_send = send[1].written - send[1].sent
  BY <1>2 DEF fill_step, IInv, FillCountsHead
<1>4. send' = after_sending(send, k) /\ fill'.sent = fill.sent + k
  BY DEF fill_step
<1> HIDE DEF k
<1>5. Unsent(send')
  <2>1. send \in Seq(Buf) /\ Unsent(send)
    BY DEF IInv, TypeOK, FitInv
  <2>2. k <= send[1].written - send[1].sent
    BY <1>2, <1>3
  <2> QED BY <1>2, <1>3, <1>4, <2>1, <2>2, SendingKeepsUnsent
<1>6. FillHasWork'
  BY <1>1, <1>2, <1>4 DEF fill_step, FitInv, FillHasWork
<1>7. EofOnlyWhenClosed'
  BY DEF fill_step, FitInv, FillHasWork, EofOnlyWhenClosed
<1> QED BY <1>5, <1>6, <1>7 DEF FitInv, Unsent

\* _send_cb returns the bytes it sent, and these are more than none.
LEMMA FillReturnFits ==
  ASSUME IInv, FitInv, fill_return
  PROVE  FitInv'
<1>1. fill.sent # 0
  BY DEF fill_return, FitInv, FillHasWork
<1>2. curl'.eof = FALSE
  BY <1>1 DEF fill_return, IInv, TypeOK
<1>3. Unsent(send)' /\ pc' # "fill"
  BY DEF fill_return, FitInv, Unsent
<1> QED BY <1>2, <1>3 DEF FitInv, FillHasWork, EofOnlyWhenClosed

-------------------------------------------------------------------------------
(* The theorems *)

\* Every step keeps FitInv, given the invariant of SendQueueProofs.
LEMMA FitNextKeeps ==
  ASSUME PiecesFit
  PROVE  IInv /\ FitInv /\ [Next]_vars => FitInv'
<1> SUFFICES ASSUME IInv, FitInv, [Next]_vars PROVE FitInv'
  OBVIOUS
<1>1. ASSUME NEW n \in CtlLens \cup PingLens, cws_ping(n) \/ cws_pong(n) PROVE FitInv'
  <2>1. n \in Nat
    BY SizesAssumption
  <2> QED BY <1>1, <2>1, ControlCallFits DEF cws_ping, cws_pong, ControlOpcodes
<1>2. ASSUME NEW a \in CloseArgs, cws_close(a) PROVE FitInv'
  BY <1>2, CloseFits, InputsAssumption
<1>3. ASSUME NEW type \in {"BINARY", "TEXT"}, NEW b \in Blocks, cws_send_blk(type, b) PROVE FitInv'
  <2>1. pc = "idle" /\ (pc' = pc \/ pc' = "blk") /\ UNCHANGED <<send, close_state, curl>>
    BY <1>3 DEF cws_send_blk, Idle, api
  <2> QED BY <2>1, QuietKeeps DEF FitInv
<1>4. ASSUME NEW type \in {"BINARY", "TEXT"}, NEW info \in Infos, NEW b \in Pieces,
             cws_send_strm(type, info, b)
      PROVE  FitInv'
  BY <1>4, StreamFits
<1>5. CASE data_block_sender
  BY <1>5, BlockSenderFits
<1>6. ASSUME NEW a \in ErrorCloseArgs, _error_close(a) PROVE FitInv'
  BY <1>6, ErrorCloseFits
<1>7. ASSUME NEW b \in BOOLEAN, header_redirection(b) PROVE FitInv'
  BY <1>7, QuietKeeps DEF header_redirection, Idle, api, FitInv
<1>8. CASE send_cb
  BY <1>8, SendCbFits
<1>9. CASE fill_step
  BY <1>9, FillStepFits
<1>10. CASE fill_return
  BY <1>10, FillReturnFits
<1>11. ASSUME NEW rv \in CallbackResults, process_rv(rv) PROVE FitInv'
  <2> DEFINE a == [code |-> IF is_close_code_valid(rv) THEN rv ELSE 1011,
                   reason |-> "NULL", len |-> 0]
  <2>1. a \in CloseArg
    BY InputsAssumption DEF CloseArg
  <2>2. cws_close(a)
    BY <1>11 DEF process_rv
  <2> HIDE DEF a
  <2> QED BY <2>1, <2>2, CloseFits
<1>12. CASE UNCHANGED vars
  BY <1>12 DEF vars, FitInv, Unsent, FillHasWork, EofOnlyWhenClosed
<1> QED
  BY <1>1, <1>2, <1>3, <1>4, <1>5, <1>6, <1>7, <1>8, <1>9, <1>10, <1>11, <1>12
     DEF Next, Call, Peer, Terminated

\* The queue is empty and curl knows of no end when the connection starts.
LEMMA FitInitHolds == Init => FitInv
BY DEF Init, FitInv, Unsent, FillHasWork, EofOnlyWhenClosed

\* FitInv is an invariant.
LEMMA FitInvariant ==
  ASSUME PiecesFit
  PROVE  Spec => []FitInv
<1>1. IInv /\ FitInv /\ [Next]_vars => FitInv'
  BY FitNextKeeps
<1> QED BY <1>1, FitInitHolds, Invariant, PTL DEF Spec

\* When every piece fits, _send_cb tells curl that there is nothing more to send
\* only after the closing handshake.
THEOREM EofIsTheClose ==
  ASSUME PiecesFit
  PROVE  Spec => []EofOnlyWhenClosed
<1>1. FitInv => EofOnlyWhenClosed
  BY DEF FitInv
<1> QED BY <1>1, FitInvariant, PTL
===============================================================================
