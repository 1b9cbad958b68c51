-------------------------- MODULE SendQueueWireProofs --------------------------
(***************************************************************************)
(* Theorems about the frames that leave: what is queued and what curl was  *)
(* handed belong together frame by frame, whatever allocation fails and    *)
(* whatever curl's buffers measure.                                        *)
(***************************************************************************)
EXTENDS SendQueueProofs, SequenceTheorems

-------------------------------------------------------------------------------
(* What a step does to a sequence of buffers or segments *)

\* send_frame queues a frame at the end.
LEMMA Enqueued ==
  ASSUME NEW q \in Seq(Buf), NEW b \in Buf
  PROVE  LET r == enqueue(q, b)
         IN  /\ Len(r) = Len(q) + 1
             /\ r[Len(q) + 1] = b
             /\ \A i \in 1..Len(q) : r[i] = q[i]
BY DEF enqueue

\* r is q after k bytes of its head b were handed over.
SentFrom(r, q, k) ==
  \/ /\ q[1].sent + k # q[1].written
     /\ Len(r) = Len(q)
     /\ r[1] = [q[1] EXCEPT !.sent = @ + k]
     /\ \A i \in 2..Len(r) : r[i] = q[i]
  \/ /\ q[1].sent + k = q[1].written
     /\ q[1].is_close_frame
     /\ r = << >>
  \/ /\ q[1].sent + k = q[1].written
     /\ ~q[1].is_close_frame
     /\ r = Tail(q)
     /\ Len(r) = Len(q) - 1
     /\ \A i \in 1..Len(r) : r[i] = q[i + 1]

\* after_sending takes a part of the head, the head, or everything.
LEMMA SendingFrom ==
  ASSUME NEW q \in Seq(Buf), q # << >>, NEW k \in Nat
  PROVE  SentFrom(after_sending(q, k), q, k)
<1> DEFINE head == [q[1] EXCEPT !.sent = @ + k]
<1>1. q[1] \in Buf /\ Len(q) \in Nat /\ 1 <= Len(q)
  OBVIOUS
<1>2. head \in Buf /\ head.sent = q[1].sent + k /\ head.written = q[1].written
      /\ head.is_close_frame = q[1].is_close_frame
  BY <1>1, PartlySent
<1>3. Tail(q) \in Seq(Buf) /\ Len(Tail(q)) = Len(q) - 1
      /\ \A i \in 1..Len(q) - 1 : Tail(q)[i] = q[i + 1]
  OBVIOUS
<1>4. CASE q[1].sent + k # q[1].written
  <2> DEFINE r == <<head>> \o Tail(q)
  <2>1. after_sending(q, k) = r
    BY <1>4, <1>2 DEF after_sending
  <2>2. Len(r) = Len(q) /\ r[1] = head /\ \A i \in 2..Len(r) : r[i] = q[i]
    BY <1>2, <1>3
  <2> HIDE DEF r
  <2> QED BY <1>4, <2>1, <2>2 DEF SentFrom
<1>5. CASE q[1].sent + k = q[1].written
  <2>1. after_sending(q, k) = IF q[1].is_close_frame THEN << >> ELSE Tail(q)
    BY <1>5, <1>2 DEF after_sending
  <2> QED BY <1>3, <1>5, <2>1 DEF SentFrom
<1> QED BY <1>4, <1>5

\* The segment of buffer b when n of its bytes were handed over.
SegmentOf(b, n) ==
  [id |-> b.id, opcode |-> b.opcode, fin |-> b.fin, n |-> n, written |-> b.written]

\* The last segment of w is of a buffer that is partly sent.
LastIs(w, b) == w # << >> /\ w[Len(w)] = SegmentOf(b, b.sent)

\* What curl is handed extends the segment of its frame, or is a new one.
LEMMA HandedOver ==
  ASSUME NEW w \in Seq(Segment), NEW b \in Buf, NEW k \in Nat,
         0 < b.sent => LastIs(w, b),
         ~(0 < b.sent) => \A i \in 1..Len(w) : w[i].id # b.id
  PROVE  LET r == handed_over(w, b, k)
             l == IF 0 < b.sent THEN Len(w) ELSE Len(w) + 1
         IN  /\ Len(r) = l /\ l \in 1..l
             /\ r[l] = SegmentOf(b, b.sent + k)
             /\ \A i \in 1..l - 1 : r[i] = w[i]
<1>0. b.sent \in Nat
  BY DEF Buf
<1>1. CASE 0 < b.sent
  <2> DEFINE n == Len(w)
             s == [w[n] EXCEPT !.n = @ + k]
             r == [w EXCEPT ![n] = s]
  <2>1. n \in 1..n /\ w # << >> /\ w[n] = SegmentOf(b, b.sent)
    BY <1>1 DEF LastIs
  <2>2. w[n].id = b.id /\ s = SegmentOf(b, b.sent + k)
    BY <2>1 DEF SegmentOf
  <2>3. handed_over(w, b, k) = r
    BY <2>1, <2>2 DEF handed_over
  <2>4. Len(r) = n /\ r[n] = s /\ \A i \in 1..n - 1 : r[i] = w[i]
    BY <2>1
  <2> QED BY <1>1, <2>1, <2>2, <2>3, <2>4
<1>2. CASE ~(0 < b.sent)
  <2>1. b.sent = 0
    BY <1>0, <1>2
  <2>2. handed_over(w, b, k) = Append(w, SegmentOf(b, k))
    BY <1>2 DEF handed_over, SegmentOf
  <2>3. SegmentOf(b, b.sent + k) = SegmentOf(b, k)
    BY <2>1
  <2>4. Len(Append(w, SegmentOf(b, k))) = Len(w) + 1
        /\ Append(w, SegmentOf(b, k))[Len(w) + 1] = SegmentOf(b, k)
        /\ \A i \in 1..Len(w) : Append(w, SegmentOf(b, k))[i] = w[i]
    OBVIOUS
  <2> QED BY <1>2, <2>2, <2>3, <2>4
<1> QED BY <1>1, <1>2

-------------------------------------------------------------------------------
(* The kinds of steps.  For what leaves, a step queues nothing, queues one     *)
(* frame, or hands bytes to curl.                                              *)

\* A step that queues nothing and hands nothing over.  That a data frame is said to
\* be queued and is not can only be for want of memory; that a close is, for want of
\* memory or because it was to be urgent.
Quiet ==
  /\ UNCHANGED <<send, wire, nframes>>
  /\ close_state \subseteq close_state'
  /\ "SENT" \in close_state' => "SENT" \in close_state
  /\ ~MallocMayFail /\ NoUrgentClose /\ "QUEUED" \in close_state' => "QUEUED" \in close_state
  /\ ~MallocMayFail => UNCHANGED last_sent_data_frame_info

\* What queueing a frame does to the message that is being sent: a data frame
\* continues it, or starts one if there is none, and tells whether it goes on.
ContinuesMessage(opcode, fin) ==
  IF opcode \in DataOpcodes
  THEN /\ opcode = WS_OPCODE_CONTINUATION <=> stream_open(last_sent_data_frame_info)
       /\ stream_open(last_sent_data_frame_info') <=> ~fin
  ELSE UNCHANGED last_sent_data_frame_info

\* A step that queues a frame.  After a close, or one that found no memory or was
\* refused, there is none.
Submits(opcode, fin, n) ==
  /\ send' = enqueue(send, new_buf(opcode, fin, n))
  /\ nframes' = nframes + 1
  /\ wire' = wire
  /\ "QUEUED" \notin close_state
  /\ close_state \subseteq close_state'
  /\ "SENT" \in close_state' => "SENT" \in close_state
  /\ "QUEUED" \in close_state' <=> opcode = WS_OPCODE_CLOSE
  /\ ContinuesMessage(opcode, fin)

\* Some frame is submitted.
SubmitsOne ==
  \E opcode \in DataOpcodes \cup ControlOpcodes, fin \in BOOLEAN, n \in Nat :
    Submits(opcode, fin, n)

\* It is no pong ...
SubmitsOther ==
  \E opcode \in (DataOpcodes \cup ControlOpcodes) \ {WS_OPCODE_PONG}, fin \in BOOLEAN, n \in Nat :
    Submits(opcode, fin, n)

\* ... or a pong with n bytes.
SubmitsPong(n) == Submits(WS_OPCODE_PONG, TRUE, n)

\* Either is some frame.
LEMMA SubmitsSome ==
  /\ SubmitsOther => SubmitsOne
  /\ \A n \in Nat : SubmitsPong(n) => SubmitsOne
<1>1. WS_OPCODE_PONG \in DataOpcodes \cup ControlOpcodes
  BY DEF ControlOpcodes
<1> QED BY <1>1 DEF SubmitsOther, SubmitsPong, SubmitsOne

\* A data frame is not a close, nor a pong.
LEMMA DataIsNotClose ==
  \A opcode \in DataOpcodes : opcode # WS_OPCODE_CLOSE /\ opcode # WS_OPCODE_PONG
BY DEF DataOpcodes, WS_OPCODE_CONTINUATION, WS_OPCODE_TEXT, WS_OPCODE_BINARY, WS_OPCODE_CLOSE,
       WS_OPCODE_PONG

\* Nor is any control frame a data frame.
LEMMA ControlIsNotData == \A opcode \in ControlOpcodes : opcode \notin DataOpcodes
BY DEF ControlOpcodes, DataOpcodes, WS_OPCODE_CONTINUATION, WS_OPCODE_TEXT, WS_OPCODE_BINARY,
       WS_OPCODE_CLOSE, WS_OPCODE_PING, WS_OPCODE_PONG

\* frame_sender_data accepts a continuation exactly while a message is open.
LEMMA AcceptedContinues ==
  ASSUME NEW options, data_refusal(options) = "OK", last_sent_data_frame_info' = options
  PROVE  ContinuesMessage(data_opcode(options), "LAST" \in options)
<1>1. options \cap NONCTRL_MASK \in DataTypes
      /\ ((options \cap NONCTRL_MASK = {"CONT"}) <=> stream_open(last_sent_data_frame_info))
  BY DEF data_refusal, stream_open
<1>2. options \cap NONCTRL_MASK = {"CONT"} <=> "CONT" \in options
  BY <1>1 DEF DataTypes, NONCTRL_MASK
<1>3. data_opcode(options) = WS_OPCODE_CONTINUATION <=> "CONT" \in options
  BY DEF data_opcode, WS_OPCODE_CONTINUATION, WS_OPCODE_TEXT, WS_OPCODE_BINARY
<1>4. data_opcode(options) \in DataOpcodes
  BY DEF data_opcode, DataOpcodes
<1>5. stream_open(last_sent_data_frame_info') <=> ~("LAST" \in options)
  <2>1. options # {}
    BY <1>1 DEF DataTypes
  <2> QED BY <2>1 DEF stream_open
<1> QED BY <1>1, <1>2, <1>3, <1>4, <1>5 DEF ContinuesMessage

\* frame_sender_data queues an ordinary frame, or nothing.
LEMMA DataFrameKind ==
  ASSUME NEW options, NEW n \in Nat, NEW rv, frame_sender_data(options, n, rv),
         UNCHANGED <<wire, close_state>>
  PROVE  Quiet \/ SubmitsOther
<1>1. CASE /\ UNCHANGED <<send, nframes>>
           /\ MallocMayFail \/ UNCHANGED last_sent_data_frame_info
  BY <1>1 DEF Quiet
<1>2. CASE /\ data_refusal(options) = "OK"
           /\ last_sent_data_frame_info' = options
           /\ send' = enqueue(send, new_buf(data_opcode(options), "LAST" \in options, n))
           /\ nframes' = nframes + 1
  <2>1. data_opcode(options) \in DataOpcodes /\ ("LAST" \in options) \in BOOLEAN
    BY DEF data_opcode, DataOpcodes
  <2>2. close_state = {}
    BY <1>2 DEF data_refusal
  <2>3. Submits(data_opcode(options), "LAST" \in options, n)
    BY <1>2, <2>1, <2>2, DataIsNotClose, AcceptedContinues DEF Submits
  <2> QED BY <2>1, <2>3, DataIsNotClose DEF SubmitsOther
<1> QED BY <1>1, <1>2 DEF frame_sender_data, queue_frame

\* cws_ping and cws_pong, which queue what they are given but after a close.
LEMMA ControlCallKind ==
  ASSUME NEW opcode \in {WS_OPCODE_PING, WS_OPCODE_PONG}, NEW n \in Nat,
         control_call(opcode, n)
  PROVE  /\ Quiet \/ Submits(opcode, TRUE, n)
         /\ ~MallocMayFail /\ "QUEUED" \notin close_state /\ n <= WS_CTL_PAYLOAD_MAX
              => Submits(opcode, TRUE, n)
<1>1. UNCHANGED <<wire, close_state, last_sent_data_frame_info>>
  BY DEF control_call
<1>2. ASSUME UNCHANGED <<send, nframes>> PROVE Quiet
  BY <1>1, <1>2 DEF Quiet
<1>3. ASSUME "QUEUED" \notin close_state,
             send' = enqueue(send, new_buf(opcode, TRUE, n)),
             nframes' = nframes + 1
      PROVE  Submits(opcode, TRUE, n)
  <2>1. opcode \in ControlOpcodes /\ opcode # WS_OPCODE_CLOSE
    BY DEF ControlOpcodes, WS_OPCODE_CLOSE, WS_OPCODE_PING, WS_OPCODE_PONG
  <2> QED BY <1>1, <1>3, <2>1, ControlIsNotData DEF Submits, ContinuesMessage
<1>4. PICK rv \in CWScode : control_frame(opcode, FALSE, n, rv)
  BY DEF control_call
<1>5. \/ /\ "QUEUED" \in close_state \/ ~(n <= WS_CTL_PAYLOAD_MAX) \/ MallocMayFail
         /\ UNCHANGED <<send, nframes>>
      \/ /\ "QUEUED" \notin close_state
         /\ send' = enqueue(send, new_buf(opcode, TRUE, n))
         /\ nframes' = nframes + 1
  <2>1. CASE "QUEUED" \in close_state
    BY <1>4, <2>1 DEF control_frame
  <2>2. CASE "QUEUED" \notin close_state /\ WS_CTL_PAYLOAD_MAX < n
    <3>1. ~(n <= WS_CTL_PAYLOAD_MAX)
      BY <2>2 DEF WS_CTL_PAYLOAD_MAX
    <3>2. UNCHANGED <<send, nframes>>
      BY <1>4, <2>2 DEF control_frame
    <3> QED BY <3>1, <3>2
  <2>3. CASE "QUEUED" \notin close_state /\ ~(WS_CTL_PAYLOAD_MAX < n)
    <3>1. queue_frame(opcode, TRUE, n, rv)
      BY <1>4, <2>3 DEF control_frame
    <3> QED BY <2>3, <3>1, Zenon DEF queue_frame
  <2> QED BY <2>1, <2>2, <2>3
<1> QED BY <1>2, <1>3, <1>5, Zenon

\* cws_ping queues no pong.
LEMMA PingKind ==
  ASSUME NEW n \in Nat, cws_ping(n)
  PROVE  Quiet \/ SubmitsOther
<1>1. /\ WS_OPCODE_PING \in (DataOpcodes \cup ControlOpcodes) \ {WS_OPCODE_PONG}
      /\ TRUE \in BOOLEAN
  BY DEF ControlOpcodes, WS_OPCODE_PING, WS_OPCODE_PONG
<1>2. Quiet \/ Submits(WS_OPCODE_PING, TRUE, n)
  BY ControlCallKind DEF cws_ping
<1> QED BY <1>1, <1>2 DEF SubmitsOther

\* cws_pong queues a pong, if it may.
LEMMA PongKind ==
  ASSUME NEW n \in Nat, cws_pong(n)
  PROVE  /\ Quiet \/ SubmitsPong(n)
         /\ ~MallocMayFail /\ "QUEUED" \notin close_state /\ n <= WS_CTL_PAYLOAD_MAX
              => SubmitsPong(n)
BY ControlCallKind DEF cws_pong, SubmitsPong

\* What cws_close accepts fits a control frame.
LEMMA CloseFitsControl ==
  ASSUME NEW a \in CloseArg, close_refusal(a) = "OK"
  PROVE  close_payload_len(a) \in Nat /\ close_payload_len(a) <= WS_CTL_PAYLOAD_MAX
BY DEF CloseArg, close_refusal, close_payload_len, WS_CTL_PAYLOAD_MAX

\* cws_close, called by the application or by _error_close, which queues no close
\* that is to be urgent.
LEMMA CloseFrameKind ==
  ASSUME NEW a \in CloseArg, NEW received \in SUBSET {"RECEIVED"}, NEW rv,
         close_frame(a, received, rv), UNCHANGED <<wire, last_sent_data_frame_info>>,
         NoUrgentClose => ~urgent(a)
  PROVE  Quiet \/ SubmitsOther
<1>1. CASE close_state' = close_state \cup received /\ UNCHANGED <<send, nframes>>
  BY <1>1 DEF Quiet
<1>2. CASE /\ close_refusal(a) = "OK"
           /\ control_frame(WS_OPCODE_CLOSE, urgent(a), close_payload_len(a), rv)
           /\ close_state' = close_state \cup received \cup {"QUEUED"}
  <2> DEFINE n == close_payload_len(a)
  <2>1. n \in Nat /\ n <= WS_CTL_PAYLOAD_MAX /\ ~(WS_CTL_PAYLOAD_MAX < n)
    BY <1>2, CloseFitsControl DEF WS_CTL_PAYLOAD_MAX
  <2> HIDE DEF n
  <2>2. CASE urgent(a) \/ "QUEUED" \in close_state
    <3>1. UNCHANGED <<send, nframes>>
      BY <1>2, <2>2 DEF control_frame
    <3> QED BY <1>2, <2>2, <3>1 DEF Quiet
  <2>3. CASE "QUEUED" \notin close_state /\ MallocMayFail /\ UNCHANGED <<send, nframes>>
    BY <1>2, <2>3 DEF Quiet
  <2>4. CASE /\ ~urgent(a)
             /\ "QUEUED" \notin close_state
             /\ send' = enqueue(send, new_buf(WS_OPCODE_CLOSE, TRUE, n))
             /\ nframes' = nframes + 1
    <3>1. WS_OPCODE_CLOSE \in ControlOpcodes
      BY DEF ControlOpcodes
    <3> WS_OPCODE_CLOSE # WS_OPCODE_PONG
      BY DEF WS_OPCODE_CLOSE, WS_OPCODE_PONG
    <3>2. Submits(WS_OPCODE_CLOSE, TRUE, n)
      BY <1>2, <2>4, <3>1, ControlIsNotData DEF Submits, ContinuesMessage
    <3> QED BY <2>1, <3>1, <3>2 DEF SubmitsOther
  <2>5. \/ urgent(a) \/ "QUEUED" \in close_state
        \/ ~urgent(a) /\ "QUEUED" \notin close_state /\ queue_frame(WS_OPCODE_CLOSE, TRUE, n, rv)
    BY <1>2, <2>1 DEF control_frame, n
  <2> QED BY <2>2, <2>3, <2>4, <2>5 DEF queue_frame
<1> QED BY <1>1, <1>2 DEF close_frame

\* The closes of the library are not urgent.
LEMMA LibraryClosesInOrder ==
  /\ \A a \in ErrorCloseArgs : ~urgent(a)
  /\ \A code \in Int : is_close_code_valid(code) => 0 <= code
<1>1. \A code \in Int : is_close_code_valid(code) => 0 <= code
  BY DEF is_close_code_valid
<1>2. \A code \in PeerCodes : ~(code < 0)
  BY InputsAssumption DEF is_close_code_valid
<1> QED
  BY <1>1, <1>2 DEF ErrorCloseArgs, PeerCloseArg, NoCodeCloseArg, BreachCloseArg,
                    BadPayloadCloseArg, urgent

\* The steps but the answers to pings.
OtherNext ==
  \/ Call
  \/ data_block_sender
  \/ \E a \in ErrorCloseArgs : _error_close(a)
  \/ \E b \in BOOLEAN : header_redirection(b)
  \/ send_cb
  \/ fill_step
  \/ fill_return
  \/ Terminated

\* Those are of one of the three kinds, and the application's pongs the only ones.
LEMMA KindsOfOthers ==
  ASSUME IInv, OtherNext \/ UNCHANGED vars
  PROVE  Quiet \/ SubmitsOther \/ (\E n \in CtlLens : SubmitsPong(n)) \/ fill_step
<1>1. ASSUME NEW n \in CtlLens, cws_ping(n) \/ cws_pong(n)
      PROVE  Quiet \/ SubmitsOther \/ SubmitsPong(n)
  <2>1. n \in Nat
    BY SizesAssumption
  <2> QED BY <1>1, <2>1, PingKind, PongKind
<1>2. ASSUME NEW a \in CloseArg, cws_close(a), NoUrgentClose => ~urgent(a)
      PROVE  Quiet \/ SubmitsOther
  <2>1. /\ UNCHANGED <<wire, last_sent_data_frame_info>>
        /\ \E rv \in CWScode : close_frame(a, {}, rv)
    BY <1>2 DEF cws_close
  <2> QED BY <1>2, <2>1, CloseFrameKind
<1>3. ASSUME NEW a \in ErrorCloseArgs, _error_close(a) PROVE Quiet \/ SubmitsOther
  <2>1. /\ UNCHANGED <<wire, last_sent_data_frame_info>>
        /\ \E rv \in CWScode : close_frame(a, {"RECEIVED"}, rv)
    BY <1>3 DEF _error_close
  <2> QED BY <2>1, CloseFrameKind, ErrorCloseArgsTyped, LibraryClosesInOrder
<1>4. ASSUME NEW rv \in CallbackResults, process_rv(rv) PROVE Quiet \/ SubmitsOther
  <2> DEFINE a == [code |-> IF is_close_code_valid(rv) THEN rv ELSE 1011,
                   reason |-> "NULL", len |-> 0]
  <2>1. a \in CloseArg
    BY InputsAssumption DEF CloseArg
  <2>2. cws_close(a)
    BY <1>4 DEF process_rv
  <2>3. ~urgent(a)
    BY InputsAssumption, LibraryClosesInOrder DEF urgent
  <2> HIDE DEF a
  <2> QED BY <1>2, <2>1, <2>2, <2>3
<1>5. ASSUME NEW type \in {"BINARY", "TEXT"}, NEW info \in Infos, NEW b \in Pieces,
             cws_send_strm(type, info, b)
      PROVE  Quiet \/ SubmitsOther
  <2>1. stream_len(type, b) \in Nat
    BY InputsAssumption DEF stream_len, AppBuffer
  <2> QED BY <1>5, <2>1, DataFrameKind DEF cws_send_strm
<1>6. ASSUME data_block_sender PROVE Quiet \/ SubmitsOther
  <2>1. max_payload_size \in Nat /\ blk.len \in Nat
    BY SizesAssumption DEF IInv, TypeOK
  <2>2. UNCHANGED <<wire, close_state>>
    BY <1>6 DEF data_block_sender
  <2>3. \E rv \in CWScode : \/ frame_sender_data(blk.options, max_payload_size, rv)
                            \/ frame_sender_data(blk.options \cup {"LAST"}, blk.len, rv)
    BY <1>6 DEF data_block_sender
  <2> QED BY <2>1, <2>2, <2>3, DataFrameKind
<1>7. ASSUME NEW type \in {"BINARY", "TEXT"}, NEW b \in Blocks, cws_send_blk(type, b) PROVE Quiet
  BY <1>7 DEF cws_send_blk, api, Quiet
<1>8. ASSUME NEW b \in BOOLEAN, header_redirection(b) PROVE Quiet
  BY <1>8 DEF header_redirection, api, Quiet
<1>9. ASSUME send_cb PROVE Quiet
  BY <1>9 DEF send_cb, send_cb_redirected, send_cb_closed, send_cb_pause, send_cb_fill,
              vars, api, Quiet
<1>10. ASSUME fill_return PROVE Quiet
  BY <1>10 DEF fill_return, api, Quiet
<1>11. ASSUME Terminated \/ UNCHANGED vars PROVE Quiet
  BY <1>11 DEF vars, Quiet, Terminated
<1>12. /\ CloseArgs \subseteq CloseArg
       /\ \A a \in CloseArgs : NoUrgentClose => ~urgent(a)
  BY InputsAssumption DEF NoUrgentClose, urgent, CloseArg
<1>13. ASSUME Call PROVE Quiet \/ SubmitsOther \/ \E n \in CtlLens : SubmitsPong(n)
  BY <1>1, <1>2, <1>4, <1>5, <1>7, <1>12, <1>13, Zenon DEF Call
<1> QED BY <1>3, <1>6, <1>8, <1>9, <1>10, <1>11, <1>13, Zenon DEF OtherNext

\* Every step is of one of the three kinds.
LEMMA KindsOfStep ==
  ASSUME IInv, [Next]_vars
  PROVE  Quiet \/ SubmitsOne \/ fill_step
<1>1. CtlLens \subseteq Nat /\ PingLens \subseteq Nat
  BY SizesAssumption
<1>2. CASE OtherNext \/ UNCHANGED vars
  BY <1>1, <1>2, KindsOfOthers, SubmitsSome
<1>3. ASSUME NEW n \in PingLens, cws_pong(n) PROVE Quiet \/ SubmitsOne
  BY <1>1, <1>3, PongKind, SubmitsSome
<1> QED BY <1>2, <1>3 DEF Next, OtherNext, Peer

-------------------------------------------------------------------------------
(* The inductive invariant *)

\* Every frame has a number of its own, in the queue and on the wire.
Numbered ==
  /\ \A i \in 1..Len(send) : send[i].id \in 1..nframes
  /\ \A i \in 1..Len(wire) : wire[i].id \in 1..nframes
  /\ \A i, j \in 1..Len(send) : send[i].id = send[j].id => i = j
  /\ \A i, j \in 1..Len(wire) : wire[i].id = wire[j].id => i = j

\* The head of the queue goes on where the wire ends.
HeadStarted == send # << >> /\ 0 < send[1].sent

\* Only the head, once it is started, is on the wire as well: at its end, with as
\* many bytes as the head counts.
Continues ==
  /\ HeadStarted => LastIs(wire, send[1])
  /\ \A i \in 1..Len(send), j \in 1..Len(wire) :
       send[i].id = wire[j].id => i = 1 /\ HeadStarted

\* All segments are whole except that of a started head.
WholeUntilHead ==
  \A i \in 1..Len(wire) : wire[i].n = wire[i].written \/ (i = Len(wire) /\ HeadStarted)

\* At most one close is under way: in the queue, on the wire, or both while it leaves;
\* and in either nothing is behind it.
OneClose ==
  /\ \A i \in 1..Len(send) : send[i].is_close_frame <=> send[i].opcode = WS_OPCODE_CLOSE
  /\ \A i \in 1..Len(send) : send[i].is_close_frame =>
       /\ i = Len(send)
       /\ "QUEUED" \in close_state /\ "SENT" \notin close_state
  /\ \A i \in 1..Len(wire) : wire[i].opcode = WS_OPCODE_CLOSE =>
       /\ i = Len(wire)
       /\ "QUEUED" \in close_state
       /\ "SENT" \in close_state \/ HeadStarted
  /\ "SENT" \in close_state => "QUEUED" \in close_state /\ send = << >>

\* The inductive invariant of the wire.
WireInv == Numbered /\ Continues /\ WholeUntilHead /\ OneClose

\* A step that changes neither sequence.
LEMMA QuietKeepsWire ==
  ASSUME WireInv, Quiet
  PROVE  WireInv'
<1>1. Numbered' /\ Continues' /\ WholeUntilHead'
  BY DEF WireInv, Quiet, Numbered, Continues, WholeUntilHead, HeadStarted
<1>2. OneClose'
  BY DEF WireInv, Quiet, OneClose, HeadStarted
<1> QED BY <1>1, <1>2 DEF WireInv

\* A new frame is queued.
LEMMA SubmitKeepsWire ==
  ASSUME IInv, WireInv, NEW opcode \in DataOpcodes \cup ControlOpcodes, NEW fin \in BOOLEAN,
         NEW n \in Nat, Submits(opcode, fin, n)
  PROVE  WireInv'
<1> DEFINE b == new_buf(opcode, fin, n)
<1>1. send \in Seq(Buf) /\ wire \in Seq(Segment) /\ nframes \in Nat
      /\ Len(send) \in Nat /\ Len(wire) \in Nat
  BY DEF IInv, TypeOK
<1>2. b \in Buf /\ b.sent = 0 /\ b.id = nframes + 1 /\ b.opcode = opcode
      /\ (b.is_close_frame <=> opcode = WS_OPCODE_CLOSE)
  BY NewBufTyped DEF new_buf, IInv
<1>3. /\ send' = enqueue(send, b) /\ nframes' = nframes + 1 /\ wire' = wire
      /\ "QUEUED" \notin close_state /\ close_state \subseteq close_state'
      /\ "SENT" \in close_state' => "SENT" \in close_state
      /\ "QUEUED" \in close_state' <=> opcode = WS_OPCODE_CLOSE
  BY DEF Submits
<1> HIDE DEF b
<1>4. /\ Len(send') = Len(send) + 1
      /\ send'[Len(send) + 1] = b
      /\ \A i \in 1..Len(send) : send'[i] = send[i]
  BY <1>1, <1>2, <1>3, Enqueued
<1>5. \A i \in 1..Len(send') : i = Len(send') \/ i \in 1..Len(send)
  BY <1>1, <1>4
\* The new frame has not started to leave.
<1>6. HeadStarted' <=> HeadStarted
  <2>1. CASE send = << >>
    BY <1>2, <1>4, <2>1 DEF HeadStarted
  <2>2. CASE send # << >>
    <3>1. 1 \in 1..Len(send) /\ send' # << >>
      BY <1>1, <1>4, <2>2
    <3> QED BY <1>4, <2>2, <3>1 DEF HeadStarted
  <2> QED BY <2>1, <2>2
<1>7. HeadStarted => send'[1] = send[1]
  <2>1. send # << >> => 1 \in 1..Len(send)
    BY <1>1
  <2> QED BY <1>4, <2>1 DEF HeadStarted
<1>8. Numbered'
  <2>1. \A i \in 1..Len(send) : send[i].id \in 1..nframes /\ send[i].id # b.id
    BY <1>1, <1>2 DEF WireInv, Numbered
  <2>2. \A i \in 1..Len(send') : send'[i].id \in 1..nframes'
    BY <1>1, <1>2, <1>3, <1>4, <1>5, <2>1
  <2>3. \A i \in 1..Len(wire') : wire'[i].id \in 1..nframes'
    BY <1>1, <1>3 DEF WireInv, Numbered
  <2>4. \A i, j \in 1..Len(send') : send'[i].id = send'[j].id => i = j
    BY <1>4, <1>5, <2>1 DEF WireInv, Numbered
  <2>5. \A i, j \in 1..Len(wire') : wire'[i].id = wire'[j].id => i = j
    BY <1>3 DEF WireInv, Numbered
  <2> QED BY <2>2, <2>3, <2>4, <2>5 DEF Numbered
<1>9. Continues'
  <2>1. HeadStarted' => LastIs(wire', send'[1])
    BY <1>3, <1>6, <1>7 DEF WireInv, Continues
  <2>2. ASSUME NEW i \in 1..Len(send'), NEW j \in 1..Len(wire'), send'[i].id = wire'[j].id
        PROVE  i = 1 /\ HeadStarted'
    <3>1. wire'[j].id # b.id
      BY <1>1, <1>2, <1>3 DEF WireInv, Numbered
    <3>2. i \in 1..Len(send) /\ send[i].id = wire[j].id
      BY <1>3, <1>4, <1>5, <2>2, <3>1
    <3> QED BY <1>3, <1>6, <3>2 DEF WireInv, Continues
  <2> QED BY <2>1, <2>2 DEF Continues
<1>10. WholeUntilHead'
  BY <1>3, <1>6 DEF WireInv, WholeUntilHead
\* No close was under way, so that the new frame, if it is one, is the only one.
<1>11. OneClose'
  <2>1. \A i \in 1..Len(send) : ~send[i].is_close_frame
        /\ (send[i].is_close_frame <=> send[i].opcode = WS_OPCODE_CLOSE)
    BY <1>3 DEF WireInv, OneClose
  <2>2. \A i \in 1..Len(wire) : wire[i].opcode # WS_OPCODE_CLOSE
    BY <1>3 DEF WireInv, OneClose
  <2>3. "SENT" \notin close_state'
    BY <1>3 DEF WireInv, OneClose
  <2>4. \A i \in 1..Len(send') :
          /\ send'[i].is_close_frame <=> send'[i].opcode = WS_OPCODE_CLOSE
          /\ send'[i].is_close_frame => i = Len(send') /\ opcode = WS_OPCODE_CLOSE
    BY <1>2, <1>4, <1>5, <2>1
  <2> QED BY <1>3, <2>2, <2>3, <2>4 DEF OneClose
<1> QED BY <1>8, <1>9, <1>10, <1>11 DEF WireInv

\* What one iteration of _fill_outgoing_buffer does: k bytes of the head are handed
\* over, and it starts, goes on or ends the segment of the head.
Hands(k) ==
  LET l == IF HeadStarted THEN Len(wire) ELSE Len(wire) + 1
  IN  /\ k \in Nat /\ 0 < k
      /\ send # << >> /\ k <= send[1].written - send[1].sent
      /\ SentFrom(send', send, k)
      /\ Len(wire') = l /\ l \in 1..l
      /\ wire'[l] = SegmentOf(send[1], send[1].sent + k)
      /\ \A i \in 1..l - 1 : wire'[i] = wire[i]
      /\ nframes' = nframes
      /\ close_state' = IF send[1].is_close_frame /\ send[1].sent + k = send[1].written
                          THEN close_state \cup {"SENT"} ELSE close_state

\* An iteration of the copy loop hands over at least one byte and no more than are left.
LEMMA FillStepHands ==
  ASSUME IInv, WireInv, fill_step
  PROVE  \E k \in Nat : Hands(k)
<1> DEFINE k == IF fill.data_to_send < fill.len THEN fill.data_to_send ELSE fill.len
<1>1. fill.len \in Nat /\ fill.data_to_send \in Nat
  BY DEF IInv, TypeOK
<1>2. send # << >> /\ fill.data_to_send = send[1].written - send[1].sent
  BY <1>1 DEF fill_step, IInv, FillCountsHead
<1>3. k \in Nat /\ 0 < k /\ k <= send[1].written - send[1].sent
  BY <1>1, <1>2 DEF fill_step
<1>4. /\ send' = after_sending(send, k)
      /\ wire' = handed_over(wire, send[1], k)
      /\ nframes' = nframes
      /\ close_state' = IF send[1].is_close_frame /\ send[1].sent + k = send[1].written
                          THEN close_state \cup {"SENT"} ELSE close_state
  BY DEF fill_step
<1> HIDE DEF k
<1>5. send \in Seq(Buf) /\ wire \in Seq(Segment) /\ send[1] \in Buf /\ 1 \in 1..Len(send)
  BY <1>2 DEF IInv, TypeOK
<1>6. SentFrom(send', send, k)
  BY <1>2, <1>3, <1>4, <1>5, SendingFrom
<1>7. HeadStarted <=> 0 < send[1].sent
  BY <1>2 DEF HeadStarted
<1>8. 0 < send[1].sent => LastIs(wire, send[1])
  BY <1>7 DEF WireInv, Continues
<1>9. ~(0 < send[1].sent) => \A i \in 1..Len(wire) : wire[i].id # send[1].id
  BY <1>5, <1>7 DEF WireInv, Continues
<1>10. LET l == IF 0 < send[1].sent THEN Len(wire) ELSE Len(wire) + 1
       IN  /\ Len(wire') = l /\ l \in 1..l
           /\ wire'[l] = SegmentOf(send[1], send[1].sent + k)
           /\ \A i \in 1..l - 1 : wire'[i] = wire[i]
  BY <1>3, <1>4, <1>5, <1>8, <1>9, HandedOver
<1>11. Hands(k)
  BY <1>2, <1>3, <1>4, <1>6, <1>7, <1>10 DEF Hands
<1> QED BY <1>3, <1>11

\* The head and the last segment stay in step, whether the head ends or goes on.
LEMMA HandingKeepsWire ==
  ASSUME IInv, WireInv, NEW k \in Nat, Hands(k)
  PROVE  WireInv'
<1> DEFINE h == send[1]
           l == Len(wire')
           at(i) == IF h.sent + k # h.written THEN i ELSE i + 1
<1>1. send \in Seq(Buf) /\ wire \in Seq(Segment) /\ nframes \in Nat
      /\ Len(send) \in Nat /\ Len(wire) \in Nat
  BY DEF IInv, TypeOK
<1>2. send # << >> /\ 1 \in 1..Len(send) /\ h \in Buf /\ h.sent \in Nat /\ h.written \in Nat
  <2>1. send # << >>
    BY DEF Hands
  <2>2. h \in Buf /\ 1 \in 1..Len(send)
    BY <1>1, <2>1
  <2> QED BY <2>1, <2>2 DEF Buf
<1>3. /\ l = IF HeadStarted THEN Len(wire) ELSE Len(wire) + 1
      /\ l \in 1..l
      /\ wire'[l] = SegmentOf(h, h.sent + k)
      /\ \A i \in 1..l - 1 : wire'[i] = wire[i]
      /\ nframes' = nframes
  BY DEF Hands
<1>4. /\ wire'[l].id = h.id /\ wire'[l].opcode = h.opcode
      /\ wire'[l].n = h.sent + k /\ wire'[l].written = h.written
  BY <1>3 DEF SegmentOf
<1> HIDE DEF l
\* The frames before the last segment are those that were on the wire and are not the head.
<1>5. \A i \in 1..l - 1 : i \in 1..Len(wire) /\ wire'[i] = wire[i] /\ wire[i].id # h.id
  <2> TAKE i \in 1..l - 1
  <2>1. i \in 1..Len(wire) /\ wire'[i] = wire[i]
    BY <1>1, <1>3
  <2>2. CASE HeadStarted
    <3>1. wire # << >> /\ wire[Len(wire)].id = h.id /\ l = Len(wire)
      BY <1>3, <2>2 DEF WireInv, Continues, LastIs, SegmentOf
    <3>2. Len(wire) \in 1..Len(wire)
      BY <1>3, <3>1
    <3> QED BY <1>1, <2>1, <3>1, <3>2 DEF WireInv, Numbered
  <2>3. CASE ~HeadStarted
    BY <1>2, <2>1, <2>3 DEF WireInv, Continues
  <2> QED BY <2>1, <2>2, <2>3
<1>6. \A i \in 1..Len(wire') : i = l \/ i \in 1..l - 1
  BY <1>3 DEF l
\* The frames that are left, and whether the head is.
<1>7. SentFrom(send', send, k)
  BY DEF Hands
<1>8. \A i \in 1..Len(send') :
        /\ at(i) \in 1..Len(send)
        /\ send'[i].id = send[at(i)].id /\ send'[i].opcode = send[at(i)].opcode
        /\ send'[i].is_close_frame = send[at(i)].is_close_frame
  <2>1. CASE /\ h.sent + k # h.written
             /\ Len(send') = Len(send)
             /\ send'[1] = [h EXCEPT !.sent = @ + k]
             /\ \A i \in 2..Len(send') : send'[i] = send[i]
    <3> TAKE i \in 1..Len(send')
    <3>1. CASE i = 1
      <4>1. send'[1].id = h.id /\ send'[1].opcode = h.opcode
            /\ send'[1].is_close_frame = h.is_close_frame
        BY <1>2, <2>1 DEF Buf
      <4> QED BY <1>2, <2>1, <3>1, <4>1
    <3>2. CASE i # 1
      BY <1>1, <2>1, <3>2
    <3> QED BY <3>1, <3>2
  <2>2. CASE send' = << >>
    BY <2>2
  <2>3. CASE /\ h.sent + k = h.written
             /\ Len(send') = Len(send) - 1
             /\ \A i \in 1..Len(send') : send'[i] = send[i + 1]
    BY <1>1, <2>3
  <2> QED BY <1>7, <2>1, <2>2, <2>3 DEF SentFrom
<1>9. \A i, j \in 1..Len(send') : at(i) = at(j) => i = j
  OBVIOUS
<1>10. \A i \in 1..Len(send') : at(i) = 1 => i = 1 /\ h.sent + k # h.written
  OBVIOUS
<1> HIDE DEF at
<1>11. HeadStarted' <=> h.sent + k # h.written
  <2>1. CASE h.sent + k # h.written
    <3>1. send' # << >> /\ send'[1] = [h EXCEPT !.sent = @ + k]
      BY <1>1, <1>2, <1>7, <2>1 DEF SentFrom
    <3>2. send'[1].sent = h.sent + k /\ 0 < h.sent + k
      BY <1>2, <3>1 DEF Hands, Buf
    <3> QED BY <2>1, <3>1, <3>2 DEF HeadStarted
  <2>2. CASE h.sent + k = h.written
    <3>1. CASE send' = << >>
      BY <2>2, <3>1 DEF HeadStarted
    <3>2. CASE send' # << >>
      <4>1. send' = Tail(send) /\ Len(send') = Len(send) - 1
            /\ \A i \in 1..Len(send') : send'[i] = send[i + 1]
        BY <1>7, <2>2, <3>2 DEF SentFrom
      <4>2. 1 \in 1..Len(send')
        BY <1>1, <3>2, <4>1
      <4>3. send'[1] = send[2] /\ 2 \in 1..Len(send)
        BY <1>1, <4>1, <4>2
      <4>4. send[2].sent = 0
        BY <4>3 DEF IInv, Queued
      <4> QED BY <2>2, <4>3, <4>4 DEF HeadStarted
    <3> QED BY <3>1, <3>2
  <2> QED BY <2>1, <2>2
<1>12. Numbered'
  <2>1. \A i \in 1..Len(send') : send'[i].id \in 1..nframes'
    BY <1>3, <1>8 DEF WireInv, Numbered
  <2>2. \A i \in 1..Len(wire') : wire'[i].id \in 1..nframes'
    BY SMTT(30), <1>2, <1>3, <1>4, <1>5, <1>6 DEF WireInv, Numbered
  <2>3. \A i, j \in 1..Len(send') : send'[i].id = send'[j].id => i = j
    BY <1>8, <1>9 DEF WireInv, Numbered
  <2>4. \A i, j \in 1..Len(wire') : wire'[i].id = wire'[j].id => i = j
    BY <1>4, <1>5, <1>6 DEF WireInv, Numbered
  <2> QED BY <2>1, <2>2, <2>3, <2>4 DEF Numbered
<1>13. Continues'
  <2>1. ASSUME HeadStarted' PROVE LastIs(wire', send'[1])
    <3>1. send'[1] = [h EXCEPT !.sent = @ + k]
      BY <1>7, <1>11, <2>1 DEF SentFrom
    <3>2. SegmentOf(send'[1], send'[1].sent) = SegmentOf(h, h.sent + k)
      BY <1>2, <3>1 DEF SegmentOf, Buf
    <3>3. wire' # << >>
      BY <1>3 DEF l
    <3> QED BY <1>3, <3>2, <3>3 DEF LastIs, l
  <2>2. ASSUME NEW i \in 1..Len(send'), NEW j \in 1..Len(wire'), send'[i].id = wire'[j].id
        PROVE  i = 1 /\ HeadStarted'
    <3>1. at(i) \in 1..Len(send) /\ send'[i].id = send[at(i)].id
      BY <1>8
    <3>2. at(i) = 1
      <4>1. CASE j = l
        BY <1>2, <1>4, <2>2, <3>1, <4>1 DEF WireInv, Numbered
      <4>2. CASE j \in 1..l - 1
        BY <1>5, <2>2, <3>1, <4>2 DEF WireInv, Continues
      <4> QED BY <1>6, <4>1, <4>2
    <3> QED BY <1>11, <1>10, <3>2
  <2> QED BY <2>1, <2>2 DEF Continues
<1>14. WholeUntilHead'
  <2> SUFFICES ASSUME NEW i \in 1..Len(wire')
               PROVE  wire'[i].n = wire'[i].written \/ (i = Len(wire') /\ HeadStarted')
    BY DEF WholeUntilHead
  <2>1. CASE i = l
    BY <1>4, <1>11, <2>1 DEF l
  <2>2. CASE i \in 1..l - 1
    <3>1. i \in 1..Len(wire) /\ wire'[i] = wire[i] /\ wire[i].id # h.id
      BY <1>5, <2>2
    <3>2. ~(i = Len(wire) /\ HeadStarted)
      BY <1>1, <1>3, <2>2
    <3> QED BY <3>1, <3>2 DEF WireInv, WholeUntilHead
  <2> QED BY <1>6, <2>1, <2>2
<1>15. OneClose'
  <2>0. "SENT" \notin close_state
    BY <1>2 DEF WireInv, OneClose
  <2>1. \A i \in 1..Len(send') : send'[i].is_close_frame <=> send'[i].opcode = WS_OPCODE_CLOSE
    BY <1>8 DEF WireInv, OneClose
  <2>2. ASSUME NEW i \in 1..Len(send'), send'[i].is_close_frame PROVE i = Len(send')
    <3>1. at(i) = Len(send)
      BY <1>8, <2>2 DEF WireInv, OneClose
    <3> QED BY <1>1, <1>7, <2>2, <3>1 DEF SentFrom, at
  <2>3. h.is_close_frame <=> h.opcode = WS_OPCODE_CLOSE
    BY <1>2 DEF WireInv, OneClose
  <2>4. h.is_close_frame => "QUEUED" \in close_state
    BY <1>2 DEF WireInv, OneClose
  <2>5. \A i \in 1..l - 1 : wire'[i].opcode # WS_OPCODE_CLOSE
    <3> SUFFICES ASSUME NEW i \in 1..l - 1, wire'[i].opcode = WS_OPCODE_CLOSE PROVE FALSE
      OBVIOUS
    <3>1. i \in 1..Len(wire) /\ wire[i].opcode = WS_OPCODE_CLOSE
      BY <1>5
    <3>2. i = Len(wire) /\ HeadStarted
      BY <2>0, <3>1 DEF WireInv, OneClose
    <3> QED BY <1>1, <1>3, <3>2
  <2>6. CASE h.is_close_frame /\ h.sent + k = h.written
    <3>1. close_state' = close_state \cup {"SENT"}
      BY <2>6 DEF Hands
    <3>2. send' = << >>
      BY <1>7, <2>6 DEF SentFrom
    <3> QED BY <1>6, <2>4, <2>5, <2>6, <3>1, <3>2 DEF OneClose, l
  <2>7. CASE ~(h.is_close_frame /\ h.sent + k = h.written)
    <3>1. close_state' = close_state
      BY <2>7 DEF Hands
    <3>2. \A i \in 1..Len(send') : send'[i].is_close_frame => "QUEUED" \in close_state
      BY <1>8 DEF WireInv, OneClose
    <3>3. wire'[l].opcode = WS_OPCODE_CLOSE => "QUEUED" \in close_state /\ HeadStarted'
      BY <1>4, <1>11, <2>3, <2>4, <2>7
    <3> QED BY <1>6, <2>0, <2>1, <2>2, <2>5, <3>1, <3>2, <3>3 DEF OneClose, l
  <2> QED BY <2>6, <2>7
<1> QED BY <1>12, <1>13, <1>14, <1>15 DEF WireInv

\* WireInv is an invariant.
LEMMA WireInvariant == Spec => []WireInv
<1>1. Init => WireInv
  BY DEF Init, WireInv, Numbered, Continues, WholeUntilHead, OneClose, HeadStarted
<1>2. IInv /\ WireInv /\ [Next]_vars => WireInv'
  <2> SUFFICES ASSUME IInv, WireInv, [Next]_vars PROVE WireInv'
    OBVIOUS
  <2>1. CASE Quiet
    BY <2>1, QuietKeepsWire
  <2>2. CASE SubmitsOne
    BY <2>2, SubmitKeepsWire DEF SubmitsOne
  <2>3. CASE fill_step
    BY <2>3, FillStepHands, HandingKeepsWire
  <2> QED BY <2>1, <2>2, <2>3, KindsOfStep
<1> QED BY <1>1, <1>2, Invariant, PTL DEF Spec

-------------------------------------------------------------------------------
(* The close that left *)

\* When the library holds its close for sent, the last frame that curl was handed is
\* a whole close frame.
CloseLeft ==
  "SENT" \in close_state => /\ wire # << >>
                            /\ wire[Len(wire)].opcode = WS_OPCODE_CLOSE
                            /\ wire[Len(wire)].n = wire[Len(wire)].written

\* The close itself, without its length.
EndsInClose ==
  "SENT" \in close_state => wire # << >> /\ wire[Len(wire)].opcode = WS_OPCODE_CLOSE

\* Only the last bytes of a close make it sent, and then nothing is left to hand over.
LEMMA EndsInCloseNext ==
  ASSUME IInv, WireInv, EndsInClose, [Next]_vars
  PROVE  EndsInClose'
<1>1. CASE Quiet
  BY <1>1 DEF Quiet, EndsInClose
<1>2. CASE SubmitsOne
  BY <1>2 DEF SubmitsOne, Submits, EndsInClose
<1>3. CASE fill_step
  <2>1. PICK k \in Nat : Hands(k)
    BY <1>3, FillStepHands
  <2>2. send # << >> /\ send \in Seq(Buf)
    BY <2>1 DEF Hands, IInv, TypeOK
  <2>3. 1 \in 1..Len(send) /\ "SENT" \notin close_state
    BY <2>2 DEF WireInv, OneClose
  <2>4. CASE send[1].is_close_frame
    <3>1. send[1].opcode = WS_OPCODE_CLOSE
      BY <2>3, <2>4 DEF WireInv, OneClose
    <3>2. /\ Len(wire') \in 1..Len(wire')
          /\ wire'[Len(wire')] = SegmentOf(send[1], send[1].sent + k)
      BY <2>1 DEF Hands
    <3>3. wire'[Len(wire')].opcode = WS_OPCODE_CLOSE
      BY <3>1, <3>2 DEF SegmentOf
    <3>4. wire' # << >>
      BY <3>2
    <3> QED BY <3>3, <3>4 DEF EndsInClose
  <2>5. CASE ~send[1].is_close_frame
    BY <2>1, <2>3, <2>5 DEF Hands, EndsInClose
  <2> QED BY <2>4, <2>5
<1> QED BY <1>1, <1>2, <1>3, KindsOfStep

\* The state SENT is no empty claim: all bytes of a close frame were handed to curl,
\* and they are the last.
THEOREM CloseWasSent == Spec => []CloseLeft
<1>1. Init => EndsInClose
  BY DEF Init, EndsInClose
<1>2. IInv /\ WireInv /\ EndsInClose /\ [Next]_vars => EndsInClose'
  BY EndsInCloseNext
<1>3. IInv /\ WireInv /\ EndsInClose => CloseLeft
  <2> SUFFICES ASSUME IInv, WireInv, EndsInClose, "SENT" \in close_state
               PROVE  CloseLeft
    BY DEF CloseLeft
  <2>1. send = << >> /\ ~HeadStarted
    BY DEF WireInv, OneClose, HeadStarted
  <2>2. wire \in Seq(Segment) /\ wire # << >> /\ wire[Len(wire)].opcode = WS_OPCODE_CLOSE
    BY DEF IInv, TypeOK, EndsInClose
  <2>3. Len(wire) \in 1..Len(wire)
    BY <2>2
  <2>4. wire[Len(wire)].n = wire[Len(wire)].written
    BY <2>1, <2>3 DEF WireInv, WholeUntilHead
  <2> QED BY <2>2, <2>4 DEF CloseLeft
<1> QED BY <1>1, <1>2, <1>3, Invariant, WireInvariant, PTL DEF Spec

-------------------------------------------------------------------------------
(* The closing handshake without allocation failures and urgent closes *)

\* A close that is queued and not sent is in the queue.
CloseKept ==
  "QUEUED" \in close_state /\ "SENT" \notin close_state
    => \E i \in 1..Len(send) : send[i].is_close_frame

\* It stays there whatever is queued and sent before it.
LEMMA CloseIsKept ==
  ASSUME ~MallocMayFail, NoUrgentClose
  PROVE  IInv /\ WireInv /\ CloseKept /\ [Next]_vars => CloseKept'
<1> SUFFICES ASSUME IInv, WireInv, CloseKept, [Next]_vars PROVE CloseKept'
  OBVIOUS
<1>0. send \in Seq(Buf) /\ Len(send) \in Nat
  BY DEF IInv, TypeOK
<1>1. CASE Quiet
  BY <1>1 DEF Quiet, CloseKept
<1>2. ASSUME NEW opcode \in DataOpcodes \cup ControlOpcodes, NEW fin \in BOOLEAN,
             NEW n \in Nat, Submits(opcode, fin, n)
      PROVE  CloseKept'
  <2> DEFINE b == new_buf(opcode, fin, n)
  <2>1. b \in Buf /\ (b.is_close_frame <=> opcode = WS_OPCODE_CLOSE)
    BY NewBufTyped DEF new_buf, IInv
  <2>2. send' = enqueue(send, b) /\ ("QUEUED" \in close_state' <=> opcode = WS_OPCODE_CLOSE)
    BY <1>2 DEF Submits
  <2> HIDE DEF b
  <2>3. Len(send) + 1 \in 1..Len(send') /\ send'[Len(send) + 1] = b
    BY <1>0, <2>1, <2>2, Enqueued
  <2> QED BY <2>1, <2>2, <2>3 DEF CloseKept
<1>3. CASE fill_step
  <2> SUFFICES ASSUME "QUEUED" \in close_state', "SENT" \notin close_state'
               PROVE  \E i \in 1..Len(send') : send'[i].is_close_frame
    BY DEF CloseKept
  <2>1. PICK k \in Nat : Hands(k)
    BY <1>3, FillStepHands
  <2>2. /\ SentFrom(send', send, k)
        /\ ~(send[1].is_close_frame /\ send[1].sent + k = send[1].written)
        /\ close_state' = close_state
        /\ send # << >>
    BY <2>1 DEF Hands
  <2>3. PICK i \in 1..Len(send) : send[i].is_close_frame
    BY <2>2 DEF CloseKept
  <2>4. CASE /\ Len(send') = Len(send)
             /\ send'[1] = [send[1] EXCEPT !.sent = @ + k]
             /\ \A j \in 2..Len(send') : send'[j] = send[j]
    <3>1. send[1] \in Buf
      BY <1>0, <2>2
    <3>2. send'[1].is_close_frame = send[1].is_close_frame
      BY <2>4, <3>1, PartlySent
    <3>3. send'[i].is_close_frame = send[i].is_close_frame
      <4>1. CASE i = 1
        BY <3>2, <4>1
      <4>2. CASE i # 1
        <5>1. send'[i] = send[i]
          BY <1>0, <2>4, <4>2
        <5> QED BY <5>1
      <4> QED BY <4>1, <4>2
    <3> QED BY <2>3, <2>4, <3>3
  <2>5. CASE /\ ~send[1].is_close_frame
             /\ Len(send') = Len(send) - 1
             /\ \A j \in 1..Len(send') : send'[j] = send[j + 1]
    <3>1. i - 1 \in 1..Len(send')
      BY <1>0, <2>3, <2>5
    <3>2. send'[i - 1] = send[i]
      BY <2>5, <3>1
    <3> QED BY <2>3, <3>1, <3>2
  <2> QED BY <2>2, <2>4, <2>5 DEF SentFrom
<1> QED BY <1>1, <1>2, <1>3, KindsOfStep DEF SubmitsOne

-------------------------------------------------------------------------------
(* The theorems *)

\* What curl is handed are whole frames, one after the other and each once, whatever
\* the sizes of curl's buffers and of the frames, and at however many calls of the read
\* callback a frame is split.
THEOREM FramesAreWhole == Spec => []FramesWholeOnWire
<1>1. IInv /\ WireInv => FramesWholeOnWire
  <2> SUFFICES ASSUME IInv, WireInv PROVE FramesWholeOnWire
    OBVIOUS
  <2>1. wire \in Seq(Segment) /\ send \in Seq(Buf)
    BY DEF IInv, TypeOK
  <2>2. \A i \in 1..Len(wire) : wire[i].n = wire[i].written => wire[i].n <= wire[i].written
    <3> TAKE i \in 1..Len(wire)
    <3>1. wire[i] \in Segment
      BY <2>1
    <3> QED BY <3>1 DEF Segment
  <2>3. ASSUME HeadStarted
        PROVE  wire[Len(wire)].n <= wire[Len(wire)].written
    <3>1. wire[Len(wire)].n = send[1].sent /\ wire[Len(wire)].written = send[1].written
      BY <2>3 DEF WireInv, Continues, LastIs, SegmentOf
    <3>2. 1 \in 1..Len(send)
      BY <2>1, <2>3 DEF HeadStarted
    <3> QED BY <3>1, <3>2 DEF IInv, Queued
  <2>4. \A i \in 1..Len(wire) : wire[i].n <= wire[i].written
    BY <2>2, <2>3 DEF WireInv, WholeUntilHead
  <2>5. \A i \in 1..Len(wire) : i < Len(wire) => wire[i].n = wire[i].written
    BY <2>1 DEF WireInv, WholeUntilHead
  <2>6. \A i, j \in 1..Len(wire) : wire[i].id = wire[j].id => i = j
    BY DEF WireInv, Numbered
  <2> QED BY <2>4, <2>5, <2>6 DEF FramesWholeOnWire
<1> QED BY <1>1, Invariant, WireInvariant, PTL

\* Nothing is queued behind a close frame, no byte follows it, and after it the queue
\* stays empty.
THEOREM NothingFollowsClose == Spec => []NothingAfterClose
<1>1. WireInv => NothingAfterClose
  BY DEF WireInv, OneClose, NothingAfterClose
<1> QED BY <1>1, WireInvariant, PTL

\* When memory does not run out and no close is to be urgent, a close that is said to
\* be queued is in the queue until it is sent, and no second one is.  Both
\* hypotheses are needed: cws_close sets CLOSE_QUEUED whether or not there is a frame.
THEOREM CloseIsOwed ==
  ASSUME ~MallocMayFail, NoUrgentClose
  PROVE  Spec => []CloseFrameOwed
<1>1. Init => CloseKept
  BY DEF Init, CloseKept
<1>2. IInv /\ WireInv /\ CloseKept /\ [Next]_vars => CloseKept'
  BY CloseIsKept
<1>3. WireInv /\ CloseKept => CloseFrameOwed
  <2> SUFFICES ASSUME WireInv, CloseKept PROVE CloseFrameOwed
    OBVIOUS
  <2> DEFINE closes == {i \in 1..Len(send) : send[i].is_close_frame}
  <2>1. CASE {"QUEUED", "SENT"} \cap close_state = {"QUEUED"}
    <3>1. "QUEUED" \in close_state /\ "SENT" \notin close_state
      BY <2>1
    <3>2. PICK i \in 1..Len(send) : send[i].is_close_frame
      BY <3>1 DEF CloseKept
    <3>3. closes = {i}
      BY <3>2 DEF WireInv, OneClose
    <3> QED BY <2>1, <3>2, <3>3 DEF CloseFrameOwed
  <2>2. CASE {"QUEUED", "SENT"} \cap close_state # {"QUEUED"}
    <3>1. closes = {}
      BY <2>2 DEF WireInv, OneClose
    <3> QED BY <2>2, <3>1 DEF CloseFrameOwed
  <2> QED BY <2>1, <2>2
<1> QED BY <1>1, <1>2, <1>3, Invariant, WireInvariant, PTL DEF Spec

-------------------------------------------------------------------------------
(* The refinement of Outbound.  Submits is Submit, the first bytes of a frame  *)
(* are Emit, and all other steps stutter.                                      *)

\* A frame as module Outbound sees it.
Frame == [id : Nat, opcode : DataOpcodes \cup ControlOpcodes, fin : BOOLEAN,
          is_close : BOOLEAN, written : Nat]

\* A sequence of buffers or of segments as the frames that they are of.
Frames(q) == [i \in 1..Len(q) |-> OutFrame(q[i])]

\* The frames of a queue are a sequence of frames, one for each buffer.
LEMMA FramesOfBufs ==
  ASSUME NEW q \in Seq(Buf)
  PROVE  /\ Frames(q) \in Seq(Frame) /\ Len(Frames(q)) = Len(q) /\ Len(q) \in Nat
         /\ \A i \in 1..Len(q) : Frames(q)[i] = OutFrame(q[i]) /\ OutFrame(q[i]) \in Frame
<1>1. Len(q) \in Nat
  OBVIOUS
<1>2. \A i \in 1..Len(q) : OutFrame(q[i]) \in Frame
  <2> TAKE i \in 1..Len(q)
  <2>1. q[i] \in Buf
    OBVIOUS
  <2> QED BY <2>1 DEF OutFrame, Frame, Buf
<1>3. Frames(q) \in [1..Len(q) -> Frame]
  BY <1>2 DEF Frames
<1>4. Frames(q) \in Seq(Frame) /\ Len(Frames(q)) = Len(q)
  BY <1>1, <1>3, SeqDef, LenProperties
<1> QED BY <1>1, <1>2, <1>4 DEF Frames

\* Likewise the frames on the wire.
LEMMA FramesOfSegments ==
  ASSUME NEW w \in Seq(Segment)
  PROVE  /\ Frames(w) \in Seq(Frame) /\ Len(Frames(w)) = Len(w) /\ Len(w) \in Nat
         /\ \A i \in 1..Len(w) : Frames(w)[i] = OutFrame(w[i]) /\ OutFrame(w[i]) \in Frame
<1>1. Len(w) \in Nat
  OBVIOUS
<1>2. \A i \in 1..Len(w) : OutFrame(w[i]) \in Frame
  <2> TAKE i \in 1..Len(w)
  <2>1. w[i] \in Segment
    OBVIOUS
  <2> QED BY <2>1 DEF OutFrame, Frame, Segment
<1>3. Frames(w) \in [1..Len(w) -> Frame]
  BY <1>2 DEF Frames
<1>4. Frames(w) \in Seq(Frame) /\ Len(Frames(w)) = Len(w)
  BY <1>1, <1>3, SeqDef, LenProperties
<1> QED BY <1>1, <1>2, <1>4 DEF Frames

\* A sequence of frames with one more at the end.
LEMMA OneMoreLast ==
  ASSUME NEW s \in Seq(Frame), NEW t \in Seq(Frame), NEW f \in Frame,
         Len(t) = Len(s) + 1, t[Len(t)] = f, \A i \in 1..Len(s) : t[i] = s[i]
  PROVE  t = Append(s, f)
<1>1. Append(s, f) \in Seq(Frame) /\ Len(Append(s, f)) = Len(s) + 1
      /\ Append(s, f)[Len(s) + 1] = f /\ \A i \in 1..Len(s) : Append(s, f)[i] = s[i]
  BY AppendProperties
<1>2. Len(s) \in Nat
  OBVIOUS
<1>3. \A i \in 1..Len(t) : i = Len(s) + 1 \/ i \in 1..Len(s)
  BY <1>2
<1>4. \A i \in 1..Len(t) : t[i] = Append(s, f)[i]
  BY <1>1, <1>3
<1> QED BY <1>1, <1>4, SeqEqual

\* And without the first.
LEMMA OneLess ==
  ASSUME NEW s \in Seq(Frame), NEW t \in Seq(Frame),
         s # << >>, Len(t) = Len(s) - 1, \A i \in 1..Len(t) : t[i] = s[i + 1]
  PROVE  t = Tail(s)
<1>1. Tail(s) \in Seq(Frame) /\ Len(Tail(s)) = Len(s) - 1
      /\ \A i \in 1..Len(Tail(s)) : Tail(s)[i] = s[i + 1]
  OBVIOUS
<1> QED BY <1>1, SeqEqual

\* What has not started to leave, in the terms of the queue.
LEMMA Unstarted ==
  ASSUME send \in Seq(Buf)
  PROVE  /\ unsent \in Seq(Buf)
         /\ HeadStarted => Len(unsent) = Len(send) - 1
                           /\ \A i \in 1..Len(unsent) : unsent[i] = send[i + 1]
         /\ ~HeadStarted => unsent = send
<1>1. CASE HeadStarted
  <2>1. send # << >> /\ unsent = Tail(send)
    BY <1>1 DEF HeadStarted, unsent
  <2> QED BY <1>1, <2>1
<1>2. CASE ~HeadStarted
  BY <1>2 DEF HeadStarted, unsent
<1> QED BY <1>1, <1>2

\* A frame is a close for Outbound if its opcode is that of a close.
LEMMA OutFrameIsClose == \A x : OutFrame(x).is_close <=> x.opcode = WS_OPCODE_CLOSE
BY DEF OutFrame

\* The variables of Outbound do not change.
OutStutters == Frames(unsent)' = Frames(unsent) /\ Frames(wire)' = Frames(wire)

\* A step that queues nothing and hands nothing over.
LEMMA QuietStutters ==
  ASSUME Quiet
  PROVE  OutStutters
BY DEF Quiet, OutStutters, unsent

\* send_frame: the frame is the last of those that have not started to leave.
LEMMA SubmitAppends ==
  ASSUME IInv, NEW opcode \in DataOpcodes \cup ControlOpcodes, NEW fin \in BOOLEAN,
         NEW n \in Nat, Submits(opcode, fin, n), send' \in Seq(Buf)
  PROVE  LET f == OutFrame(new_buf(opcode, fin, n))
         IN  /\ f \in Frame /\ Frames(unsent) \in Seq(Frame)
             /\ Frames(unsent') = Append(Frames(unsent), f)
<1> DEFINE b == new_buf(opcode, fin, n)
           f == OutFrame(b)
<1>1. send \in Seq(Buf) /\ Len(send) \in Nat
  BY DEF IInv, TypeOK
<1>2. b \in Buf /\ b.sent = 0
  BY NewBufTyped DEF new_buf, IInv
<1>3. f \in Frame
  BY <1>2 DEF OutFrame, Frame, Buf
<1> HIDE DEF b
<1>4. /\ Len(send') = Len(send) + 1
      /\ send'[Len(send) + 1] = b
      /\ \A i \in 1..Len(send) : send'[i] = send[i]
  BY <1>1, <1>2, Enqueued DEF Submits, b
\* It is the last of those as well.
<1>5. /\ unsent \in Seq(Buf) /\ unsent' \in Seq(Buf) /\ Len(unsent) \in Nat
      /\ Len(unsent') = Len(unsent) + 1
      /\ unsent'[Len(unsent) + 1] = b
      /\ \A i \in 1..Len(unsent) : unsent'[i] = unsent[i]
  <2>1. unsent \in Seq(Buf) /\ Len(unsent) \in Nat
    BY <1>1, Unstarted
  <2>2. CASE HeadStarted
    <3>1. Len(unsent) = Len(send) - 1 /\ \A i \in 1..Len(unsent) : unsent[i] = send[i + 1]
      BY <1>1, <2>2, Unstarted
    <3>2. send' # << >> /\ 0 < send'[1].sent
      <4>1. send # << >> /\ 0 < send[1].sent /\ 1 \in 1..Len(send)
        BY <1>1, <2>2 DEF HeadStarted
      <4> QED BY <1>1, <1>4, <4>1
    <3>3. unsent' = Tail(send')
      BY <3>2 DEF unsent
    <3>4. Tail(send') \in Seq(Buf) /\ Len(Tail(send')) = Len(send') - 1
          /\ \A i \in 1..Len(send') - 1 : Tail(send')[i] = send'[i + 1]
      BY <3>2
    <3>5. Len(unsent') = Len(unsent) + 1
          /\ \A i \in 1..Len(unsent) + 1 : unsent'[i] = send'[i + 1]
      <4>1. Len(send') - 1 = Len(unsent) + 1
        BY <1>1, <1>4, <3>1
      <4> QED BY <3>3, <3>4, <4>1
    <3>6. unsent'[Len(unsent) + 1] = b
      BY <1>1, <1>4, <2>1, <3>1, <3>5
    <3>7. ASSUME NEW i \in 1..Len(unsent) PROVE unsent'[i] = unsent[i]
      <4>1. i \in 1..Len(unsent) + 1 /\ i + 1 \in 1..Len(send)
        BY <1>1, <2>1, <3>1
      <4>2. unsent'[i] = send'[i + 1] /\ unsent[i] = send[i + 1] /\ send'[i + 1] = send[i + 1]
        BY <1>4, <3>1, <3>5, <4>1
      <4> QED BY <4>2
    <3> QED BY <2>1, <3>3, <3>4, <3>5, <3>6, <3>7
  <2>3. CASE ~HeadStarted
    <3>1. unsent = send
      BY <1>1, <2>3, Unstarted
    <3>2. ~(0 < send'[1].sent)
      <4>1. CASE send = << >>
        BY <1>2, <1>4, <4>1
      <4>2. CASE send # << >>
        <5>1. send'[1] = send[1]
          BY <1>1, <1>4, <4>2
        <5> QED BY <2>3, <4>2, <5>1 DEF HeadStarted
      <4> QED BY <4>1, <4>2
    <3>3. unsent' = send'
      BY <3>2 DEF unsent
    <3> QED BY <1>1, <1>4, <3>1, <3>3
  <2> QED BY <2>2, <2>3
<1> DEFINE P == Frames(unsent)
           Q == Frames(unsent')
<1>6. /\ P \in Seq(Frame) /\ Len(P) = Len(unsent)
      /\ \A i \in 1..Len(unsent) : P[i] = OutFrame(unsent[i])
  BY <1>5, FramesOfBufs
<1>7. /\ Q \in Seq(Frame) /\ Len(Q) = Len(unsent) + 1
      /\ \A i \in 1..Len(unsent) + 1 : Q[i] = OutFrame(unsent'[i])
  BY <1>5, FramesOfBufs
<1> HIDE DEF P, Q, f
<1>8. Q = Append(P, f)
  <2>1. Q[Len(Q)] = f
    BY <1>5, <1>7 DEF f
  <2>2. \A i \in 1..Len(P) : Q[i] = P[i]
    BY <1>5, <1>6, <1>7
  <2> QED BY <1>3, <1>6, <1>7, <2>1, <2>2, OneMoreLast
<1> QED BY <1>3, <1>6, <1>8 DEF P, Q, f, b

\* It is Submit.
LEMMA SubmitMaps ==
  ASSUME IInv, WireInv, NEW opcode \in DataOpcodes \cup ControlOpcodes, NEW fin \in BOOLEAN,
         NEW n \in Nat, Submits(opcode, fin, n), send' \in Seq(Buf)
  PROVE  Out!SubmitSome
<1> DEFINE f == OutFrame(new_buf(opcode, fin, n))
           P == Frames(unsent)
           Q == Frames(unsent')
<1>1. send \in Seq(Buf) /\ wire \in Seq(Segment) /\ Len(send) \in Nat
      /\ unsent \in Seq(Buf)
  BY Unstarted DEF IInv, TypeOK
<1>2. wire' = wire /\ "QUEUED" \notin close_state
  BY DEF Submits
<1>3. f \in Frame /\ P \in Seq(Frame) /\ Q = Append(P, f)
  BY SubmitAppends
<1>4. Len(P) = Len(unsent) /\ \A i \in 1..Len(unsent) : P[i] = OutFrame(unsent[i])
  BY <1>1, FramesOfBufs
<1> HIDE DEF P, Q, f
\* No close has been submitted before.
<1>5. ~Out!Closing
  <2>1. \A i \in 1..Len(P) : ~P[i].is_close
    <3>1. \A i \in 1..Len(send) : send[i].opcode # WS_OPCODE_CLOSE
      BY <1>2 DEF WireInv, OneClose
    <3>2. \A i \in 1..Len(unsent) : unsent[i].opcode # WS_OPCODE_CLOSE
      <4>1. CASE HeadStarted
        <5>1. Len(unsent) = Len(send) - 1 /\ \A i \in 1..Len(unsent) : unsent[i] = send[i + 1]
          BY <1>1, <4>1, Unstarted
        <5>2. \A i \in 1..Len(unsent) : i + 1 \in 1..Len(send)
          BY <1>1, <5>1
        <5> QED BY <3>1, <5>1, <5>2
      <4>2. CASE ~HeadStarted
        BY <1>1, <3>1, <4>2, Unstarted
      <4> QED BY <4>1, <4>2
    <3> QED BY <1>4, <3>2, OutFrameIsClose
  <2>2. \A i \in 1..Len(wire) : wire[i].opcode # WS_OPCODE_CLOSE
    BY <1>2 DEF WireInv, OneClose
  <2>3. \A i \in 1..Len(Frames(wire)) : ~Frames(wire)[i].is_close
    BY <1>1, <2>2, FramesOfSegments, OutFrameIsClose
  <2> QED BY <2>1, <2>3 DEF Out!Closing, Out!CloseIn, P, Frames
<1>6. Q # << >> /\ Q[Len(Q)] = f
  <2>1. Len(Append(P, f)) = Len(P) + 1 /\ Append(P, f)[Len(P) + 1] = f /\ Len(P) \in Nat
    BY <1>3, AppendProperties
  <2> QED BY <1>3, <2>1
<1>7. Out!Submit(f)
  BY <1>2, <1>3, <1>5 DEF Out!Submit, P, Q, Frames
<1> QED BY <1>3, <1>6, <1>7 DEF Out!SubmitSome, Q, Frames, Frame

\* The copy loop: what starts to leave is emitted.  That the end of a close discards
\* the rest of the queue takes nothing away, for nothing is behind a close.
LEMMA HandingMaps ==
  ASSUME IInv, WireInv, NEW k \in Nat, Hands(k), IInv', WireInv'
  PROVE  OutStutters \/ Out!Emit
<1> DEFINE h == send[1]
           f == OutFrame(h)
           P == Frames(unsent)
           Q == Frames(unsent')
           E == Frames(wire)
           F == Frames(wire')
<1>1. send \in Seq(Buf) /\ wire \in Seq(Segment) /\ Len(send) \in Nat /\ Len(wire) \in Nat
      /\ send' \in Seq(Buf) /\ wire' \in Seq(Segment)
  BY DEF IInv, TypeOK
<1>2. send # << >> /\ 1 \in 1..Len(send) /\ h \in Buf
  <2>1. send # << >>
    BY DEF Hands
  <2> QED BY <1>1, <2>1
<1>3. unsent \in Seq(Buf) /\ unsent' \in Seq(Buf)
  <2>1. send' = << >> \/ Tail(send') \in Seq(Buf)
    BY <1>1
  <2>2. unsent' \in Seq(Buf)
    BY <1>1, <2>1 DEF unsent
  <2> QED BY <1>1, <2>2, Unstarted
<1>4. /\ P \in Seq(Frame) /\ Len(P) = Len(unsent)
      /\ \A i \in 1..Len(unsent) : P[i] = OutFrame(unsent[i])
  BY <1>3, FramesOfBufs
<1>5. /\ Q \in Seq(Frame) /\ Len(Q) = Len(unsent')
      /\ \A i \in 1..Len(unsent') : Q[i] = OutFrame(unsent'[i])
  BY <1>3, FramesOfBufs
<1>6. /\ E \in Seq(Frame) /\ Len(E) = Len(wire)
      /\ \A i \in 1..Len(wire) : E[i] = OutFrame(wire[i])
  BY <1>1, FramesOfSegments
<1>7. /\ F \in Seq(Frame) /\ Len(F) = Len(wire')
      /\ \A i \in 1..Len(wire') : F[i] = OutFrame(wire'[i])
  BY <1>1, FramesOfSegments
<1>8. f \in Frame
  BY <1>2 DEF OutFrame, Frame, Buf
<1>9. \A n \in Nat : OutFrame(SegmentOf(h, n)) = f
  BY DEF OutFrame, SegmentOf
<1> HIDE DEF P, Q, E, F, f
\* The frames on the wire: those that were, and the head.
<1>10. IF HeadStarted THEN F = E ELSE F = Append(E, f)
  <2>1. CASE HeadStarted
    <3>1. Len(wire') = Len(wire) /\ wire'[Len(wire)] = SegmentOf(h, h.sent + k)
          /\ \A i \in 1..Len(wire) - 1 : wire'[i] = wire[i]
      BY <2>1 DEF Hands
    <3>2. wire[Len(wire)] = SegmentOf(h, h.sent)
      BY <2>1 DEF WireInv, Continues, LastIs
    <3>3. h.sent \in Nat /\ h.sent + k \in Nat
      BY <1>2 DEF Buf
    <3>4. OutFrame(wire'[Len(wire)]) = OutFrame(wire[Len(wire)])
      BY <1>9, <3>1, <3>2, <3>3
    <3>5. \A i \in 1..Len(wire) : i = Len(wire) \/ i \in 1..Len(wire) - 1
      BY <1>1
    <3>6. \A i \in 1..Len(E) : E[i] = F[i]
      BY <1>6, <1>7, <3>1, <3>4, <3>5
    <3>7. E = F
      BY <1>6, <1>7, <3>1, <3>6, SeqEqual
    <3> QED BY <2>1, <3>7
  <2>2. CASE ~HeadStarted
    <3>1. Len(wire') = Len(wire) + 1 /\ wire'[Len(wire) + 1] = SegmentOf(h, h.sent + k)
          /\ \A i \in 1..Len(wire) : wire'[i] = wire[i]
      BY <1>1, <2>2 DEF Hands
    <3>2. h.sent + k \in Nat
      BY <1>2 DEF Buf
    <3>3. F[Len(F)] = f
      BY <1>1, <1>7, <1>9, <3>1, <3>2
    <3>4. \A i \in 1..Len(E) : F[i] = E[i]
      BY <1>1, <1>6, <1>7, <3>1
    <3>5. F = Append(E, f)
      BY <1>6, <1>7, <1>8, <3>1, <3>3, <3>4, OneMoreLast
    <3> QED BY <2>2, <3>5
  <2> QED BY <2>1, <2>2
\* The frames that have not started to leave.
<1>11. SentFrom(send', send, k)
  BY DEF Hands
<1>12. Len(unsent') = Len(send) - 1
       /\ \A i \in 1..Len(send) - 1 : unsent'[i] = send[i + 1]
  <2>1. CASE h.sent + k # h.written
    <3>1. /\ Len(send') = Len(send)
          /\ send'[1] = [h EXCEPT !.sent = @ + k]
          /\ \A i \in 2..Len(send') : send'[i] = send[i]
      BY <1>11, <2>1 DEF SentFrom
    <3>2. send' # << >>
      BY <1>2, <3>1
    <3>3. send'[1].sent = h.sent + k /\ 0 < h.sent + k
      BY <1>2, <3>1, PartlySent DEF Hands, Buf
    <3>4. unsent' = Tail(send')
      BY <3>2, <3>3 DEF unsent
    <3>5. Len(Tail(send')) = Len(send') - 1
          /\ \A i \in 1..Len(send') - 1 : Tail(send')[i] = send'[i + 1]
      BY <1>1, <3>2
    <3>6. \A i \in 1..Len(send) - 1 : i + 1 \in 2..Len(send')
      BY <1>1, <3>1
    <3> QED BY <3>1, <3>4, <3>5, <3>6
  <2>2. CASE h.sent + k = h.written
    <3>1. /\ Len(send') = Len(send) - 1
          /\ \A i \in 1..Len(send') : send'[i] = send[i + 1]
      <4>1. CASE h.is_close_frame
        <5>1. send' = << >> /\ 1 = Len(send)
          BY <1>2, <1>11, <2>2, <4>1 DEF SentFrom, WireInv, OneClose
        <5> QED BY <5>1
      <4>2. CASE ~h.is_close_frame
        BY <1>11, <2>2, <4>2 DEF SentFrom
      <4> QED BY <4>1, <4>2
    <3>2. unsent' = send'
      <4>1. CASE send' = << >>
        BY <4>1 DEF unsent
      <4>2. CASE send' # << >>
        <5>1. 1 \in 1..Len(send') /\ 2 \in 1..Len(send)
          BY <1>1, <3>1, <4>2
        <5>2. send'[1] = send[2] /\ send[2].sent = 0
          BY <3>1, <5>1 DEF IInv, Queued
        <5> QED BY <5>2 DEF unsent
      <4> QED BY <4>1, <4>2
    <3> QED BY <3>1, <3>2
  <2> QED BY <2>1, <2>2
<1>13. CASE HeadStarted
  <2>1. Len(unsent) = Len(send) - 1 /\ \A i \in 1..Len(unsent) : unsent[i] = send[i + 1]
    BY <1>1, <1>13, Unstarted
  <2>2. Q = P
    BY <1>4, <1>5, <1>12, <2>1, SeqEqual
  <2> QED BY <1>10, <1>13, <2>2 DEF OutStutters, P, Q, E, F, Frames
<1>14. CASE ~HeadStarted
  <2>1. unsent = send
    BY <1>1, <1>14, Unstarted
  <2>2. Len(P) = Len(send) /\ P[1] = f /\ P # << >>
    <3>1. Len(P) = Len(send) /\ P[1] = f
      BY <1>2, <1>4, <2>1 DEF f
    <3> QED BY <1>2, <3>1
  <2>3. Head(P) = f
    BY <1>4, <2>2
  <2>4. Q = Tail(P)
    <3>1. Len(Q) = Len(P) - 1 /\ \A i \in 1..Len(Q) : Q[i] = P[i + 1]
      BY <1>1, <1>4, <1>5, <1>12, <2>1, <2>2
    <3> QED BY <1>4, <1>5, <2>2, <3>1, OneLess
  <2> QED BY <1>10, <1>14, <2>2, <2>3, <2>4 DEF Out!Emit, E, F, P, Q, Frames
<1> QED BY <1>13, <1>14

\* The queue of buffers is what Outbound promises of it: every frame that is queued
\* leaves in its turn, once and in the order of queueing, and nothing is accepted behind
\* a close; also when the last bytes of a close empty the queue.
THEOREM QueueIsOutbound == Spec => ImplementsOutbound
<1>1. Init => Out!Init
  BY DEF Init, Out!Init, unsent
<1>2. IInv /\ WireInv /\ IInv' /\ WireInv' /\ [Next]_vars => Out!Next \/ OutStutters
  <2> SUFFICES ASSUME IInv, WireInv, IInv', WireInv', [Next]_vars
               PROVE  Out!Next \/ OutStutters
    OBVIOUS
  <2>1. send' \in Seq(Buf)
    BY DEF IInv, TypeOK
  <2>2. CASE Quiet
    BY <2>2, QuietStutters
  <2>3. CASE SubmitsOne
    BY <2>1, <2>3, SubmitMaps DEF SubmitsOne, Out!Next
  <2>4. CASE fill_step
    BY <2>4, FillStepHands, HandingMaps DEF Out!Next
  <2> QED BY <2>2, <2>3, <2>4, KindsOfStep
<1>3. OutStutters =>
        UNCHANGED <<[i \in 1..Len(unsent) |-> OutFrame(unsent[i])],
                    [i \in 1..Len(wire) |-> OutFrame(wire[i])]>>
  BY DEF OutStutters, Frames
<1> QED BY <1>1, <1>2, <1>3, Invariant, WireInvariant, PTL DEF Spec, ImplementsOutbound, Out!Spec

-------------------------------------------------------------------------------
(* The messages.  A frame that is queued goes to the end of the frames that    *)
(* left or are to leave.  So the frames on the wire and in the queue, one      *)
(* after the other, are what the messages are read from.                       *)

\* The frames that have started to leave, and then those that have not.
Line == Frames(wire) \o Frames(unsent)

\* The invariant: the line forms messages, and as long as frames are accepted the
\* info of the last data frame says whether it ends with an open one.
MessagesInv ==
  /\ IsDataGrammar(Line)
  /\ "QUEUED" \notin close_state =>
       (OpenBefore(Line, Len(Line) + 1) <=> stream_open(last_sent_data_frame_info))

\* Whether a message is open depends on the frames before only.
LEMMA OpenByPrefix ==
  ASSUME NEW s \in Seq(Frame), NEW t \in Seq(Frame), NEW n \in Nat,
         \A i \in 1..n : t[i] = s[i], NEW i \in 1..n + 1
  PROVE  OpenBefore(t, i) <=> OpenBefore(s, i)
<1>1. \A j \in 1..i - 1 : j \in 1..n /\ t[j] = s[j]
  OBVIOUS
<1>2. \A j \in 1..i - 1 : \A k \in j + 1..i - 1 : k \in 1..i - 1
  OBVIOUS
<1> QED BY <1>1, <1>2 DEF OpenBefore

\* The first frames of messages form messages.
LEMMA GrammarOfPrefix ==
  ASSUME NEW s \in Seq(Frame), NEW t \in Seq(Frame), IsDataGrammar(s),
         Len(t) <= Len(s), \A i \in 1..Len(t) : t[i] = s[i]
  PROVE  IsDataGrammar(t)
<1> SUFFICES ASSUME NEW i \in 1..Len(t), t[i].opcode \in DataOpcodes
             PROVE  t[i].opcode = WS_OPCODE_CONTINUATION <=> OpenBefore(t, i)
  BY DEF IsDataGrammar
<1>1. Len(t) \in Nat /\ i \in 1..Len(s) /\ i \in 1..Len(t) + 1 /\ t[i] = s[i]
  OBVIOUS
<1>2. OpenBefore(t, i) <=> OpenBefore(s, i)
  BY <1>1, OpenByPrefix
<1> QED BY <1>1, <1>2 DEF IsDataGrammar

\* A data frame leaves a message open if it is not the last of it.
LEMMA OpenAfterData ==
  ASSUME NEW t \in Seq(Frame), NEW n \in Nat, t[n + 1].opcode \in DataOpcodes
  PROVE  OpenBefore(t, n + 2) <=> ~t[n + 1].fin
<1>1. ASSUME ~t[n + 1].fin PROVE OpenBefore(t, n + 2)
  <2>1. n + 1 \in 1..(n + 2) - 1 /\ \A k \in (n + 1) + 1..(n + 2) - 1 : FALSE
    OBVIOUS
  <2> QED BY <1>1, <2>1 DEF OpenBefore
<1>2. ASSUME OpenBefore(t, n + 2) PROVE ~t[n + 1].fin
  <2>1. PICK j \in 1..(n + 2) - 1 :
          /\ ~t[j].fin
          /\ \A k \in j + 1..(n + 2) - 1 : t[k].opcode \notin DataOpcodes
    BY <1>2 DEF OpenBefore
  <2>2. j # n + 1 => n + 1 \in j + 1..(n + 2) - 1
    OBVIOUS
  <2> QED BY <2>1, <2>2
<1> QED BY <1>1, <1>2

\* Any other frame leaves it as it is.
LEMMA OpenAfterControl ==
  ASSUME NEW t \in Seq(Frame), NEW n \in Nat, t[n + 1].opcode \notin DataOpcodes
  PROVE  OpenBefore(t, n + 2) <=> OpenBefore(t, n + 1)
<1>1. \A j \in 1..(n + 2) - 1 : j = n + 1 \/ j \in 1..(n + 1) - 1
  OBVIOUS
<1>2. ASSUME OpenBefore(t, n + 2) PROVE OpenBefore(t, n + 1)
  <2>1. PICK j \in 1..(n + 2) - 1 :
          /\ t[j].opcode \in DataOpcodes
          /\ ~t[j].fin
          /\ \A k \in j + 1..(n + 2) - 1 : t[k].opcode \notin DataOpcodes
    BY <1>2 DEF OpenBefore
  <2>2. j \in 1..(n + 1) - 1 /\ \A k \in j + 1..(n + 1) - 1 : k \in j + 1..(n + 2) - 1
    BY <1>1, <2>1
  <2> QED BY <2>1, <2>2 DEF OpenBefore
<1>3. ASSUME OpenBefore(t, n + 1) PROVE OpenBefore(t, n + 2)
  <2>1. PICK j \in 1..(n + 1) - 1 :
          /\ t[j].opcode \in DataOpcodes
          /\ ~t[j].fin
          /\ \A k \in j + 1..(n + 1) - 1 : t[k].opcode \notin DataOpcodes
    BY <1>3 DEF OpenBefore
  <2>2. j \in 1..(n + 2) - 1
        /\ \A k \in j + 1..(n + 2) - 1 : k = n + 1 \/ k \in j + 1..(n + 1) - 1
    OBVIOUS
  <2> QED BY <2>1, <2>2 DEF OpenBefore
<1> QED BY <1>2, <1>3

\* A frame joins the messages: a data frame that fits, or any other.
LEMMA GrammarAppended ==
  ASSUME NEW s \in Seq(Frame), NEW f \in Frame, IsDataGrammar(s),
         f.opcode \in DataOpcodes =>
           (f.opcode = WS_OPCODE_CONTINUATION <=> OpenBefore(s, Len(s) + 1))
  PROVE  LET t == Append(s, f)
         IN  /\ IsDataGrammar(t)
             /\ OpenBefore(t, Len(t) + 1)
                  <=> IF f.opcode \in DataOpcodes THEN ~f.fin ELSE OpenBefore(s, Len(s) + 1)
<1> DEFINE t == Append(s, f)
           n == Len(s)
<1>1. t \in Seq(Frame) /\ Len(t) = n + 1 /\ n \in Nat /\ t[n + 1] = f
      /\ \A i \in 1..n : t[i] = s[i]
  BY AppendProperties
<1> HIDE DEF t, n
<1>2. \A i \in 1..n + 1 : OpenBefore(t, i) <=> OpenBefore(s, i)
  BY <1>1, OpenByPrefix
<1>3. IsDataGrammar(t)
  <2> SUFFICES ASSUME NEW i \in 1..Len(t), t[i].opcode \in DataOpcodes
               PROVE  t[i].opcode = WS_OPCODE_CONTINUATION <=> OpenBefore(t, i)
    BY DEF IsDataGrammar
  <2>1. CASE i = n + 1
    BY <1>1, <1>2, <2>1 DEF n
  <2>2. CASE i \in 1..n
    BY <1>1, <1>2, <2>2 DEF IsDataGrammar, n
  <2> QED BY <1>1, <2>1, <2>2
<1>4. CASE f.opcode \in DataOpcodes
  <2>1. OpenBefore(t, n + 2) <=> ~f.fin
    BY <1>1, <1>4, OpenAfterData
  <2>2. Len(t) + 1 = n + 2
    BY <1>1
  <2> QED BY <1>3, <1>4, <2>1, <2>2 DEF t
<1>5. CASE f.opcode \notin DataOpcodes
  <2>1. OpenBefore(t, n + 2) <=> OpenBefore(t, n + 1)
    BY <1>1, <1>5, OpenAfterControl
  <2>2. OpenBefore(t, n + 1) <=> OpenBefore(s, n + 1)
    BY <1>1, <1>2
  <2>3. Len(t) + 1 = n + 2
    BY <1>1
  <2> QED BY <1>3, <1>5, <2>1, <2>2, <2>3 DEF t, n
<1> QED BY <1>4, <1>5

\* The line, place by place.
LEMMA LineOf ==
  ASSUME send \in Seq(Buf), wire \in Seq(Segment)
  PROVE  /\ Frames(wire) \in Seq(Frame) /\ Frames(unsent) \in Seq(Frame)
         /\ Len(Frames(wire)) = Len(wire) /\ Len(wire) \in Nat
         /\ Line \in Seq(Frame)
BY Unstarted, FramesOfSegments, FramesOfBufs, ConcatProperties DEF Line

\* The elements of a concatenation.
LEMMA ConcatElements ==
  ASSUME NEW S, NEW s \in Seq(S), NEW t \in Seq(S)
  PROVE  /\ s \o t \in Seq(S) /\ Len(s \o t) = Len(s) + Len(t)
         /\ \A i \in 1..Len(s) : (s \o t)[i] = s[i]
         /\ \A i \in Len(s) + 1..Len(s) + Len(t) : (s \o t)[i] = t[i - Len(s)]
OBVIOUS

\* It has a frame for each segment and each buffer that has not started to leave.
LEMMA LineOfBoth ==
  ASSUME IInv
  PROVE  /\ Line \in Seq(Frame) /\ Len(Line) \in Nat /\ Len(wire \o unsent) = Len(Line)
         /\ \A i \in 1..Len(Line) : Line[i] = OutFrame((wire \o unsent)[i])
<1>1. send \in Seq(Buf) /\ wire \in Seq(Segment) /\ unsent \in Seq(Buf)
  BY Unstarted DEF IInv, TypeOK
<1>2. /\ Frames(wire) \in Seq(Frame) /\ Len(Frames(wire)) = Len(wire) /\ Len(wire) \in Nat
      /\ \A i \in 1..Len(wire) : Frames(wire)[i] = OutFrame(wire[i])
  BY <1>1, FramesOfSegments
<1>3. /\ Frames(unsent) \in Seq(Frame) /\ Len(Frames(unsent)) = Len(unsent) /\ Len(unsent) \in Nat
      /\ \A i \in 1..Len(unsent) : Frames(unsent)[i] = OutFrame(unsent[i])
  BY <1>1, FramesOfBufs
<1>4. /\ Line \in Seq(Frame) /\ Len(Line) = Len(wire) + Len(unsent)
      /\ \A i \in 1..Len(wire) : Line[i] = Frames(wire)[i]
      /\ \A i \in Len(wire) + 1..Len(wire) + Len(unsent) : Line[i] = Frames(unsent)[i - Len(wire)]
  <2>1. Line = Frames(wire) \o Frames(unsent)
    BY DEF Line
  <2>2. PICK E \in Seq(Frame), P \in Seq(Frame) : E = Frames(wire) /\ P = Frames(unsent)
    BY <1>2, <1>3
  <2>3. Line = E \o P /\ Len(E) = Len(wire) /\ Len(P) = Len(unsent)
    BY <1>2, <1>3, <2>1, <2>2
  <2>4. /\ Line \in Seq(Frame) /\ Len(Line) = Len(E) + Len(P)
        /\ \A i \in 1..Len(E) : Line[i] = E[i]
        /\ \A i \in Len(E) + 1..Len(E) + Len(P) : Line[i] = P[i - Len(E)]
    BY <2>3, ConcatElements
  <2> QED BY <2>2, <2>3, <2>4, Zenon
<1>5. wire \in Seq(Segment \cup Buf) /\ unsent \in Seq(Segment \cup Buf)
  <2>1. Segment \subseteq Segment \cup Buf /\ Buf \subseteq Segment \cup Buf
    OBVIOUS
  <2> QED BY <1>1, <2>1, SeqMonotonic, Zenon
<1>6. /\ Len(wire \o unsent) = Len(wire) + Len(unsent)
      /\ \A i \in 1..Len(wire) : (wire \o unsent)[i] = wire[i]
      /\ \A i \in Len(wire) + 1..Len(wire) + Len(unsent) : (wire \o unsent)[i] = unsent[i - Len(wire)]
  BY <1>5, ConcatElements, Zenon
<1>7. ASSUME NEW i \in 1..Len(Line) PROVE Line[i] = OutFrame((wire \o unsent)[i])
  <2>1. CASE i \in 1..Len(wire)
    BY <1>2, <1>4, <1>6, <2>1
  <2>2. CASE i \notin 1..Len(wire)
    <3>1. /\ i \in Len(wire) + 1..Len(wire) + Len(unsent)
          /\ i - Len(wire) \in 1..Len(unsent)
      BY <1>2, <1>3, <1>4, <2>2
    <3> QED BY <1>3, <1>4, <1>6, <3>1
  <2> QED BY <2>1, <2>2
<1> QED BY <1>2, <1>3, <1>4, <1>6, <1>7

\* At first nothing is in it.
LEMMA LineInitially == Init => Line = << >>
<1> SUFFICES ASSUME Init PROVE Line = << >>
  OBVIOUS
<1>1. wire = << >> /\ unsent = << >> /\ wire \in Seq(Segment)
  BY DEF Init, unsent
<1>2. Frames(<< >>) \in Seq(Frame) /\ Len(Frames(<< >>)) = 0
  BY <1>1, FramesOfSegments
<1>3. Frames(<< >>) = << >>
  BY <1>2
<1> QED BY <1>1, <1>3, ConcatEmptySeq DEF Line

\* A frame that is queued joins the line at its end.
LEMMA SubmitExtendsLine ==
  ASSUME IInv, IInv', NEW opcode \in DataOpcodes \cup ControlOpcodes,
         NEW fin \in BOOLEAN, NEW n \in Nat, Submits(opcode, fin, n)
  PROVE  LET f == OutFrame(new_buf(opcode, fin, n))
         IN  Line \in Seq(Frame) /\ f \in Frame /\ Line' = Append(Line, f)
<1> DEFINE f == OutFrame(new_buf(opcode, fin, n))
           E == Frames(wire)
           P == Frames(unsent)
           Q == Frames(unsent')
<1>1. /\ E \in Seq(Frame) /\ P \in Seq(Frame) /\ E \o P \in Seq(Frame)
      /\ Line = E \o P /\ Line' = E \o Q
  BY LineOf DEF IInv, TypeOK, Submits, Line
<1>2. f \in Frame /\ Q = Append(P, f)
  <2>1. send' \in Seq(Buf)
    BY DEF IInv, TypeOK
  <2> QED BY <2>1, SubmitAppends
<1> HIDE DEF f, E, P, Q
<1>3. E \o Append(P, f) = Append(E \o P, f)
  <2>1. <<f>> \in Seq(Frame)
    BY <1>2
  <2>2. E \o (P \o <<f>>) = (E \o P) \o <<f>>
    BY <1>1, <2>1, ConcatAssociative
  <2>3. Append(P, f) = P \o <<f>> /\ Append(E \o P, f) = (E \o P) \o <<f>>
    BY <1>1, <1>2, AppendIsConcat
  <2> QED BY <2>2, <2>3
<1> QED BY <1>1, <1>2, <1>3 DEF f

\* A step that queues a frame keeps the messages.
LEMMA SubmitKeepsMessages ==
  ASSUME IInv, MessagesInv, IInv',
         NEW opcode \in DataOpcodes \cup ControlOpcodes, NEW fin \in BOOLEAN,
         NEW n \in Nat, Submits(opcode, fin, n)
  PROVE  MessagesInv'
<1> DEFINE f == OutFrame(new_buf(opcode, fin, n))
<1>1. f.opcode = opcode /\ f.fin = fin
  BY DEF OutFrame, new_buf
<1>2. Line \in Seq(Frame) /\ f \in Frame /\ Line' = Append(Line, f)
  BY SubmitExtendsLine, Zenon
<1>3. "QUEUED" \notin close_state /\ ContinuesMessage(opcode, fin)
  BY DEF Submits
<1> HIDE DEF f
<1>4. PICK L, M : L = Line /\ M = Line'
  OBVIOUS
<1>5. IsDataGrammar(L) /\ (OpenBefore(L, Len(L) + 1) <=> stream_open(last_sent_data_frame_info))
  BY <1>3, <1>4 DEF MessagesInv
<1>6. f.opcode \in DataOpcodes =>
        (f.opcode = WS_OPCODE_CONTINUATION <=> OpenBefore(L, Len(L) + 1))
  BY <1>1, <1>3, <1>5 DEF ContinuesMessage
<1>7. /\ IsDataGrammar(M)
      /\ OpenBefore(M, Len(M) + 1)
           <=> IF f.opcode \in DataOpcodes THEN ~f.fin ELSE OpenBefore(L, Len(L) + 1)
  BY <1>2, <1>4, <1>5, <1>6, GrammarAppended
<1>8. OpenBefore(M, Len(M) + 1) <=> stream_open(last_sent_data_frame_info')
  BY <1>1, <1>3, <1>5, <1>7 DEF ContinuesMessage
<1> QED BY <1>4, <1>7, <1>8 DEF MessagesInv

\* A step that hands bytes over keeps the line: what starts to leave moves from the
\* queue to the wire.
LEMMA HandingKeepsLine ==
  ASSUME IInv, WireInv, IInv', WireInv', fill_step
  PROVE  Line \in Seq(Frame) /\ Line' = Line
<1> DEFINE E == Frames(wire)
           P == Frames(unsent)
           F == Frames(wire')
           Q == Frames(unsent')
<1>1. /\ E \in Seq(Frame) /\ P \in Seq(Frame) /\ E \o P \in Seq(Frame)
      /\ Line = E \o P /\ Line' = F \o Q
  BY LineOf DEF IInv, TypeOK, Line
<1>2. OutStutters \/ Out!Emit
  BY FillStepHands, HandingMaps
<1>3. CASE OutStutters
  BY <1>1, <1>3 DEF OutStutters, Line
<1>4. CASE Out!Emit
  <2>1. P # << >> /\ F = Append(E, Head(P)) /\ Q = Tail(P)
    BY <1>4 DEF Out!Emit, Frames
  <2>2. F \o Q = E \o P
    <3>1. Head(P) \in Frame /\ Tail(P) \in Seq(Frame) /\ P = <<Head(P)>> \o Tail(P)
      BY <1>1, <2>1
    <3>2. F = E \o <<Head(P)>>
      BY <1>1, <2>1, <3>1, AppendIsConcat
    <3>3. (E \o <<Head(P)>>) \o Tail(P) = E \o (<<Head(P)>> \o Tail(P))
      BY <1>1, <3>1, ConcatAssociative
    <3> QED BY <2>1, <3>1, <3>2, <3>3
  <2> QED BY <1>1, <2>2
<1> QED BY <1>2, <1>3, <1>4

\* What the pong with n bytes of payload looks like.
IsPong(f, n) == f.opcode = WS_OPCODE_PONG /\ f.written = frame_encode(n, WS_CTL_FRAME_MAX)

\* A step that queues nothing leaves the line alone.
LEMMA QuietLine ==
  ASSUME IInv, Quiet
  PROVE  Line \in Seq(Frame) /\ Line' = Line
<1>1. Line \in Seq(Frame)
  BY LineOf DEF IInv, TypeOK
<1>2. send' = send /\ wire' = wire
  BY DEF Quiet
<1> QED BY <1>1, <1>2 DEF Line, unsent

\* A pong that is queued joins the line at its end.
LEMMA PongExtendsLine ==
  ASSUME IInv, IInv', NEW n \in Nat, SubmitsPong(n)
  PROVE  /\ Line \in Seq(Frame)
         /\ \E f \in Frame : IsPong(f, n) /\ Line' = Append(Line, f)
<1>1. /\ WS_OPCODE_PONG \in DataOpcodes \cup ControlOpcodes /\ WS_OPCODE_PONG \in ControlOpcodes
      /\ TRUE \in BOOLEAN
  BY DEF ControlOpcodes
<1>2. Submits(WS_OPCODE_PONG, TRUE, n)
  BY DEF SubmitsPong
<1>3. PICK f : f = OutFrame(new_buf(WS_OPCODE_PONG, TRUE, n))
  OBVIOUS
<1>4. Line \in Seq(Frame) /\ f \in Frame /\ Line' = Append(Line, f)
  BY <1>1, <1>2, <1>3, SubmitExtendsLine, Zenon
<1>5. IsPong(f, n)
  BY <1>1, <1>3 DEF IsPong, OutFrame, new_buf, buffer_size
<1> QED BY <1>4, <1>5

\* What a step but the answer to a ping does to the line: it leaves it alone, or appends
\* a frame, which is no pong but an empty one.
LEMMA LineSteps ==
  ASSUME IInv, WireInv, IInv', WireInv', OtherNext \/ UNCHANGED vars, CtlLens \subseteq {0}
  PROVE  /\ close_state \subseteq close_state'
         /\ Line \in Seq(Frame)
         /\ \/ Line' = Line
            \/ \E f \in Frame :
                 Line' = Append(Line, f) /\ (f.opcode = WS_OPCODE_PONG => IsPong(f, 0))
<1>1. CASE Quiet
  BY <1>1, QuietLine DEF Quiet
<1>2. CASE SubmitsOther
  <2>1. PICK opcode \in (DataOpcodes \cup ControlOpcodes) \ {WS_OPCODE_PONG}, fin \in BOOLEAN,
             n \in Nat : Submits(opcode, fin, n)
    BY <1>2 DEF SubmitsOther
  <2>2. close_state \subseteq close_state'
    BY <2>1 DEF Submits
  <2>3. opcode \in DataOpcodes \cup ControlOpcodes /\ opcode # WS_OPCODE_PONG
    OBVIOUS
  <2>4. PICK f : f = OutFrame(new_buf(opcode, fin, n))
    OBVIOUS
  <2>5. Line \in Seq(Frame) /\ f \in Frame /\ Line' = Append(Line, f)
    BY <2>1, <2>3, <2>4, SubmitExtendsLine, Zenon
  <2>6. f.opcode # WS_OPCODE_PONG
    BY <2>3, <2>4 DEF OutFrame, new_buf
  <2> QED BY <2>2, <2>5, <2>6
<1>3. CASE \E n \in CtlLens : SubmitsPong(n)
  <2>1. 0 \in Nat /\ SubmitsPong(0)
    BY <1>3
  <2>2. close_state \subseteq close_state'
    BY <2>1 DEF SubmitsPong, Submits
  <2> QED BY <2>1, <2>2, PongExtendsLine
<1>4. CASE fill_step
  BY <1>4, HandingKeepsLine DEF fill_step
<1> QED BY <1>1, <1>2, <1>3, <1>4, KindsOfOthers

\* A ping is answered at the end of the line, unless a close is queued.
LEMMA AnswerExtendsLine ==
  ASSUME IInv, WireInv, IInv', ~MallocMayFail, NEW n \in Nat, n <= WS_CTL_PAYLOAD_MAX,
         cws_pong(n)
  PROVE  /\ close_state \subseteq close_state'
         /\ Line \in Seq(Frame)
         /\ \/ "QUEUED" \in close_state /\ Line' = Line
            \/ /\ "QUEUED" \notin close_state
               /\ \E f \in Frame : IsPong(f, n) /\ Line' = Append(Line, f)
<1>1. CASE "QUEUED" \in close_state
  <2>1. Quiet
    BY <1>1, PongKind DEF SubmitsPong, Submits
  <2> QED BY <1>1, <2>1, QuietLine DEF Quiet
<1>2. CASE "QUEUED" \notin close_state
  <2>1. SubmitsPong(n)
    BY <1>2, PongKind
  <2>2. close_state \subseteq close_state'
    BY <2>1 DEF SubmitsPong, Submits
  <2> QED BY <1>2, <2>1, <2>2, PongExtendsLine
<1> QED BY <1>1, <1>2

\* So handing bytes over keeps the messages.
LEMMA HandingKeepsMessages ==
  ASSUME IInv, WireInv, MessagesInv, IInv', WireInv', fill_step
  PROVE  MessagesInv'
<1>1. UNCHANGED last_sent_data_frame_info /\ close_state \subseteq close_state'
  BY DEF fill_step
<1> QED BY <1>1, HandingKeepsLine DEF MessagesInv

\* As long as no allocation fails the data frames that curl is handed form messages,
\* whatever blocks and stream pieces the application mixes, whatever control frames
\* come between and wherever a close cuts them off.
THEOREM FramesFormMessages ==
  ASSUME ~MallocMayFail
  PROVE  Spec => []DataFramesFormMessages
<1>1. Init => MessagesInv
  <2> SUFFICES ASSUME Init PROVE MessagesInv
    OBVIOUS
  <2>1. Line = << >> /\ last_sent_data_frame_info = {}
    BY LineInitially DEF Init
  <2> QED BY <2>1 DEF MessagesInv, IsDataGrammar, OpenBefore, stream_open
<1>2. IInv /\ WireInv /\ MessagesInv /\ IInv' /\ WireInv' /\ [Next]_vars => MessagesInv'
  <2> SUFFICES ASSUME IInv, WireInv, MessagesInv, IInv', WireInv', [Next]_vars
               PROVE  MessagesInv'
    OBVIOUS
  <2>1. CASE Quiet
    BY <2>1 DEF Quiet, MessagesInv, Line, unsent
  <2>2. CASE SubmitsOne
    BY <2>2, SubmitKeepsMessages DEF SubmitsOne
  <2>3. CASE fill_step
    BY <2>3, HandingKeepsMessages
  <2> QED BY <2>1, <2>2, <2>3, KindsOfStep
<1>3. IInv /\ MessagesInv => DataFramesFormMessages
  <2> SUFFICES ASSUME IInv, MessagesInv PROVE IsDataGrammar(wire)
    BY DEF DataFramesFormMessages
  <2> DEFINE E == Frames(wire)
             P == Frames(unsent)
  <2>1. /\ E \in Seq(Frame) /\ P \in Seq(Frame) /\ Len(E) = Len(wire) /\ Len(wire) \in Nat
        /\ Line = E \o P /\ E \o P \in Seq(Frame) /\ wire \in Seq(Segment)
    BY LineOf DEF IInv, TypeOK, Line
  <2>2. \A i \in 1..Len(wire) : E[i].opcode = wire[i].opcode /\ E[i].fin = wire[i].fin
    <3>1. \A i \in 1..Len(wire) : E[i] = OutFrame(wire[i])
      BY <2>1, FramesOfSegments
    <3>2. \A x : OutFrame(x).opcode = x.opcode /\ OutFrame(x).fin = x.fin
      BY DEF OutFrame
    <3> QED BY <3>1, <3>2
  <2> HIDE DEF E, P
  <2>3. Len(E) <= Len(E \o P) /\ \A i \in 1..Len(E) : E[i] = (E \o P)[i]
    BY <2>1
  <2>4. IsDataGrammar(E)
    BY <2>1, <2>3, GrammarOfPrefix DEF MessagesInv
  <2>5. \A i \in 1..Len(wire) : OpenBefore(E, i) <=> OpenBefore(wire, i)
    <3> TAKE i \in 1..Len(wire)
    <3>1. \A j \in 1..i - 1 : j \in 1..Len(wire)
      BY <2>1
    <3>2. \A j \in 1..i - 1 : \A k \in j + 1..i - 1 : k \in 1..i - 1
      OBVIOUS
    <3> QED BY <2>2, <3>1, <3>2 DEF OpenBefore
  <2> QED BY <2>1, <2>2, <2>4, <2>5 DEF IsDataGrammar
<1> QED BY <1>1, <1>2, <1>3, Invariant, WireInvariant, PTL DEF Spec
===============================================================================
