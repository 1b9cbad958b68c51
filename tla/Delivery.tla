------------------------------- MODULE Delivery -------------------------------
(***************************************************************************)
(* The receiver with the default handlers on top of it (receive.c, cb.c    *)
(* and handlers.c): the way of a message from the bytes that curl delivers *)
(* to on_text and on_binary.  A step of the receiver that calls            *)
(* on_fragment or on_ping is also the step of the handler.                 *)
(***************************************************************************)
EXTENDS Receive, Handlers

delivery_vars == <<vars, handler_vars>>

\* cb_on_fragment, if it is called.
fragment_handled ==
  /\ data_delivered
  /\ IF has_something THEN default_on_fragment(data_info, data_result.send)
                      ELSE UNCHANGED handler_vars

\* cb_on_ping and cb_on_pong.
control_frame_handled ==
  /\ control_dispatched
  /\ IF frame.opcode = WS_OPCODE_PING THEN default_on_ping(control_bytes)
                                      ELSE UNCHANGED handler_vars

\* The other steps call no handler.
unhandled ==
  /\ \/ header_rejected
     \/ header_incomplete
     \/ header_complete
     \/ header_out_of_order
     \/ control_incomplete
     \/ close_handled
     \/ text_rejected
  /\ UNCHANGED handler_vars

handled_frame == fragment_handled \/ control_frame_handled \/ unhandled

curl_delivers ==
  /\ \E n \in ChunkSizes[stream] : receive_cb(n) \/ receive_cb_ignored(n)
  /\ UNCHANGED handler_vars

DeliveryInit == Init /\ HandlersInit

DeliveryNext ==
  \/ curl_delivers
  \/ handled_frame
  \/ Terminated /\ UNCHANGED handler_vars

\* The loop of a callback that was called runs on.
DeliverySpec == DeliveryInit /\ [][DeliveryNext]_delivery_vars /\ WF_delivery_vars(handled_frame)

-------------------------------------------------------------------------------
(* Properties *)

\* What the handlers owe for the callbacks in items: the messages that are
\* complete and an answer to each ping, and the message that is open.
Owed(items) ==
  LET At[k \in 0..Len(items)] ==
        IF k = 0 THEN [type |-> "none", data |-> << >>, told |-> << >>]
        ELSE LET s == At[k - 1]
                 i == items[k]
             IN  CASE i.fn = "first"   -> [s EXCEPT !.type = i.what, !.data = << >>]
                   [] i.fn = "byte"    -> [s EXCEPT !.data = @ \o i.data]
                   [] i.fn = "last"    -> [s EXCEPT !.type = "none", !.data = << >>, !.told = Append(@,
                        Told(IF s.type = "BINARY" THEN "on_binary" ELSE "on_text", s.data))]
                   [] i.fn = "on_ping" -> [s EXCEPT !.told = Append(@, Told("cws_pong", i.data))]
                   [] OTHER            -> s
  IN  At[Len(items)]

\* on_text and on_binary get every message of the byte stream once, whole and in
\* order, and every ping is answered with its payload, however frames, control
\* frames and chunks cut the stream.
MessagesAreWhole == pc = "idle" => told = Owed(After(stream)[at].out).told

\* The buffer holds what has arrived of the open message, and there is no buffer
\* when no message is open.
BufferIsOpenMessage ==
  pc = "idle" /\ ~close_received =>
    LET s == Owed(After(stream)[at].out)
    IN  /\ stream_buffer_len = Len(s.data)
        /\ SubSeq(stream_buffer, 1, stream_buffer_len) = s.data
        /\ s.type = "none" => stream_buffer = << >>
===============================================================================
