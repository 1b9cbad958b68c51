--------------------------- MODULE ConnectionProofs ----------------------------
(***************************************************************************)
(* Theorems about Connection, for any server, any chunks and any           *)
(* application: nothing is sent to a server that redirects, the callbacks  *)
(* come in the order that module Conversation promises, pings are answered *)
(* once and in order, and the connection ends for curl only when both      *)
(* sides have closed.                                                      *)
(*                                                                         *)
(* The receiver and the sender inside the connection behave as the modules *)
(* Receive and SendQueue allow (ReceiverInvariant, SenderIsSendQueue), so  *)
(* that the theorems of ReceiveProofs and SendQueueWireProofs hold of      *)
(* them: buffers are never overrun, frames leave whole and in order, the   *)
(* close is the last, and a paused transfer is woken.                      *)
(***************************************************************************)
EXTENDS Connection, TLAPS

-------------------------------------------------------------------------------
(* Lemmas about module Header *)

\* The values of a header line.
LEMMA LineTypes ==
  ASSUME NEW line \in Lines
  PROVE  /\ line.name \in {"accept", "protocol", "connection", "upgrade", "ignored"}
         /\ line.name = "accept" => line.value \in {"expected", "other"}
         /\ line.name = "protocol" => line.value \in Protocols \cup {NULL}
BY DEF Lines

\* The types of header_state and of response.
HeaderState == [redirection : BOOLEAN, accepted : BOOLEAN, upgraded : BOOLEAN,
                connection_websocket : BOOLEAN, ws_protocols_received : Protocols \cup {NULL}]
Response    == [phase : Phases, status : Statuses, http11 : BOOLEAN, redirects : 0..MaxRedirects]

\* The start of _header_cb touches the redirection flag only.
LEMMA RedirectionUpdated ==
  ASSUME HeaderTypeOK, ~follow_redirects => ~header_state.redirection, NEW r \in Response
  PROVE  LET hs == redirection_updated(r)
         IN  /\ hs \in HeaderState
             /\ hs.redirection = Redirecting(r)
             /\ hs.accepted = header_state.accepted
             /\ hs.ws_protocols_received = header_state.ws_protocols_received
BY DEF HeaderTypeOK, redirection_updated, Redirecting, HeaderState, Response

\* A line that begins with HTTP/ leaves the redirection flag alone.
LEMMA NoFlags ==
  ASSUME NEW hs \in HeaderState
  PROVE  /\ no_flags(hs) \in HeaderState
         /\ no_flags(hs).redirection = hs.redirection
         /\ ~no_flags(hs).accepted
         /\ no_flags(hs).ws_protocols_received = NULL
BY DEF HeaderState, no_flags

\* What a header line changes.
LEMMA Checked ==
  ASSUME NEW hs \in HeaderState, NEW line \in Lines
  PROVE  /\ checked(hs, line) \in HeaderState
         /\ checked(hs, line).redirection = hs.redirection
         /\ checked(hs, line).accepted = IF line.name = "accept" THEN line.value = "expected"
                                                               ELSE hs.accepted
         /\ checked(hs, line).ws_protocols_received =
              IF line.name = "protocol" THEN line.value ELSE hs.ws_protocols_received
BY LineTypes DEF HeaderState, checked

-------------------------------------------------------------------------------
\* The flag that mutes the data callbacks is set all the time in which the current
\* response is a redirection, until curl follows it and the next one begins.
RedirectionKnown ==
  /\ HeaderTypeOK
  /\ ~follow_redirects => ~header_state.redirection
  /\ Redirecting(response) /\ response.phase # "ended" => header_state.redirection

\* The steps of this module.
HeaderStep ==
  \/ \E status \in Statuses, http11 \in BOOLEAN : header_cb_status(status, http11)
  \/ \E line \in Lines : header_cb_line(line)
  \/ header_cb_redirected
  \/ header_cb_upgraded
  \/ header_cb_not_accepted
  \/ curl_follows
  \/ curl_ends

\* It holds in the beginning.
LEMMA RedirectionKnownInit ==
  ASSUME follow_redirects \in BOOLEAN, ResponseInit
  PROVE  RedirectionKnown
BY HeaderAssumption DEF ResponseInit, RedirectionKnown, HeaderTypeOK, Redirecting, NothingSeen,
                        Phases, Statuses

\* The status line.
LEMMA StatusKnown ==
  ASSUME RedirectionKnown, NEW status \in Statuses, NEW http11 \in BOOLEAN,
         header_cb_status(status, http11)
  PROVE  RedirectionKnown'
<1> DEFINE r == [response EXCEPT !.status = status, !.http11 = http11]
<1>1. r \in Response /\ r.status = status
  BY DEF RedirectionKnown, HeaderTypeOK, Response
<1>2. redirection_updated(r) \in HeaderState
      /\ redirection_updated(r).redirection = Redirecting(r)
  BY <1>1, RedirectionUpdated DEF RedirectionKnown
<1>3. header_state' \in HeaderState /\ header_state'.redirection = Redirecting(r)
  BY <1>2, NoFlags DEF header_cb_status
<1>4. response' \in Response /\ response'.status = r.status
  BY <1>1 DEF header_cb_status, Response, Phases
<1>5. seen' = NothingSeen /\ follow_redirects' = follow_redirects
  BY DEF header_cb_status
<1>6. HeaderTypeOK'
  BY <1>3, <1>4, <1>5 DEF RedirectionKnown, HeaderTypeOK, HeaderState, Response, NothingSeen
<1> QED BY <1>3, <1>4, <1>5, <1>6 DEF RedirectionKnown, Redirecting

\* A line changes no more of the response than what was seen of it.
LEMMA LineKnown ==
  ASSUME RedirectionKnown, NEW line \in Lines, header_cb_line(line)
  PROVE  RedirectionKnown'
<1> DEFINE hs == redirection_updated(response)
<1>1. response \in Response
  BY DEF RedirectionKnown, HeaderTypeOK, Response
<1>2. hs \in HeaderState /\ hs.redirection = Redirecting(response)
  BY <1>1, RedirectionUpdated DEF RedirectionKnown
<1>3. line.name = "protocol" => [line EXCEPT !.value = NULL] \in Lines
  BY DEF Lines
<1> HIDE DEF hs
<1>4. header_state' \in HeaderState /\ header_state'.redirection = Redirecting(response)
  <2>1. \/ header_state' = hs
        \/ header_state' = checked(hs, line)
        \/ line.name = "protocol" /\ header_state' = checked(hs, [line EXCEPT !.value = NULL])
    BY DEF header_cb_line, hs
  <2> QED BY <2>1, <1>2, <1>3, Checked
<1>5. seen' \in [accept : {"none", "expected", "other"}, protocol : Protocols \cup {NULL}]
  BY LineTypes DEF header_cb_line, RedirectionKnown, HeaderTypeOK
<1>6. UNCHANGED <<follow_redirects, response>>
  BY DEF header_cb_line
<1>7. HeaderTypeOK'
  BY <1>4, <1>5, <1>6 DEF RedirectionKnown, HeaderTypeOK, HeaderState
<1> QED BY <1>4, <1>6, <1>7 DEF RedirectionKnown, Redirecting

\* The end of the headers.
LEMMA HeadersEndKnown ==
  ASSUME RedirectionKnown, header_cb_redirected \/ header_cb_upgraded \/ header_cb_not_accepted
  PROVE  RedirectionKnown'
<1>1. response \in Response
  BY DEF RedirectionKnown, HeaderTypeOK, Response
<1>2. header_state' = redirection_updated(response) /\ UNCHANGED <<follow_redirects, seen>>
  BY DEF header_cb_redirected, header_cb_upgraded, header_cb_not_accepted
<1>3. header_state' \in HeaderState /\ header_state'.redirection = Redirecting(response)
  BY <1>1, <1>2, RedirectionUpdated DEF RedirectionKnown
<1>4. response' \in Response /\ response'.status = response.status
  BY <1>1 DEF header_cb_redirected, header_cb_upgraded, header_cb_not_accepted, Response, Phases
<1>5. HeaderTypeOK'
  BY <1>2, <1>3, <1>4 DEF RedirectionKnown, HeaderTypeOK, HeaderState, Response
<1> QED BY <1>2, <1>3, <1>4, <1>5 DEF RedirectionKnown, Redirecting

\* What curl does between the responses.
LEMMA CurlKnown ==
  ASSUME RedirectionKnown, curl_follows \/ curl_ends
  PROVE  RedirectionKnown'
<1>1. response \in Response
  BY DEF RedirectionKnown, HeaderTypeOK, Response
<1>2. UNCHANGED <<follow_redirects, header_state, seen>>
  BY DEF curl_follows, curl_ends
<1>3. response' \in Response /\ response'.status = response.status
      /\ (response.phase = "ended" => response'.phase = "ended")
  <2>1. CASE response' = [response EXCEPT !.phase = "ended"]
    BY <1>1, <2>1 DEF Response, Phases
  <2>2. CASE /\ response.redirects < MaxRedirects
             /\ response' = [response EXCEPT !.phase = "request", !.redirects = @ + 1]
             /\ response.phase = "redirect"
    <3>1. response.redirects \in 0..MaxRedirects /\ response.redirects + 1 \in 0..MaxRedirects
      BY <1>1, <2>2, HeaderAssumption DEF Response
    <3> QED BY <1>1, <2>2, <3>1 DEF Response, Phases
  <2> QED BY <2>1, <2>2 DEF curl_follows, curl_ends
<1> QED BY <1>2, <1>3 DEF RedirectionKnown, HeaderTypeOK, Response, Redirecting

\* Every step keeps it.
LEMMA RedirectionKnownNext ==
  ASSUME RedirectionKnown, HeaderStep \/ UNCHANGED header_vars
  PROVE  RedirectionKnown'
<1>1. CASE UNCHANGED header_vars
  BY <1>1 DEF header_vars, RedirectionKnown, HeaderTypeOK, Redirecting
<1>2. CASE HeaderStep
  BY <1>2, StatusKnown, LineKnown, HeadersEndKnown, CurlKnown DEF HeaderStep
<1> QED BY <1>1, <1>2

-------------------------------------------------------------------------------
\* How far each step takes the response.
LEMMA PhaseSteps ==
  ASSUME HeaderTypeOK
  PROVE  /\ \A status \in Statuses, http11 \in BOOLEAN :
              header_cb_status(status, http11) => response'.phase \in {"headers", "ended"}
         /\ \A line \in Lines : header_cb_line(line) => UNCHANGED response
         /\ header_cb_redirected => response'.phase = "redirect"
         /\ header_cb_upgraded => response'.phase = "upgraded"
         /\ header_cb_not_accepted => response'.phase = "ended"
         /\ curl_follows => response'.phase \in {"request", "ended"}
         /\ curl_ends => response'.phase = "ended"
<1>1. response \in Response
  BY DEF HeaderTypeOK, Response
<1>2. ASSUME NEW status \in Statuses, NEW http11 \in BOOLEAN, header_cb_status(status, http11)
      PROVE  response'.phase \in {"headers", "ended"}
  BY <1>1, <1>2 DEF header_cb_status, Response
<1>3. curl_follows => response'.phase \in {"request", "ended"}
  BY <1>1 DEF curl_follows, Response
<1> QED
  BY <1>1, <1>2, <1>3 DEF header_cb_line, header_cb_redirected, header_cb_upgraded,
     header_cb_not_accepted, curl_ends, Response

-------------------------------------------------------------------------------
(* What the steps of the sending side do to the fields that are shared *)

\* cws_ping and cws_pong only queue.
LEMMA ControlQueues ==
  ASSUME NEW n, Q!cws_ping(n) \/ Q!cws_pong(n)
  PROVE  pc = "idle" /\ pc' = "idle" /\ wire' = wire /\ close_state' = close_state
BY DEF Q!cws_ping, Q!cws_pong, Q!control_call, Q!Idle

\* cws_close only queues, and receives nothing.
LEMMA CloseQueues ==
  ASSUME NEW a, Q!cws_close(a)
  PROVE  /\ pc = "idle" /\ pc' = "idle" /\ wire' = wire
         /\ ("RECEIVED" \in close_state') <=> ("RECEIVED" \in close_state)
BY DEF Q!cws_close, Q!close_frame, Q!Idle

\* The same for the call that __process_rv makes.
LEMMA ResultQueues ==
  ASSUME NEW rv, Q!process_rv(rv)
  PROVE  /\ pc = "idle" /\ pc' = "idle" /\ wire' = wire
         /\ ("RECEIVED" \in close_state') <=> ("RECEIVED" \in close_state)
BY CloseQueues DEF Q!process_rv

\* A call of the application only queues.
LEMMA CallsQueue ==
  ASSUME Q!Call
  PROVE  /\ pc = "idle" /\ pc' \in {"idle", "blk"}
         /\ wire' = wire
         /\ ("RECEIVED" \in close_state') <=> ("RECEIVED" \in close_state)
<1>1. ASSUME NEW type, NEW b, Q!cws_send_blk(type, b)
      PROVE  pc = "idle" /\ pc' = "blk" /\ wire' = wire /\ close_state' = close_state
  BY <1>1 DEF Q!cws_send_blk, Q!Idle, Q!api
<1>2. ASSUME NEW type, NEW info, NEW b, Q!cws_send_strm(type, info, b)
      PROVE  pc = "idle" /\ pc' = pc /\ wire' = wire /\ close_state' = close_state
  BY <1>2 DEF Q!cws_send_strm, Q!Idle
<1> QED BY <1>1, <1>2, ControlQueues, CloseQueues, ResultQueues DEF Q!Call

\* _error_close marks the close as received, and happens once.
LEMMA ErrorCloseReceives ==
  ASSUME NEW a, Q!_error_close(a)
  PROVE  /\ pc = "idle" /\ pc' = "idle"
         /\ wire' = wire
         /\ "RECEIVED" \notin close_state /\ "RECEIVED" \in close_state'
BY DEF Q!_error_close, Q!close_frame, Q!Idle

\* The read callback starts to copy only if no redirection is known.
LEMMA ReadCallback ==
  ASSUME Q!send_cb
  PROVE  /\ pc = "idle"
         /\ pc' = "idle" \/ (pc' = "fill" /\ ~header_state.redirection)
         /\ wire' = wire
         /\ ("RECEIVED" \in close_state') <=> ("RECEIVED" \in close_state)
<1>1. CASE Q!send_cb_redirected
  BY <1>1 DEF Q!send_cb_redirected, Q!curl_reads, Q!Idle, Q!vars
<1>2. CASE Q!send_cb_closed
  BY <1>2 DEF Q!send_cb_closed, Q!curl_reads, Q!Idle
<1>3. CASE Q!send_cb_pause
  BY <1>3 DEF Q!send_cb_pause, Q!curl_reads, Q!Idle, Q!api
<1>4. CASE \E n \in BufferSizes : Q!send_cb_fill(n)
  BY <1>4 DEF Q!send_cb_fill, Q!curl_reads, Q!Idle, Q!api
<1> QED BY <1>1, <1>2, <1>3, <1>4 DEF Q!send_cb

\* The loops end in "idle", and only that of the read callback hands bytes to curl.
LEMMA SendingLoops ==
  ASSUME Q!fill_step \/ Q!fill_return \/ Q!data_block_sender
  PROVE  /\ pc # "idle"
         /\ pc' \in {pc, "idle"}
         /\ pc # "fill" => wire' = wire
         /\ ("RECEIVED" \in close_state') <=> ("RECEIVED" \in close_state)
<1>1. CASE Q!fill_step
  BY <1>1 DEF Q!fill_step
<1>2. CASE Q!fill_return
  BY <1>2 DEF Q!fill_return, Q!api
<1>3. CASE Q!data_block_sender
  BY <1>3 DEF Q!data_block_sender
<1> QED BY <1>1, <1>2, <1>3

-------------------------------------------------------------------------------
(* Nothing is sent to a server that redirects *)

\* While the current response is a redirection the flag is set and no copy runs.
MutedByRedirection ==
  /\ RedirectionKnown
  /\ Redirecting(response) /\ response.phase # "ended" => pc # "fill"

\* The steps in which _header_cb or curl changes what is known of the response leave
\* the sending side alone; all others leave the response alone.
LEMMA HeaderOrNot ==
  ASSUME Next
  PROVE  \/ HeaderStep /\ pc = "idle" /\ UNCHANGED <<queue_vars, receiver_vars, buffer_vars>>
         \/ UNCHANGED header_vars
<1>1. CASE header_line \/ headers_end \/ curl_acts
  BY <1>1, ConnectionAssumption DEF header_line, headers_end, curl_acts, HeaderStep, Quiet, Q!Idle
<1>2. CASE curl_reads \/ sending_loop \/ application_calls \/ curl_delivers \/ callback_return
  BY <1>2 DEF curl_reads, sending_loop, application_calls, curl_delivers, callback_return
<1>3. CASE receiving_loop
  BY <1>3 DEF receiving_loop, assembling, ping_answered, pong_received, data_received, breach_found,
              on_close_called, close_answered
<1>4. CASE Terminated
  BY <1>4 DEF Terminated, vars
<1> QED BY <1>1, <1>2, <1>3, <1>4 DEF Next

\* Whatever a step does, it copies only in the loop of the read callback, and that
\* loop begins only if no redirection is known.
LEMMA CopiesInFill ==
  ASSUME Next
  PROVE  /\ pc # "fill" => wire' = wire
         /\ pc' = "fill" => pc = "fill" \/ ~header_state.redirection
<1>1. CASE header_line \/ headers_end \/ curl_acts
  BY <1>1 DEF header_line, headers_end, curl_acts, queue_vars
<1>2. CASE curl_reads
  BY <1>2, ReadCallback DEF curl_reads
<1>3. CASE sending_loop
  BY <1>3, SendingLoops DEF sending_loop
<1>4. CASE application_calls
  BY <1>4, CallsQueue DEF application_calls
<1>5. CASE curl_delivers
  BY <1>5 DEF curl_delivers, queue_vars
<1>6. CASE receiving_loop
  BY <1>6, ControlQueues, ErrorCloseReceives
     DEF receiving_loop, assembling, ping_answered, pong_received, data_received, breach_found,
         on_close_called, close_answered, queue_vars
<1>7. CASE callback_return
  BY <1>7, ResultQueues DEF callback_return, queue_vars
<1>8. CASE Terminated
  BY <1>8 DEF Terminated, vars, queue_vars
<1> QED BY <1>1, <1>2, <1>3, <1>4, <1>5, <1>6, <1>7, <1>8 DEF Next

\* Every step keeps it.
LEMMA MutedNext ==
  ASSUME MutedByRedirection, [Next]_vars
  PROVE  MutedByRedirection'
<1>1. CASE UNCHANGED vars
  <2>1. UNCHANGED header_vars /\ UNCHANGED pc
    BY <1>1 DEF vars, queue_vars
  <2>2. Redirecting(response)' = Redirecting(response) /\ response' = response
    BY <2>1 DEF header_vars, Redirecting
  <2> QED BY <2>1, <2>2, RedirectionKnownNext DEF MutedByRedirection
<1>2. CASE Next
  <2>1. CASE HeaderStep /\ pc = "idle" /\ UNCHANGED queue_vars
    BY <2>1, RedirectionKnownNext DEF MutedByRedirection, queue_vars
  <2>2. CASE UNCHANGED header_vars
    <3>1. Redirecting(response)' = Redirecting(response) /\ response' = response
      BY <2>2 DEF header_vars, Redirecting
    <3> QED BY <1>2, <2>2, <3>1, CopiesInFill, RedirectionKnownNext
            DEF MutedByRedirection, RedirectionKnown
  <2> QED BY <1>2, <2>1, <2>2, HeaderOrNot
<1> QED BY <1>1, <1>2

\* It holds in the beginning.
LEMMA MutedInit ==
  ASSUME Init
  PROVE  MutedByRedirection
BY RedirectionKnownInit DEF Init, MutedByRedirection, Q!Init

\* Of what is queued, no byte is handed to curl between a redirecting status line and
\* the next response: _send_cb's early return is enough.
THEOREM RedirectorGetsNothing == Spec => NothingSentToRedirector
<1>1. Init => MutedByRedirection
  BY MutedInit
<1>2. MutedByRedirection /\ [Next]_vars => MutedByRedirection'
  BY MutedNext
<1>3. MutedByRedirection /\ [Next]_vars
      => [Redirecting(response) /\ response.phase # "ended" => wire' = wire]_vars
  BY CopiesInFill DEF MutedByRedirection
<1> QED BY <1>1, <1>2, <1>3, PTL DEF Spec, NothingSentToRedirector

-------------------------------------------------------------------------------
(* The order of the callbacks *)

\* The receiver runs on an open connection only, and no close is received before the
\* upgrade.
ConversationInv ==
  /\ RedirectionKnown
  /\ recv_pc \in {"idle", "loop"}
  /\ recv_pc = "loop" => response.phase = "upgraded" /\ "RECEIVED" \notin close_state
  /\ "RECEIVED" \in close_state => response.phase \in {"upgraded", "ended"}
  /\ callback \in {"on_close", "closing"} => recv_pc = "loop"

\* It holds in the beginning, in which nobody has heard anything.
LEMMA ConversationInit ==
  ASSUME Init
  PROVE  ConversationInv /\ Talk!Init
<1>1. RedirectionKnown
  BY RedirectionKnownInit DEF Init
<1>2. /\ recv_pc = "idle" /\ close_state = {} /\ callback = "none" /\ heard = << >>
      /\ response.phase = "request"
  BY DEF Init, Q!Init, D!DeliveryInit, D!Init, ResponseInit
<1> QED BY <1>1, <1>2 DEF ConversationInv, Talk!Init, stage, Over

\* The loop of _receive_cb goes on only if nothing was closed.
LEMMA LoopGoesOn ==
  ASSUME NEW l, NEW closed \in BOOLEAN, D!advance(l, closed)
  PROVE  recv_pc' \in {"idle", "loop"} /\ (closed => recv_pc' = "idle")
BY DEF D!advance

\* What a step of the receiver does to its loop and to close_state.
LEMMA ReceiverGoesOn ==
  ASSUME \/ D!header_incomplete \/ D!header_complete \/ D!control_incomplete
         \/ D!control_frame_handled \/ D!fragment_handled
  PROVE  recv_pc = "loop" /\ recv_pc' \in {"idle", "loop"}
BY LoopGoesOn
   DEF D!header_incomplete, D!header_complete, D!header_valid, D!Reading, D!control_incomplete,
       D!InControl, D!control_frame_handled, D!control_dispatched, D!fragment_handled,
       D!data_delivered, D!InData

\* A close or a breach ends the loop.
LEMMA ReceiverEnds ==
  ASSUME \/ D!header_rejected \/ D!header_out_of_order \/ D!text_rejected \/ D!close_handled
  PROVE  recv_pc' = "idle"
BY ZenonT(40), LoopGoesOn
   DEF D!header_rejected, D!header_out_of_order, D!text_rejected, D!close_handled

\* What a step may do to the order of the callbacks.
KeepsOrder ==
  /\ RedirectionKnown' => ConversationInv'
  /\ Talk!Next \/ UNCHANGED <<stage, heard>>

\* A header line says nothing to the application, and may end the transfer.
LEMMA LinesKeepOrder ==
  ASSUME ConversationInv, header_line \/ curl_acts
  PROVE  KeepsOrder
<1>1. /\ UNCHANGED <<queue_vars, receiver_vars, app_vars>>
      /\ recv_pc = "idle" /\ callback = "none"
  BY DEF header_line, curl_acts, Quiet
<1>2. CASE response.phase # "ended" /\ response'.phase = "ended"
  BY <1>1, <1>2 DEF ConversationInv, KeepsOrder, stage, Over, Talk!Next, Talk!Broken, queue_vars,
     receiver_vars, app_vars
<1>3. CASE response' = response
  BY <1>1, <1>3 DEF ConversationInv, KeepsOrder, stage, Over, queue_vars, receiver_vars, app_vars
<1>4. CASE /\ response.phase \in {"request", "headers", "redirect"}
           /\ response'.phase \in {"request", "headers", "redirect"}
  BY <1>1, <1>4 DEF ConversationInv, KeepsOrder, stage, Over, queue_vars, receiver_vars, app_vars
<1>5. \/ response.phase # "ended" /\ response'.phase = "ended"
      \/ response' = response
      \/ /\ response.phase \in {"request", "headers", "redirect"}
         /\ response'.phase \in {"request", "headers", "redirect"}
  BY PhaseSteps, ConnectionAssumption
     DEF header_line, curl_acts, ConversationInv, RedirectionKnown, header_cb_status,
         header_cb_redirected, curl_follows, curl_ends
<1> QED BY <1>2, <1>3, <1>4, <1>5

\* The end of the headers is told to the application once.
LEMMA HeadersEndKeepsOrder ==
  ASSUME ConversationInv, headers_end
  PROVE  KeepsOrder
<1>1. /\ UNCHANGED <<queue_vars, receiver_vars>>
      /\ recv_pc = "idle" /\ callback = "none"
      /\ response.phase = "headers"
  BY DEF headers_end, Quiet, header_cb_upgraded, header_cb_not_accepted
<1>2. stage = "connecting"
  BY <1>1 DEF stage, Over, ConversationInv
<1>3. CASE header_cb_upgraded /\ calls_back("on_connect", "on_connect")
  <2>1. response'.phase = "upgraded" /\ callback' = "on_connect"
    BY <1>3, PhaseSteps DEF calls_back, ConversationInv, RedirectionKnown
  <2>2. RedirectionKnown' => ConversationInv'
    BY <1>1, <2>1 DEF ConversationInv, queue_vars, receiver_vars
  <2>3. stage' = "open"
    BY <1>1, <2>1 DEF stage, Over, ConversationInv, queue_vars
  <2> QED BY <1>2, <1>3, <2>2, <2>3
          DEF KeepsOrder, Talk!Next, Talk!Connected, Talk!Hears, calls_back
<1>4. CASE header_cb_not_accepted /\ calls_back("refused", "on_close")
  <2>1. response'.phase = "ended" /\ callback' = "refused"
    BY <1>4, PhaseSteps DEF calls_back, ConversationInv, RedirectionKnown
  <2>2. RedirectionKnown' => ConversationInv'
    BY <1>1, <2>1 DEF ConversationInv, queue_vars, receiver_vars
  <2>3. stage' = "closed"
    BY <2>1 DEF stage, Over
  <2> QED BY <1>2, <1>4, <2>2, <2>3
          DEF KeepsOrder, Talk!Next, Talk!Refused, Talk!Hears, calls_back
<1> QED BY <1>3, <1>4 DEF headers_end

\* The sending side has no say in the order of the callbacks.
LEMMA SenderKeepsOrder ==
  ASSUME ConversationInv, curl_reads \/ sending_loop \/ application_calls
  PROVE  KeepsOrder
<1>1. UNCHANGED <<header_vars, receiver_vars, app_vars>>
  BY DEF curl_reads, sending_loop, application_calls
<1>2. ("RECEIVED" \in close_state') <=> ("RECEIVED" \in close_state)
  BY ReadCallback, SendingLoops, CallsQueue DEF curl_reads, sending_loop, application_calls
<1> QED BY <1>1, <1>2
        DEF ConversationInv, KeepsOrder, stage, Over, header_vars, receiver_vars, app_vars

\* A chunk is looked at on an open connection only.
LEMMA DeliveryKeepsOrder ==
  ASSUME ConversationInv, curl_delivers
  PROVE  KeepsOrder
<1>1. UNCHANGED <<header_vars, queue_vars, app_vars>> /\ response.phase = "upgraded"
      /\ callback = "none"
  BY DEF curl_delivers, Quiet
<1>2. recv_pc' \in {"idle", "loop"} /\ (recv_pc' = "loop" => "RECEIVED" \notin close_state)
  BY DEF curl_delivers, D!curl_delivers, D!receive_cb, D!receive_cb_ignored
<1> QED BY <1>1, <1>2
        DEF ConversationInv, KeepsOrder, stage, Over, header_vars, queue_vars, app_vars

\* What is received of a frame is told while the connection is open.
LEMMA FramesKeepOrder ==
  ASSUME ConversationInv, assembling \/ ping_answered \/ pong_received \/ data_received
  PROVE  KeepsOrder
<1>1. /\ UNCHANGED header_vars
      /\ recv_pc = "loop" /\ callback = "none"
      /\ recv_pc' \in {"idle", "loop"}
  BY ReceiverGoesOn DEF assembling, ping_answered, pong_received, data_received, Receiving
<1>2. ("RECEIVED" \in close_state') <=> ("RECEIVED" \in close_state)
  BY ControlQueues
     DEF assembling, ping_answered, pong_received, data_received, queue_vars
<1>3. \/ UNCHANGED app_vars
      \/ \E cb \in Talk!Between : calls_back(cb, cb)
  BY DEF assembling, ping_answered, pong_received, data_received, Talk!Between
<1>4. stage = "open"
  BY <1>1 DEF stage, Over, ConversationInv
<1>5. callback' \notin {"on_close", "closing"}
  BY <1>1, <1>3 DEF app_vars, calls_back, Talk!Between
<1>6. stage' = "open" /\ (RedirectionKnown' => ConversationInv')
  BY <1>1, <1>2, <1>5 DEF stage, Over, ConversationInv, header_vars
<1>7. UNCHANGED heard \/ Talk!Message
  BY <1>3, <1>4, <1>6 DEF app_vars, calls_back, Talk!Message, Talk!Hears
<1> QED BY <1>4, <1>6, <1>7 DEF KeepsOrder, Talk!Next

\* After a breach the application hears nothing more.
LEMMA BreachKeepsOrder ==
  ASSUME ConversationInv, breach_found
  PROVE  KeepsOrder
<1>1. /\ UNCHANGED <<header_vars, app_vars>>
      /\ recv_pc = "loop" /\ callback = "none"
      /\ recv_pc' = "idle"
  BY ReceiverEnds DEF breach_found, Receiving
<1>2. "RECEIVED" \in close_state'
  BY ErrorCloseReceives DEF breach_found
<1>3. stage = "open" /\ stage' = "closed" /\ UNCHANGED heard
  BY <1>1, <1>2 DEF stage, Over, ConversationInv, app_vars
<1>4. RedirectionKnown' => ConversationInv'
  BY <1>1, <1>2 DEF ConversationInv, header_vars, app_vars
<1> QED BY <1>3, <1>4 DEF KeepsOrder, Talk!Next, Talk!Broken

\* on_close is called on an open connection, and it is the end for the application
\* although close_state says so only when it has returned.
LEMMA CloseKeepsOrder ==
  ASSUME ConversationInv, on_close_called \/ close_answered
  PROVE  KeepsOrder
<1>1. CASE on_close_called
  <2>1. /\ UNCHANGED <<header_vars, queue_vars, receiver_vars>>
        /\ recv_pc = "loop" /\ callback = "none"
        /\ callback' = "on_close" /\ Talk!Hears("on_close")
    BY <1>1 DEF on_close_called, Receiving, calls_back, Talk!Hears
  <2>2. stage = "open" /\ stage' = "closed"
    BY <2>1 DEF stage, Over, ConversationInv
  <2>3. RedirectionKnown' => ConversationInv'
    BY <2>1 DEF ConversationInv, header_vars, queue_vars, receiver_vars
  <2> QED BY <2>1, <2>2, <2>3 DEF KeepsOrder, Talk!Next, Talk!Closed
<1>2. CASE close_answered
  <2>1. /\ UNCHANGED <<header_vars, heard>>
        /\ callback = "closing" /\ callback' = "none"
        /\ recv_pc' = "idle"
    BY <1>2, ReceiverEnds DEF close_answered
  <2>2. "RECEIVED" \in close_state'
    BY <1>2, ErrorCloseReceives DEF close_answered
  <2>3. stage = "closed" /\ stage' = "closed"
    BY <2>1, <2>2 DEF stage, Over
  <2>4. RedirectionKnown' => ConversationInv'
    BY <2>1, <2>2 DEF ConversationInv, header_vars
  <2> QED BY <2>1, <2>3, <2>4 DEF KeepsOrder
<1> QED BY <1>1, <1>2

\* The result of a callback may queue a close, which is not the end yet.
LEMMA ReturnKeepsOrder ==
  ASSUME ConversationInv, callback_return
  PROVE  KeepsOrder
<1>1. /\ UNCHANGED <<header_vars, receiver_vars, heard>>
      /\ callback \notin {"none", "closing"}
      /\ callback' = IF callback = "on_close" THEN "closing" ELSE "none"
  BY DEF callback_return
<1>2. ("RECEIVED" \in close_state') <=> ("RECEIVED" \in close_state)
  BY ResultQueues DEF callback_return, queue_vars
<1> QED BY <1>1, <1>2 DEF ConversationInv, KeepsOrder, stage, Over, header_vars, receiver_vars

\* Every step keeps the order.
LEMMA ConversationNext ==
  ASSUME ConversationInv, [Next]_vars
  PROVE  ConversationInv' /\ (Talk!Next \/ UNCHANGED <<stage, heard>>)
<1>1. CASE Next /\ ~Terminated
  <2>1. KeepsOrder
    BY <1>1, LinesKeepOrder, HeadersEndKeepsOrder, SenderKeepsOrder, DeliveryKeepsOrder,
       FramesKeepOrder, BreachKeepsOrder, CloseKeepsOrder, ReturnKeepsOrder
       DEF Next, receiving_loop
  <2>2. RedirectionKnown'
    BY <1>1, HeaderOrNot, RedirectionKnownNext DEF ConversationInv
  <2> QED BY <2>1, <2>2 DEF KeepsOrder
<1>2. CASE UNCHANGED vars
  <2>1. UNCHANGED <<header_vars, queue_vars, receiver_vars, app_vars>>
    BY <1>2 DEF vars
  <2>2. RedirectionKnown'
    BY <2>1, RedirectionKnownNext DEF ConversationInv
  <2> QED BY <2>1, <2>2
          DEF ConversationInv, stage, Over, header_vars, queue_vars, receiver_vars, app_vars
<1> QED BY <1>1, <1>2 DEF Terminated

\* on_connect comes first and once, messages and pongs only on an open connection,
\* and on_close last, whatever the peer sends and the application calls.
THEOREM CallbacksInOrder == Spec => ImplementsConversation
<1>1. Init => ConversationInv /\ Talk!Init
  BY ConversationInit
<1>2. ConversationInv /\ [Next]_vars => ConversationInv' /\ [Talk!Next]_<<stage, heard>>
  BY ConversationNext
<1> QED BY <1>1, <1>2, PTL DEF Spec, ImplementsConversation, Talk!Spec

-------------------------------------------------------------------------------
(* The receiver and the sender of a connection are instances of Receive and    *)
(* SendQueue: what is proved of those modules can be cited.  The definitions   *)
(* that an instance takes along from a module are not those that the instance  *)
(* of its proofs takes along, although they say the same.                      *)

\* The codes and the lengths that a close frame or a ping of the peer can have.
AnyCode == {code \in Int : is_close_code_valid(code)}
AnyPing == 0..WS_CTL_PAYLOAD_MAX

\* The receiver and the sender of the connection with the theorems about them.
RP == INSTANCE ReceiveProofs WITH pc             <- recv_pc,
                                  close_received <- "RECEIVED" \in close_state
WP == INSTANCE SendQueueWireProofs WITH FollowRedirects <- TRUE,
                                        redirection     <- header_state.redirection,
                                        PeerCodes       <- AnyCode,
                                        PingLens        <- AnyPing

\* What is made of the bytes of a header, a text and a close frame is the same in both.
LEMMA SameDecoding ==
  ASSUME NEW b
  PROVE  D!frame_decode(b) = RP!frame_decode(b)
BY DEF D!frame_decode, RP!frame_decode, D!WS_FRAME_HEADER_MIN, RP!WS_FRAME_HEADER_MIN,
       D!ext_len_bytes, RP!ext_len_bytes, D!WS_FRAME_HEADER_MASK, RP!WS_FRAME_HEADER_MASK,
       D!payload_length, RP!payload_length, D!NeedMore, RP!NeedMore, D!DecodeError,
       RP!DecodeError, D!DataOpcodes, RP!DataOpcodes, D!ControlOpcodes, RP!ControlOpcodes,
       D!UINT16_MAX, RP!UINT16_MAX, D!Value8, RP!Value8, D!WS_OPCODE_CONTINUATION,
       RP!WS_OPCODE_CONTINUATION, D!WS_OPCODE_TEXT, RP!WS_OPCODE_TEXT, D!WS_OPCODE_BINARY,
       RP!WS_OPCODE_BINARY, D!WS_OPCODE_CLOSE, RP!WS_OPCODE_CLOSE, D!WS_OPCODE_PING,
       RP!WS_OPCODE_PING, D!WS_OPCODE_PONG, RP!WS_OPCODE_PONG

\* What utf8_validate makes of a text.
LEMMA SameValidation ==
  ASSUME NEW b
  PROVE  D!utf8_validate(b) = RP!utf8_validate(b)
BY DEF D!utf8_validate, RP!utf8_validate, D!utf8_len, RP!utf8_len, D!valid_char, RP!valid_char,
       D!Continuation, RP!Continuation, D!Low6, RP!Low6

\* What utf8_maybe_valid makes of the start of a character.
LEMMA SameStart ==
  ASSUME NEW b
  PROVE  D!utf8_maybe_valid(b) = RP!utf8_maybe_valid(b)
BY DEF D!utf8_maybe_valid, RP!utf8_maybe_valid, D!utf8_len, RP!utf8_len, D!utf8_validate,
       RP!utf8_validate, D!valid_char, RP!valid_char, D!Continuation, RP!Continuation, D!Low6,
       RP!Low6

\* What is made of the character that the last chunk cut.
LEMMA SameCharacters ==
  ASSUME NEW b
  PROVE  D!complete_character(b) = RP!complete_character(b)
<1> DEFINE taken(m) == utf8.buf \o SubSeq(b, 1, m)
<1>1. ASSUME NEW m PROVE /\ D!utf8_validate(taken(m)) = RP!utf8_validate(taken(m))
                        /\ D!utf8_maybe_valid(taken(m)) = RP!utf8_maybe_valid(taken(m))
  BY SameValidation, SameStart
<1>2. D!MinOf(utf8.needed, Len(b)) = RP!MinOf(utf8.needed, Len(b))
  BY DEF D!MinOf, RP!MinOf
<1>3. ASSUME NEW s, NEW u PROVE D!TextOk(s, u) = RP!TextOk(s, u) /\ D!TextError(u) = RP!TextError(u)
  BY DEF D!TextOk, RP!TextOk, D!TextError, RP!TextError
<1> QED BY <1>1, <1>2, <1>3 DEF D!complete_character, RP!complete_character

\* What is made of the rest of a chunk of text.
LEMMA SameText ==
  ASSUME NEW b
  PROVE  D!whole_characters(b) = RP!whole_characters(b)
<1>1. D!utf8_validate(b) = RP!utf8_validate(b)
  BY SameValidation
<1>2. \A c : D!utf8_get_size(c) = RP!utf8_get_size(c)
  BY DEF D!utf8_get_size, RP!utf8_get_size, D!utf8_len, RP!utf8_len
<1>3. ASSUME NEW s, NEW u PROVE D!TextOk(s, u) = RP!TextOk(s, u) /\ D!TextError(u) = RP!TextError(u)
  BY DEF D!TextOk, RP!TextOk, D!TextError, RP!TextError
<1> QED BY <1>1, <1>2, <1>3 DEF D!whole_characters, RP!whole_characters

\* What is made of the payload of a close frame.
LEMMA SameOutcome ==
  ASSUME NEW b
  PROVE  D!close_outcome(b) = RP!close_outcome(b)
BY DEF D!close_outcome, RP!close_outcome, D!Failed, RP!Failed, D!Closed, RP!Closed,
       D!is_close_code_valid, RP!is_close_code_valid, D!close_code, RP!close_code,
       D!utf8_validate, RP!utf8_validate, D!utf8_len, RP!utf8_len, D!valid_char, RP!valid_char,
       D!Continuation, RP!Continuation, D!Low6, RP!Low6

\* What is made of the header and of the data at hand.
LEMMA SameResults ==
  /\ D!decoded = RP!decoded
  /\ D!data_result = RP!data_result
<1>1. D!decoded = RP!decoded
  BY SameDecoding
     DEF D!decoded, RP!decoded, D!header_bytes, RP!header_bytes, D!Taken, RP!Taken,
         D!header_taken, RP!header_taken, D!MinOf, RP!MinOf, D!header_needed, RP!header_needed,
         D!WS_FRAME_HEADER_MIN, RP!WS_FRAME_HEADER_MIN
<1>2. D!data_result = RP!data_result
  BY SameCharacters, SameText
     DEF D!data_result, RP!data_result, D!process_text_stream, RP!process_text_stream, D!Taken,
         RP!Taken, D!data_taken, RP!data_taken, D!TextOk, RP!TextOk, D!MinOf, RP!MinOf
<1> QED BY <1>1, <1>2

\* Every step of the receiver is the same in both.
LEMMA SameFrameSteps == D!process_frame => RP!process_frame
<1>1. D!header_rejected => RP!header_rejected
  BY SameResults
     DEF D!header_rejected, RP!header_rejected, D!Reading, RP!Reading, D!frame_validate_S2C,
         RP!frame_validate_S2C, D!header_bytes, RP!header_bytes, D!header_needed,
         RP!header_needed, D!header_taken, RP!header_taken, D!_error_close, RP!_error_close,
         D!advance, RP!advance, D!assembly, RP!assembly, D!NoFrame, RP!NoFrame,
         D!WS_CTL_PAYLOAD_MAX, RP!WS_CTL_PAYLOAD_MAX, D!Taken, RP!Taken, D!WS_FRAME_HEADER_MIN,
         RP!WS_FRAME_HEADER_MIN, D!MinOf, RP!MinOf, D!Failed, RP!Failed
<1>2. D!header_incomplete => RP!header_incomplete
  BY SameResults
     DEF D!header_incomplete, RP!header_incomplete, D!Reading, RP!Reading, D!header_bytes,
         RP!header_bytes, D!advance, RP!advance, D!header_taken, RP!header_taken, D!assembly,
         RP!assembly, D!NoFrame, RP!NoFrame, D!Taken, RP!Taken, D!MinOf, RP!MinOf,
         D!header_needed, RP!header_needed, D!WS_FRAME_HEADER_MIN, RP!WS_FRAME_HEADER_MIN
<1>3. D!header_complete => RP!header_complete
  BY SameResults
     DEF D!header_complete, RP!header_complete, D!header_valid, RP!header_valid, D!begins_message,
         RP!begins_message, D!message_type, RP!message_type, D!continues_message,
         RP!continues_message, D!header_needed, RP!header_needed, D!header_taken, RP!header_taken,
         D!Reading, RP!Reading, D!frame_validate_S2C, RP!frame_validate_S2C, D!WS_OPCODE_BINARY,
         RP!WS_OPCODE_BINARY, D!WS_OPCODE_TEXT, RP!WS_OPCODE_TEXT, D!WS_OPCODE_CONTINUATION,
         RP!WS_OPCODE_CONTINUATION, D!WS_FRAME_HEADER_MIN, RP!WS_FRAME_HEADER_MIN, D!MinOf,
         RP!MinOf, D!NoFrame, RP!NoFrame, D!WS_CTL_PAYLOAD_MAX, RP!WS_CTL_PAYLOAD_MAX
<1>4. D!header_out_of_order => RP!header_out_of_order
  BY SameResults
     DEF D!header_out_of_order, RP!header_out_of_order, D!header_valid, RP!header_valid,
         D!begins_message, RP!begins_message, D!continues_message, RP!continues_message,
         D!header_needed, RP!header_needed, D!header_taken, RP!header_taken, D!_error_close,
         RP!_error_close, D!advance, RP!advance, D!assembly, RP!assembly, D!Reading, RP!Reading,
         D!frame_validate_S2C, RP!frame_validate_S2C, D!WS_OPCODE_BINARY, RP!WS_OPCODE_BINARY,
         D!WS_OPCODE_TEXT, RP!WS_OPCODE_TEXT, D!WS_OPCODE_CONTINUATION, RP!WS_OPCODE_CONTINUATION,
         D!WS_FRAME_HEADER_MIN, RP!WS_FRAME_HEADER_MIN, D!MinOf, RP!MinOf, D!Failed, RP!Failed,
         D!NoFrame, RP!NoFrame, D!WS_CTL_PAYLOAD_MAX, RP!WS_CTL_PAYLOAD_MAX
<1>5. D!control_incomplete => RP!control_incomplete
  BY DEF D!control_incomplete, RP!control_incomplete, D!InControl, RP!InControl, D!control_bytes,
         RP!control_bytes, D!advance, RP!advance, D!control_taken, RP!control_taken, D!NoFrame,
         RP!NoFrame, D!Taken, RP!Taken, D!MinOf, RP!MinOf
<1>6. D!control_dispatched => RP!control_dispatched
  BY DEF D!control_dispatched, RP!control_dispatched, D!InControl, RP!InControl, D!control_bytes,
         RP!control_bytes, D!WS_OPCODE_PING, RP!WS_OPCODE_PING, D!Control, RP!Control,
         D!WS_OPCODE_PONG, RP!WS_OPCODE_PONG, D!NoFrame, RP!NoFrame, D!WS_FRAME_HEADER_MIN,
         RP!WS_FRAME_HEADER_MIN, D!advance, RP!advance, D!control_taken, RP!control_taken,
         D!Taken, RP!Taken, D!MinOf, RP!MinOf
<1>7. D!close_handled => RP!close_handled
  BY SameOutcome
     DEF D!close_handled, RP!close_handled, D!InControl, RP!InControl, D!control_bytes,
         RP!control_bytes, D!WS_OPCODE_CLOSE, RP!WS_OPCODE_CLOSE, D!NoFrame, RP!NoFrame,
         D!advance, RP!advance, D!control_taken, RP!control_taken, D!Taken, RP!Taken, D!MinOf,
         RP!MinOf
<1>8. D!text_rejected => RP!text_rejected
  BY SameResults
     DEF D!text_rejected, RP!text_rejected, D!InData, RP!InData, D!_error_close, RP!_error_close,
         D!advance, RP!advance, D!NoFrame, RP!NoFrame, D!Failed, RP!Failed
<1>9. D!data_delivered => RP!data_delivered
  BY SameResults
     DEF D!data_delivered, RP!data_delivered, D!InData, RP!InData, D!has_something,
         RP!has_something, D!on_fragment, RP!on_fragment, D!data_info, RP!data_info, D!data_left,
         RP!data_left, D!NoFrame, RP!NoFrame, D!advance, RP!advance, D!data_taken, RP!data_taken,
         D!Started, RP!Started, D!DataBytes, RP!DataBytes, D!Ended, RP!Ended, D!MinOf, RP!MinOf,
         D!DataByte, RP!DataByte
<1> QED BY <1>1, <1>2, <1>3, <1>4, <1>5, <1>6, <1>7, <1>8, <1>9 DEF D!process_frame, RP!process_frame

\* The receiver starts, steps and stutters the same in both.
LEMMA SameReceiver ==
  /\ D!Init => RP!Init
  /\ D!Next => RP!Next \/ UNCHANGED RP!vars
  /\ UNCHANGED D!vars => UNCHANGED RP!vars
<1>1. D!Init => RP!Init
  BY DEF D!Init, RP!Init, D!NoFrame, RP!NoFrame
<1>2. UNCHANGED D!vars => UNCHANGED RP!vars
  BY DEF D!vars, RP!vars
<1>3. ASSUME NEW n
      PROVE  D!receive_cb(n) \/ D!receive_cb_ignored(n) => RP!receive_cb(n) \/ RP!receive_cb_ignored(n)
  BY DEF D!receive_cb, RP!receive_cb, D!receive_cb_ignored, RP!receive_cb_ignored, D!assembly,
         RP!assembly
<1>4. D!Next => RP!Next \/ UNCHANGED RP!vars
  BY <1>2, <1>3, SameFrameSteps DEF D!Next, RP!Next, D!Terminated
<1> QED BY <1>1, <1>2, <1>4

-------------------------------------------------------------------------------
(* The receiver of a connection is a receiver *)

\* What a step of the receiver that says nothing of the close leaves alone.
LEMMA ReceiverRests ==
  ASSUME UNCHANGED receiver_vars, ("RECEIVED" \in close_state') <=> ("RECEIVED" \in close_state)
  PROVE  UNCHANGED D!vars
BY DEF receiver_vars, D!vars

\* Every step of a connection is one of the receiver, or leaves it alone.
LEMMA ReceiverSteps ==
  ASSUME [Next]_vars
  PROVE  D!Next \/ UNCHANGED D!vars
<1>1. CASE header_line \/ headers_end \/ curl_acts \/ on_close_called
  BY <1>1, ReceiverRests DEF header_line, headers_end, curl_acts, on_close_called, queue_vars
<1>2. CASE curl_reads \/ sending_loop \/ application_calls
  BY <1>2, ReceiverRests, ReadCallback, SendingLoops, CallsQueue
     DEF curl_reads, sending_loop, application_calls
<1>3. CASE callback_return
  BY <1>3, ReceiverRests, ResultQueues DEF callback_return, queue_vars
<1>4. CASE curl_delivers
  BY <1>4 DEF curl_delivers, D!curl_delivers, D!Next
<1>5. CASE assembling \/ ping_answered \/ pong_received \/ data_received
  BY <1>5 DEF assembling, ping_answered, pong_received, data_received, D!control_frame_handled,
              D!fragment_handled, D!process_frame, D!Next
<1>6. CASE breach_found \/ close_answered
  BY <1>6 DEF breach_found, close_answered, D!process_frame, D!Next
<1>7. CASE Terminated \/ UNCHANGED vars
  <2>1. UNCHANGED receiver_vars /\ UNCHANGED close_state
    BY <1>7 DEF Terminated, vars, queue_vars
  <2> QED BY <2>1, ReceiverRests
<1> QED BY <1>1, <1>2, <1>3, <1>4, <1>5, <1>6, <1>7 DEF Next, receiving_loop

\* What module Receive assumes of its streams.
LEMMA ReceiverFacts ==
  /\ Streams \subseteq Seq(RP!Byte)
  /\ ChunkSizes \in [Streams -> SUBSET (Nat \ {0})]
BY ReceiverAssumption DEF Byte, RP!Byte

\* What is proved of the receiver alone holds in a connection.
LEMMA ReceiverInvariant == Spec => []RP!ReceiverInv
<1>1. Init => RP!ReceiverInv
  BY SameReceiver, ReceiverFacts, RP!ReceiverInitially DEF Init, D!DeliveryInit
<1>2. RP!ReceiverInv /\ [Next]_vars => RP!ReceiverInv'
  BY SameReceiver, ReceiverSteps, ReceiverFacts, RP!ReceiverSteps
<1> QED BY <1>1, <1>2, PTL DEF Spec

\* Whatever the application calls from its callbacks, the buffers of struct recv are
\* never overrun.
THEOREM ReceiverStaysInBounds == Spec => []D!BuffersBounded
<1>1. RP!ReceiverInv => RP!BuffersBounded
  BY DEF RP!ReceiverInv, RP!RecvInv, RP!FrameIsValid, RP!HeaderFits, RP!ControlFits,
         RP!CharacterFits, RP!BuffersBounded
<1>2. RP!BuffersBounded => D!BuffersBounded
  BY DEF D!BuffersBounded, RP!BuffersBounded, D!WS_FRAME_HEADER_MAX, RP!WS_FRAME_HEADER_MAX,
         D!header_needed, RP!header_needed, D!WS_CTL_PAYLOAD_MAX, RP!WS_CTL_PAYLOAD_MAX,
         D!WS_FRAME_HEADER_MIN, RP!WS_FRAME_HEADER_MIN
<1> QED BY <1>1, <1>2, ReceiverInvariant, PTL

-------------------------------------------------------------------------------
(* The sending side of a connection is a SendQueue *)

\* What _error_close is given by a connection: the code of the peer's close frame if it
\* has a valid one, or the breach.
CloseAnswers ==
  {Q!PeerCloseArg(code) : code \in AnyCode}
  \cup {Q!NoCodeCloseArg, Q!BreachCloseArg(1002), Q!BreachCloseArg(1007),
        Q!BadPayloadCloseArg(20), Q!BadPayloadCloseArg(28)}

\* What a connection does to its sender, ...
OtherActs ==
  \/ Q!Call
  \/ Q!data_block_sender
  \/ Q!send_cb
  \/ Q!fill_step
  \/ Q!fill_return
  \/ \E a \in CloseAnswers : Q!_error_close(a)
  \/ \E b \in BOOLEAN : Q!header_redirection(b)

\* ... with the answers to pings.
SenderActs == OtherActs \/ \E n \in AnyPing : Q!cws_pong(n)

\* The only flag of header_state that the sender reads is set or cleared by a header
\* line, or left alone.
LEMMA HeaderActs ==
  ASSUME RedirectionKnown, Q!Idle, UNCHANGED queue_vars, HeaderStep
  PROVE  OtherActs
<1>1. header_state'.redirection \in BOOLEAN
  BY RedirectionKnownNext DEF RedirectionKnown, HeaderTypeOK
<1>2. Q!header_redirection(header_state'.redirection)
  BY <1>1 DEF Q!header_redirection, Q!api, queue_vars
<1> QED BY <1>1, <1>2 DEF OtherActs

\* A close frame that is told to the application has a code that may be sent back, or
\* none.
LEMMA CodeIsValid ==
  ASSUME close_outcome.fn = "on_close", close_outcome.code # 1005
  PROVE  close_outcome.code \in AnyCode
<1> DEFINE data == D!control_bytes
<1>1. \/ close_outcome \in {D!Failed(1002), D!Failed(1007), D!Closed(1005, << >>)}
      \/ /\ D!is_close_code_valid(D!close_code(data))
         /\ close_outcome = D!Closed(D!close_code(data), SubSeq(data, 3, Len(data)))
  BY DEF D!close_outcome, close_outcome
<1>2. D!Failed(1002).fn # "on_close" /\ D!Failed(1007).fn # "on_close"
  BY DEF D!Failed
<1>3. ASSUME NEW c, NEW reason PROVE D!Closed(c, reason).code = c
  BY DEF D!Closed
<1>4. ASSUME NEW c, D!is_close_code_valid(c) PROVE c \in AnyCode
  BY <1>4 DEF D!is_close_code_valid, is_close_code_valid, AnyCode
<1> QED BY <1>1, <1>2, <1>3, <1>4

\* The close after a breach of the protocol is a step of the sender.
LEMMA BreachActs ==
  ASSUME breach_found
  PROVE  OtherActs
<1>1. /\ Q!BreachCloseArg(1002) \in CloseAnswers
      /\ Q!BreachCloseArg(1007) \in CloseAnswers
      /\ Q!BadPayloadCloseArg(28) \in CloseAnswers
      /\ Q!BadPayloadCloseArg(20) \in CloseAnswers
  BY DEF CloseAnswers
<1>2. bad_payload_arg \in CloseAnswers
  BY <1>1 DEF bad_payload_arg
<1> QED BY <1>1, <1>2 DEF OtherActs, breach_found

\* So is the close that answers a close.
LEMMA AnswerActs ==
  ASSUME close_answered
  PROVE  OtherActs
<1>1. close_outcome.fn = "on_close" /\ Q!_error_close(answer_arg)
  BY DEF close_answered
<1>2. answer_arg \in CloseAnswers
  <2>1. CASE close_outcome.code = 1005
    BY <2>1 DEF answer_arg, CloseAnswers
  <2>2. CASE close_outcome.code # 1005
    <3>1. close_outcome.code \in AnyCode
      BY <1>1, <2>2, CodeIsValid
    <3> QED BY <2>2, <3>1 DEF answer_arg, CloseAnswers
  <2> QED BY <2>1, <2>2
<1> QED BY <1>1, <1>2 DEF OtherActs

\* A ping is answered by cws_pong with its own length, which the receiver has checked.
LEMMA PongActs ==
  ASSUME RP!ReceiverInv, ping_answered
  PROVE  /\ Len(D!control_bytes) \in AnyPing
         /\ Q!cws_pong(Len(D!control_bytes))
<1>1. Q!cws_pong(Len(D!control_bytes))
  BY DEF ping_answered
<1>2. frame.is_control /\ Len(D!control_bytes) = frame.payload_len
  BY DEF ping_answered, D!control_frame_handled, D!control_dispatched, D!InControl
<1>3. frame.payload_len \in AnyPing
  <2>1. frame.payload_len \in Nat /\ frame.payload_len <= 125
    BY <1>2 DEF RP!ReceiverInv, RP!RecvInv, RP!FrameIsValid, RP!WS_CTL_PAYLOAD_MAX
  <2> QED BY <2>1 DEF AnyPing, WS_CTL_PAYLOAD_MAX
<1>4. Len(D!control_bytes) \in AnyPing
  BY <1>2, <1>3
<1> QED BY <1>1, <1>4

\* Every other step of a connection is one of the sending side, or leaves it alone.
LEMMA OtherSteps ==
  ASSUME RedirectionKnown, [Next]_vars
  PROVE  ping_answered \/ OtherActs \/ UNCHANGED Q!vars
<1>1. ASSUME UNCHANGED <<header_vars, queue_vars>> PROVE UNCHANGED Q!vars
  BY <1>1 DEF header_vars, queue_vars, Q!vars
<1>2. CASE header_line \/ headers_end \/ curl_acts
  <2>1. Q!Idle /\ UNCHANGED queue_vars /\ HeaderStep
    BY <1>2, ConnectionAssumption DEF header_line, headers_end, curl_acts, HeaderStep, Quiet
  <2> QED BY <2>1, HeaderActs
<1>3. CASE curl_reads \/ sending_loop \/ application_calls
  BY <1>3 DEF curl_reads, sending_loop, application_calls, OtherActs
<1>4. CASE curl_delivers \/ assembling \/ pong_received \/ data_received \/ on_close_called
  <2>1. UNCHANGED <<header_vars, queue_vars>>
    BY <1>4 DEF curl_delivers, assembling, pong_received, data_received, on_close_called
  <2> QED BY <1>1, <2>1
<1>5. CASE breach_found \/ close_answered
  BY <1>5, BreachActs, AnswerActs
<1>6. CASE callback_return
  <2>1. CASE UNCHANGED <<header_vars, queue_vars>>
    BY <1>1, <2>1
  <2>2. CASE \E rv \in CallbackResults : Q!process_rv(rv)
    BY <2>2 DEF OtherActs, Q!Call
  <2> QED BY <1>6, <2>1, <2>2 DEF callback_return
<1>7. CASE Terminated \/ UNCHANGED vars
  <2>1. UNCHANGED <<header_vars, queue_vars>>
    BY <1>7 DEF Terminated, vars
  <2> QED BY <1>1, <2>1
<1> QED BY <1>2, <1>3, <1>4, <1>5, <1>6, <1>7 DEF Next, receiving_loop

\* So is every step.
LEMMA SenderSteps ==
  ASSUME RedirectionKnown, RP!ReceiverInv, [Next]_vars
  PROVE  SenderActs \/ UNCHANGED Q!vars
BY OtherSteps, PongActs DEF SenderActs

\* The flag of the response headers is known in every state.
LEMMA RedirectionAlwaysKnown == Spec => []RedirectionKnown
<1>1. Init => RedirectionKnown
  BY RedirectionKnownInit DEF Init
<1>2. RedirectionKnown /\ [Next]_vars => RedirectionKnown'
  BY HeaderOrNot, RedirectionKnownNext DEF vars
<1> QED BY <1>1, <1>2, PTL DEF Spec

\* The sending side behaves as module SendQueue allows: the receiver, the response
\* headers and the callbacks of the application do to it nothing that the peer and
\* the application of that module do not do, if its PeerCodes and PingLens leave out
\* no code and no length that a frame can have.
THEOREM SenderIsSendQueue ==
  ASSUME AnyCode \subseteq PeerCodes, AnyPing \subseteq PingLens
  PROVE  Spec => ImplementsSendQueue
<1>1. Init => Q!Init
  BY DEF Init
<1>2. CloseAnswers \subseteq Q!ErrorCloseArgs
  BY DEF CloseAnswers, Q!ErrorCloseArgs
<1>3. SenderActs => Q!Next
  BY <1>2 DEF SenderActs, OtherActs, Q!Next, Q!Peer
<1>4. RedirectionKnown /\ RP!ReceiverInv /\ [Next]_vars => [UNCHANGED Q!vars \/ Q!Next]_Q!vars
  BY <1>3, SenderSteps
<1> QED BY <1>1, <1>4, RedirectionAlwaysKnown, ReceiverInvariant, PTL DEF Spec, ImplementsSendQueue

\* Both instances of the sender put the same frame into the queue, and wake curl alike.
LEMMA SameQueueing ==
  /\ \A opcode, fin, n, rv :
       Q!queue_frame(opcode, fin, n, rv) <=> WP!queue_frame(opcode, fin, n, rv)
  /\ Q!unpause_sending <=> WP!unpause_sending
  /\ \A rv : Q!unpause_if_queued(rv) <=> WP!unpause_if_queued(rv)
<1>1. \A opcode : Q!buffer_size(opcode) = WP!buffer_size(opcode)
  <2>1. Q!ControlOpcodes = WP!ControlOpcodes
    BY DEF Q!ControlOpcodes, WP!ControlOpcodes, Q!WS_OPCODE_CLOSE, WP!WS_OPCODE_CLOSE,
           Q!WS_OPCODE_PING, WP!WS_OPCODE_PING, Q!WS_OPCODE_PONG, WP!WS_OPCODE_PONG
  <2>2. /\ Q!WS_CTL_FRAME_MAX = WP!WS_CTL_FRAME_MAX
        /\ Q!WS_FRAME_HEADER_MAX = WP!WS_FRAME_HEADER_MAX
    BY DEF Q!WS_CTL_FRAME_MAX, WP!WS_CTL_FRAME_MAX, Q!WS_FRAME_HEADER_MAX, WP!WS_FRAME_HEADER_MAX,
           Q!WS_CTL_PAYLOAD_MAX, WP!WS_CTL_PAYLOAD_MAX, Q!WS_FRAME_HEADER_MIN,
           WP!WS_FRAME_HEADER_MIN, Q!WS_FRAME_HEADER_MASK, WP!WS_FRAME_HEADER_MASK
  <2> QED BY <2>1, <2>2 DEF Q!buffer_size, WP!buffer_size
<1>2. \A n, size : Q!frame_encode(n, size) = WP!frame_encode(n, size)
  BY DEF Q!frame_encode, WP!frame_encode, Q!encoded_header_len, WP!encoded_header_len,
         Q!WS_FRAME_HEADER_MIN, WP!WS_FRAME_HEADER_MIN, Q!WS_FRAME_HEADER_MAX,
         WP!WS_FRAME_HEADER_MAX, Q!WS_FRAME_HEADER_MASK, WP!WS_FRAME_HEADER_MASK,
         Q!UINT16_MAX, WP!UINT16_MAX
<1>3. \A opcode, fin, n : Q!new_buf(opcode, fin, n) = WP!new_buf(opcode, fin, n)
  BY <1>1, <1>2 DEF Q!new_buf, WP!new_buf, Q!WS_OPCODE_CLOSE, WP!WS_OPCODE_CLOSE
<1>4. \A q, b : Q!enqueue(q, b) = WP!enqueue(q, b)
  BY DEF Q!enqueue, WP!enqueue
<1>5. \A opcode, fin, n, rv :
        Q!queue_frame(opcode, fin, n, rv) <=> WP!queue_frame(opcode, fin, n, rv)
  BY <1>3, <1>4 DEF Q!queue_frame, WP!queue_frame
<1>6. Q!unpause_sending <=> WP!unpause_sending
  BY DEF Q!unpause_sending, WP!unpause_sending, Q!curl_easy_pause, WP!curl_easy_pause
<1>7. \A rv : Q!unpause_if_queued(rv) <=> WP!unpause_if_queued(rv)
  BY <1>6 DEF Q!unpause_if_queued, WP!unpause_if_queued
<1> QED BY <1>5, <1>6, <1>7

\* Both instances accept and refuse the same frames.
LEMMA SameFrames ==
  /\ \A opcode, u, n, rv : Q!control_frame(opcode, u, n, rv) <=> WP!control_frame(opcode, u, n, rv)
  /\ \A options, n, rv : Q!frame_sender_data(options, n, rv) <=> WP!frame_sender_data(options, n, rv)
  /\ \A a, received, rv : Q!close_frame(a, received, rv) <=> WP!close_frame(a, received, rv)
<1>1. \A opcode, u, n, rv :
        Q!control_frame(opcode, u, n, rv) <=> WP!control_frame(opcode, u, n, rv)
  <2>1. Q!WS_CTL_PAYLOAD_MAX = WP!WS_CTL_PAYLOAD_MAX
    BY DEF Q!WS_CTL_PAYLOAD_MAX, WP!WS_CTL_PAYLOAD_MAX
  <2>2. \A opcode, n, rv :
          Q!queue_frame(opcode, TRUE, n, rv) <=> WP!queue_frame(opcode, TRUE, n, rv)
    BY SameQueueing
  <2> QED BY <2>1, <2>2 DEF Q!control_frame, WP!control_frame
<1>2. \A options : Q!data_refusal(options) = WP!data_refusal(options)
  BY DEF Q!data_refusal, WP!data_refusal, Q!NONCTRL_MASK, WP!NONCTRL_MASK, Q!ALLOWED, WP!ALLOWED,
         Q!DataTypes, WP!DataTypes, Q!stream_open, WP!stream_open
<1>3. \A options : Q!data_opcode(options) = WP!data_opcode(options)
  BY DEF Q!data_opcode, WP!data_opcode, Q!WS_OPCODE_CONTINUATION, WP!WS_OPCODE_CONTINUATION,
         Q!WS_OPCODE_TEXT, WP!WS_OPCODE_TEXT, Q!WS_OPCODE_BINARY, WP!WS_OPCODE_BINARY
<1>4. \A options, n, rv :
        Q!frame_sender_data(options, n, rv) <=> WP!frame_sender_data(options, n, rv)
  BY <1>2, <1>3, SameQueueing DEF Q!frame_sender_data, WP!frame_sender_data
<1>5. \A a : /\ Q!close_code(a) = WP!close_code(a)
             /\ Q!close_payload_len(a) = WP!close_payload_len(a)
             /\ Q!urgent(a) = WP!urgent(a)
  BY DEF Q!close_code, WP!close_code, Q!close_payload_len, WP!close_payload_len, Q!urgent, WP!urgent
<1>6. \A a : Q!close_refusal(a) = WP!close_refusal(a)
  BY <1>5 DEF Q!close_refusal, WP!close_refusal, Q!WS_CTL_PAYLOAD_MAX, WP!WS_CTL_PAYLOAD_MAX,
              Q!is_close_code_valid, WP!is_close_code_valid
<1>7. \A a, received, rv : Q!close_frame(a, received, rv) <=> WP!close_frame(a, received, rv)
  BY <1>1, <1>5, <1>6 DEF Q!close_frame, WP!close_frame, Q!WS_OPCODE_CLOSE, WP!WS_OPCODE_CLOSE
<1> QED BY <1>1, <1>4, <1>7

\* The two instances of the sender take the same steps, but that PeerCodes and PingLens
\* restrict the peer in only one of them.
LEMMA SameSender ==
  /\ Q!Init => WP!Init
  /\ UNCHANGED Q!vars => UNCHANGED WP!vars
  /\ \A n : Q!cws_pong(n) <=> WP!cws_pong(n)
  /\ OtherActs => WP!OtherNext
  /\ SenderActs => WP!Next
<1>1. Q!Init => WP!Init
  BY DEF Q!Init, WP!Init, Q!NoFill, WP!NoFill, Q!NoBlk, WP!NoBlk
<1>2. UNCHANGED Q!vars => UNCHANGED WP!vars
  BY DEF Q!vars, WP!vars
<1>3. Q!Call <=> WP!Call
  <2>1. \A opcode, n : Q!control_call(opcode, n) <=> WP!control_call(opcode, n)
    BY SameFrames, SameQueueing
       DEF Q!control_call, WP!control_call, Q!Idle, WP!Idle, Q!Room, WP!Room, Q!CWScode, WP!CWScode
  <2>2. \A n : (Q!cws_ping(n) <=> WP!cws_ping(n)) /\ (Q!cws_pong(n) <=> WP!cws_pong(n))
    BY <2>1 DEF Q!cws_ping, WP!cws_ping, Q!cws_pong, WP!cws_pong, Q!WS_OPCODE_PING,
                WP!WS_OPCODE_PING, Q!WS_OPCODE_PONG, WP!WS_OPCODE_PONG
  <2>3. \A a : Q!cws_close(a) <=> WP!cws_close(a)
    BY SameFrames, SameQueueing
       DEF Q!cws_close, WP!cws_close, Q!Idle, WP!Idle, Q!Room, WP!Room, Q!CWScode, WP!CWScode
  <2>4. \A rv : Q!process_rv(rv) <=> WP!process_rv(rv)
    BY <2>3 DEF Q!process_rv, WP!process_rv, Q!is_close_code_valid, WP!is_close_code_valid
  <2>5. \A type, b : Q!cws_send_blk(type, b) <=> WP!cws_send_blk(type, b)
    BY DEF Q!cws_send_blk, WP!cws_send_blk, Q!block_refusal, WP!block_refusal, Q!Idle, WP!Idle,
           Q!Room, WP!Room, Q!api, WP!api
  <2>6. \A type, info, b : /\ Q!stream_result(type, info, b) = WP!stream_result(type, info, b)
                           /\ Q!stream_options(type, info) = WP!stream_options(type, info)
                           /\ Q!stream_len(type, b) = WP!stream_len(type, b)
    BY DEF Q!stream_result, WP!stream_result, Q!stream_options, WP!stream_options, Q!stream_len,
           WP!stream_len
  <2>7. \A type, info, b : Q!cws_send_strm(type, info, b) <=> WP!cws_send_strm(type, info, b)
    BY <2>6, SameFrames DEF Q!cws_send_strm, WP!cws_send_strm, Q!Idle, WP!Idle, Q!Room, WP!Room,
                            Q!CWScode, WP!CWScode
  <2> QED BY <2>2, <2>3, <2>4, <2>5, <2>7 DEF Q!Call, WP!Call
<1>4. Q!data_block_sender <=> WP!data_block_sender
  BY SameFrames DEF Q!data_block_sender, WP!data_block_sender, Q!CWScode, WP!CWScode, Q!NoBlk, WP!NoBlk
<1>5. Q!send_cb <=> WP!send_cb
  BY DEF Q!send_cb, WP!send_cb, Q!send_cb_redirected, WP!send_cb_redirected, Q!send_cb_closed,
         WP!send_cb_closed, Q!send_cb_pause, WP!send_cb_pause, Q!send_cb_fill, WP!send_cb_fill,
         Q!curl_reads, WP!curl_reads, Q!vars, WP!vars, Q!READY_TO_CLOSE, WP!READY_TO_CLOSE, Q!api,
         WP!api, Q!Idle, WP!Idle
<1>6. Q!fill_step <=> WP!fill_step
  BY DEF Q!fill_step, WP!fill_step, Q!after_sending, WP!after_sending, Q!next_data_to_send,
         WP!next_data_to_send, Q!handed_over, WP!handed_over
<1>7. Q!fill_return <=> WP!fill_return
  BY DEF Q!fill_return, WP!fill_return, Q!NoFill, WP!NoFill, Q!api, WP!api
<1>8. ASSUME NEW n PROVE Q!cws_pong(n) <=> WP!cws_pong(n)
  BY SameFrames, SameQueueing
     DEF Q!cws_pong, WP!cws_pong, Q!control_call, WP!control_call, Q!WS_OPCODE_PONG,
         WP!WS_OPCODE_PONG, Q!Idle, WP!Idle, Q!Room, WP!Room, Q!CWScode, WP!CWScode
<1>9. ASSUME NEW a PROVE Q!_error_close(a) <=> WP!_error_close(a)
  BY SameFrames, SameQueueing
     DEF Q!_error_close, WP!_error_close, Q!Idle, WP!Idle, Q!CWScode, WP!CWScode
<1>10. ASSUME NEW b PROVE Q!header_redirection(b) <=> WP!header_redirection(b)
  BY DEF Q!header_redirection, WP!header_redirection, Q!Idle, WP!Idle, Q!api, WP!api
<1>11. CloseAnswers = WP!ErrorCloseArgs
  BY DEF CloseAnswers, Q!PeerCloseArg, WP!PeerCloseArg, Q!NoCodeCloseArg, WP!NoCodeCloseArg,
         Q!BreachCloseArg, WP!BreachCloseArg, Q!BadPayloadCloseArg, WP!BadPayloadCloseArg,
         WP!ErrorCloseArgs
<1>12. OtherActs => WP!OtherNext
  BY <1>3, <1>4, <1>5, <1>6, <1>7, <1>9, <1>10, <1>11 DEF OtherActs, WP!OtherNext
<1>13. SenderActs => WP!Next
  BY <1>8, <1>12 DEF SenderActs, WP!OtherNext, WP!Next, WP!Peer
<1> QED BY <1>1, <1>2, <1>8, <1>12, <1>13

\* What module SendQueue assumes of the application.
LEMMA SenderFacts ==
  /\ /\ max_payload_size \in Nat \ {0}
     /\ BufferSizes \subseteq Nat \ {0}
     /\ CtlLens \subseteq Nat
     /\ AnyPing \subseteq Nat
     /\ MaxFrames \in Nat
  /\ /\ CloseArgs \subseteq WP!CloseArg
     /\ \A code \in AnyCode : WP!is_close_code_valid(code)
     /\ CallbackResults \subseteq Int
     /\ Blocks \subseteq WP!AppBuffer
     /\ Pieces \subseteq WP!AppBuffer
     /\ Infos \subseteq SUBSET WP!OptionBits
     /\ MallocMayFail \in BOOLEAN
     /\ TRUE \in BOOLEAN
<1>1. Q!CloseArg = WP!CloseArg
  BY DEF Q!CloseArg, WP!CloseArg
<1>2. Q!AppBuffer = WP!AppBuffer
  BY DEF Q!AppBuffer, WP!AppBuffer
<1>3. Q!OptionBits = WP!OptionBits
  BY DEF Q!OptionBits, WP!OptionBits, Q!ALLOWED, WP!ALLOWED, Q!NONCTRL_MASK, WP!NONCTRL_MASK
<1>4. \A code \in AnyCode : WP!is_close_code_valid(code)
  BY DEF AnyCode, is_close_code_valid, WP!is_close_code_valid
<1>5. AnyPing \subseteq Nat
  BY DEF AnyPing, WS_CTL_PAYLOAD_MAX
<1> QED BY <1>1, <1>2, <1>3, <1>4, <1>5, SenderAssumption

\* The sender of a connection is one of which the proofs of SendQueue speak.
LEMMA SenderIsProved == Spec => WP!Spec
<1>1. Init => WP!Init
  BY SameSender DEF Init
<1>2. RedirectionKnown /\ RP!ReceiverInv /\ [Next]_vars => [WP!Next]_WP!vars
  BY SameSender, SenderSteps
<1> QED BY <1>1, <1>2, RedirectionAlwaysKnown, ReceiverInvariant, PTL DEF Spec, WP!Spec

\* Whatever the peer sends, answers in between and redirections, a frame goes out in one
\* piece.
THEOREM FramesOfConnectionAreWhole == Spec => []Q!FramesWholeOnWire
<1>1. Spec => []WP!FramesWholeOnWire
  BY SenderIsProved, SenderFacts, WP!FramesAreWhole
<1>2. WP!FramesWholeOnWire => Q!FramesWholeOnWire
  BY DEF WP!FramesWholeOnWire, Q!FramesWholeOnWire
<1> QED BY <1>1, <1>2, PTL

\* Nothing is sent behind a close, whichever side began to close.
THEOREM CloseOfConnectionIsLast == Spec => []Q!NothingAfterClose
<1>1. Spec => []WP!NothingAfterClose
  BY SenderIsProved, SenderFacts, WP!NothingFollowsClose
<1>2. WP!NothingAfterClose => Q!NothingAfterClose
  BY DEF WP!NothingAfterClose, Q!NothingAfterClose, WP!WS_OPCODE_CLOSE, Q!WS_OPCODE_CLOSE
<1> QED BY <1>1, <1>2, PTL

\* No frame that a callback of the application or a ping queues finds curl asleep for
\* good.
THEOREM ConnectionIsWoken == Spec => []Q!NoLostWakeup
<1>1. Spec => []WP!NoLostWakeup
  BY SenderIsProved, SenderFacts, WP!WakeupIsNotLost
<1>2. WP!NoLostWakeup => Q!NoLostWakeup
  BY DEF WP!NoLostWakeup, Q!NoLostWakeup, WP!READY_TO_CLOSE, Q!READY_TO_CLOSE
<1> QED BY <1>1, <1>2, PTL

\* If every stream piece fits in a frame, curl sees the end of what is sent only when a
\* whole close frame has left and the peer has closed, or broken the protocol: the two
\* halves meet in close_state.
THEOREM EofIsAfterBothCloses ==
  ASSUME Q!PiecesFit
  PROVE  Spec => []EofEndsBothDirections
<1>1. WP!PiecesFit
  BY DEF Q!PiecesFit, WP!PiecesFit, Q!frame_encode, WP!frame_encode, Q!WS_FRAME_HEADER_MAX,
              WP!WS_FRAME_HEADER_MAX, Q!WS_FRAME_HEADER_MIN, WP!WS_FRAME_HEADER_MIN,
              Q!WS_FRAME_HEADER_MASK, WP!WS_FRAME_HEADER_MASK, Q!encoded_header_len,
              WP!encoded_header_len, Q!UINT16_MAX, WP!UINT16_MAX
<1>2. Spec => []WP!EofOnlyWhenClosed
  BY <1>1, SenderIsProved, SenderFacts, WP!EofIsTheClose
<1>3. Spec => []WP!CloseLeft
  BY SenderIsProved, SenderFacts, WP!CloseWasSent
<1>4. WP!EofOnlyWhenClosed /\ WP!CloseLeft /\ RP!ReceiverInv => EofEndsBothDirections
  <2> SUFFICES ASSUME WP!EofOnlyWhenClosed, WP!CloseLeft, RP!ReceiverInv, curl.eof
               PROVE  EofEndsBothDirections
    BY DEF EofEndsBothDirections
  <2>1. "SENT" \in close_state /\ "RECEIVED" \in close_state
    BY DEF WP!EofOnlyWhenClosed
  <2>2. /\ wire # << >>
        /\ wire[Len(wire)].opcode = WS_OPCODE_CLOSE
        /\ wire[Len(wire)].n = wire[Len(wire)].written
    BY <2>1 DEF WP!CloseLeft, WP!WS_OPCODE_CLOSE, WS_OPCODE_CLOSE
  <2>3. out \in Seq(RP!Item) /\ RP!EndIsLast
    BY DEF RP!ReceiverInv, RP!ToldInv
  <2>4. PICK i \in 1..Len(out) : out[i].fn \in {"on_close", "error"}
    BY <2>1, <2>3 DEF RP!EndIsLast
  <2>5. i = Len(out)
    BY <2>3, <2>4 DEF RP!EndIsLast
  <2>6. out # << >> /\ out[Len(out)].fn \in {"on_close", "error"}
    BY <2>3, <2>4, <2>5
  <2> QED BY <2>2, <2>6 DEF EofEndsBothDirections
<1> QED BY <1>2, <1>3, <1>4, ReceiverInvariant, PTL

-------------------------------------------------------------------------------
(* What Joined makes of its parts *)

\* What is joined, here the numbers of bytes of pongs.
Part == Seq(Nat)

LEMMA Parts ==
  /\ << >> \in Part
  /\ \A s, t \in Part : s \o t \in Part
  /\ \A s \in Part : s \o << >> = s
BY DEF Part

\* From step to step up to n.
LEMMA UpTo ==
  ASSUME NEW T, NEW n \in Nat, 0 \in T, \A k \in Nat : k < n /\ k \in T => k + 1 \in T
  PROVE  \A k \in 0..n : k \in T
<1> DEFINE U == {k \in Nat : k <= n /\ k \notin T}
<1>1. ASSUME U # {} PROVE FALSE
  <2>1. PICK m \in U : \A y \in U : m <= y
    <3>1. U \subseteq Nat
      OBVIOUS
    <3> HIDE DEF U
    <3> QED BY <1>1, <3>1, ReceiverFacts, RP!LeastNumber
  <2>2. m \in Nat /\ m <= n /\ m \notin T /\ m # 0
    OBVIOUS
  <2>3. m - 1 \in Nat /\ m - 1 < n /\ m - 1 <= n /\ ~(m <= m - 1) /\ (m - 1) + 1 = m
    BY <2>2
  <2>4. m - 1 \notin U
    <3> HIDE DEF U
    <3> QED BY <2>1, <2>3
  <2>5. m - 1 \in T
    BY <2>3, <2>4
  <2> QED BY <2>2, <2>3, <2>5
<1> QED BY <1>1

\* The first k parts joined, from those before.
JoinStep(p, f, k) == IF k = 0 THEN << >> ELSE f[k - 1] \o p[k]

\* Joined is well defined.
LEMMA JoinedIsDefined ==
  ASSUME NEW p, NEW n \in Nat
  PROVE  \E f : f = [k \in 0..n |-> JoinStep(p, f, k)]
<1> DEFINE T == {m \in Nat : \E f : f = [k \in 0..m |-> JoinStep(p, f, k)]}
<1>1. 0 \in T
  <2> DEFINE f == [k \in 0..0 |-> << >>]
  <2>1. \A k \in 0..0 : JoinStep(p, f, k) = << >>
    BY DEF JoinStep
  <2>2. f = [k \in 0..0 |-> JoinStep(p, f, k)]
    BY <2>1
  <2> HIDE DEF f
  <2> QED BY <2>2
<1>2. ASSUME NEW m \in Nat, m \in T PROVE m + 1 \in T
  <2>1. PICK f : f = [k \in 0..m |-> JoinStep(p, f, k)]
    BY <1>2
  <2>2. \A k \in 0..m : f[k] = JoinStep(p, f, k)
    BY <2>1
  <2> DEFINE h == [k \in 0..m + 1 |-> JoinStep(p, f, k)]
  <2>3. (\A k \in 0..m + 1 : h[k] = JoinStep(p, f, k)) /\ h = [k \in 0..m + 1 |-> h[k]]
    OBVIOUS
  <2> HIDE DEF h
  <2>4. \A k \in 0..m : h[k] = f[k]
    BY <2>2, <2>3
  <2>5. ASSUME NEW k \in 0..m + 1 PROVE h[k] = JoinStep(p, h, k)
    <3>1. CASE k = 0
      BY <2>3, <3>1 DEF JoinStep
    <3>2. CASE k # 0
      <4>1. k - 1 \in 0..m
        BY <3>2
      <4> QED BY <2>3, <2>4, <3>2, <4>1 DEF JoinStep
    <3> QED BY <3>1, <3>2
  <2>6. h = [k \in 0..m + 1 |-> JoinStep(p, h, k)]
    BY <2>3, <2>5
  <2> QED BY <2>6
<1>3. \A k \in 0..n : k \in T
  <2> HIDE DEF T
  <2> QED BY <1>1, <1>2, UpTo
<1> QED BY <1>3

\* f gives what the first parts of p make.
Joins(p, f) ==
  /\ f[0] = << >>
  /\ \A k \in Nat : k < Len(p) => f[k + 1] = f[k] \o p[k + 1]
  /\ \A k \in 0..Len(p) : f[k] \in Part

\* Joined is what all of them make.
LEMMA JoinedIs ==
  ASSUME NEW p \in Seq(Part)
  PROVE  \E f : Joins(p, f) /\ Joined(p) = f[Len(p)]
<1> DEFINE f == CHOOSE f : f = [k \in 0..Len(p) |-> JoinStep(p, f, k)]
<1>1. Len(p) \in Nat /\ \A k \in 1..Len(p) : p[k] \in Part
  OBVIOUS
<1>2. f = [k \in 0..Len(p) |-> JoinStep(p, f, k)]
  BY <1>1, JoinedIsDefined
<1>3. Joined(p) = f[Len(p)]
  BY DEF Joined, JoinStep
<1> HIDE DEF f
<1>4. \A k \in 0..Len(p) : f[k] = JoinStep(p, f, k)
  BY <1>2
<1>5. PICK n \in Nat : n = Len(p)
  BY <1>1
<1>6. PICK g : g = f
  OBVIOUS
<1>7. g[0] = << >>
  BY <1>4, <1>5, <1>6 DEF JoinStep
<1>8. ASSUME NEW k \in Nat, k < n PROVE g[k + 1] = g[k] \o p[k + 1]
  <2>1. k + 1 \in 0..Len(p) /\ k + 1 # 0 /\ (k + 1) - 1 = k
    BY <1>5, <1>8
  <2>2. f[k + 1] = JoinStep(p, f, k + 1)
    BY <1>4, <2>1, Zenon
  <2> QED BY <1>5, <1>6, <2>1, <2>2 DEF JoinStep
<1>9. \A k \in 0..n : g[k] \in Part
  <2> DEFINE T == {k \in Nat : g[k] \in Part}
  <2>1. 0 \in T
    BY <1>7, Parts
  <2>2. ASSUME NEW k \in Nat, k < n, k \in T PROVE k + 1 \in T
    <3>1. k + 1 \in 1..Len(p) /\ k + 1 \in Nat
      BY <1>5, <2>2
    <3>2. g[k] \in Part /\ p[k + 1] \in Part
      BY <1>1, <2>2, <3>1
    <3>3. g[k + 1] = g[k] \o p[k + 1]
      BY <1>8, <2>2
    <3>4. g[k + 1] \in Part
      BY <3>2, <3>3, Parts, Zenon
    <3> QED BY <3>1, <3>4
  <2>3. \A k \in 0..n : k \in T
    <3> HIDE DEF T
    <3> QED BY <1>5, <2>1, <2>2, UpTo
  <2> QED BY <2>3
<1>10. Joins(p, g)
  BY <1>5, <1>7, <1>8, <1>9 DEF Joins
<1> QED BY <1>3, <1>5, <1>6, <1>10

\* The first n parts of both are the same.
Alike(p, f, q, g, n) ==
  /\ Joins(p, f) /\ Joins(q, g)
  /\ Len(p) \in Nat /\ Len(q) \in Nat
  /\ n <= Len(p) /\ n <= Len(q)
  /\ \A i \in 1..n : q[i] = p[i]

\* They make the same.
LEMMA SameJoins ==
  ASSUME NEW p, NEW q, NEW f, NEW g, NEW n \in Nat, Alike(p, f, q, g, n)
  PROVE  \A k \in 0..n : g[k] = f[k]
<1> DEFINE T == {k \in Nat : g[k] = f[k]}
<1>1. 0 \in T
  BY DEF Alike, Joins
<1>2. ASSUME NEW k \in Nat, k < n, k \in T PROVE k + 1 \in T
  <2>1. k < Len(p) /\ k < Len(q) /\ k + 1 \in 1..n
    BY <1>2 DEF Alike
  <2>2. f[k + 1] = f[k] \o p[k + 1] /\ g[k + 1] = g[k] \o q[k + 1]
    BY <2>1 DEF Alike, Joins
  <2>3. q[k + 1] = p[k + 1]
    BY <2>1 DEF Alike
  <2>4. g[k + 1] = f[k + 1] /\ k + 1 \in Nat
    <3>1. g[k] = f[k]
      BY <1>2
    <3> QED BY <2>2, <2>3, <3>1
  <2> QED BY <2>4
<1>3. \A k \in 0..n : k \in T
  <2> HIDE DEF T
  <2> QED BY <1>1, <1>2, UpTo
<1> QED BY <1>3

\* A sequence is a prefix of itself and of what is longer.
LEMMA Prefixes ==
  /\ \A s \in Seq(Nat) : IsPrefixOf(s, s)
  /\ \A s, t, x \in Seq(Nat) : IsPrefixOf(s, t) => IsPrefixOf(s, t \o x)
  /\ \A s, t, u \in Seq(Nat) : IsPrefixOf(s, t) /\ IsPrefixOf(t, u) => IsPrefixOf(s, u)
<1>1. ASSUME NEW s \in Seq(Nat), NEW t \in Seq(Nat)
      PROVE  IsPrefixOf(s, t) <=> Len(s) <= Len(t) /\ \A i \in 1..Len(s) : s[i] = t[i]
  <2>1. Len(s) \in Nat /\ Len(t) \in Nat
    OBVIOUS
  <2>2. ASSUME Len(s) <= Len(t)
        PROVE  /\ SubSeq(t, 1, Len(s)) \in Seq(Nat) /\ Len(SubSeq(t, 1, Len(s))) = Len(s)
               /\ \A i \in 1..Len(s) : SubSeq(t, 1, Len(s))[i] = t[i]
    BY <2>1, <2>2
  <2> QED BY <2>1, <2>2 DEF IsPrefixOf
<1>2. ASSUME NEW s \in Seq(Nat) PROVE IsPrefixOf(s, s)
  BY <1>1
<1>3. ASSUME NEW s \in Seq(Nat), NEW t \in Seq(Nat), NEW x \in Seq(Nat), IsPrefixOf(s, t)
      PROVE  IsPrefixOf(s, t \o x)
  <2>1. /\ t \o x \in Seq(Nat) /\ Len(t \o x) = Len(t) + Len(x)
        /\ \A i \in 1..Len(t) : (t \o x)[i] = t[i]
        /\ Len(t) \in Nat /\ Len(x) \in Nat /\ Len(s) \in Nat
    OBVIOUS
  <2>2. Len(s) <= Len(t) /\ \A i \in 1..Len(s) : s[i] = t[i]
    BY <1>1, <1>3
  <2>3. Len(s) <= Len(t \o x) /\ \A i \in 1..Len(s) : i \in 1..Len(t)
    BY <2>1, <2>2
  <2>4. \A i \in 1..Len(s) : s[i] = (t \o x)[i]
    BY <2>1, <2>2, <2>3
  <2> QED BY <1>1, <2>1, <2>3, <2>4
<1>4. ASSUME NEW s \in Seq(Nat), NEW t \in Seq(Nat), NEW u \in Seq(Nat),
             IsPrefixOf(s, t), IsPrefixOf(t, u)
      PROVE  IsPrefixOf(s, u)
  <2>1. /\ Len(s) <= Len(t) /\ \A i \in 1..Len(s) : s[i] = t[i]
        /\ Len(t) <= Len(u) /\ \A i \in 1..Len(t) : t[i] = u[i]
    BY <1>1, <1>4
  <2>2. Len(s) \in Nat /\ Len(t) \in Nat /\ Len(u) \in Nat
    OBVIOUS
  <2>3. Len(s) <= Len(u) /\ \A i \in 1..Len(s) : i \in 1..Len(t)
    BY <2>1, <2>2
  <2>4. \A i \in 1..Len(s) : s[i] = u[i]
    BY <2>1, <2>3
  <2> QED BY <1>1, <2>3, <2>4
<1> QED BY <1>2, <1>3, <1>4

\* More parts make more, and as much if they are empty.
LEMMA JoinedMore ==
  ASSUME NEW p \in Seq(Part), NEW q \in Seq(Part), Len(p) <= Len(q),
         \A i \in 1..Len(p) : q[i] = p[i]
  PROVE  /\ IsPrefixOf(Joined(p), Joined(q))
         /\ (\A i \in Len(p) + 1..Len(q) : q[i] = << >>) => Joined(q) = Joined(p)
<1>1. PICK f : Joins(p, f) /\ Joined(p) = f[Len(p)]
  BY JoinedIs
<1>2. PICK g : Joins(q, g) /\ Joined(q) = g[Len(q)]
  BY JoinedIs
<1>3. /\ Len(p) \in Nat /\ Len(q) \in Nat /\ Len(p) <= Len(p)
      /\ \A i \in 1..Len(q) : q[i] \in Part
  OBVIOUS
<1>4. PICK m \in Nat, n \in Nat : m = Len(p) /\ n = Len(q)
  BY <1>3
<1>5. g[m] = Joined(p) /\ g[m] \in Part /\ g[n] = Joined(q)
  <2>1. \A k \in 0..Len(p) : g[k] = f[k]
    <3>1. Alike(p, f, q, g, Len(p))
      BY <1>1, <1>2, <1>3 DEF Alike
    <3> QED BY <1>3, <3>1, SameJoins
  <2>2. m \in 0..Len(p) /\ m \in 0..Len(q)
    BY <1>3, <1>4
  <2> QED BY <1>1, <1>2, <1>4, <2>1, <2>2 DEF Joins
<1>6. ASSUME NEW k \in Nat, k < n - m
      PROVE  \E i \in m + 1..n : /\ g[m + (k + 1)] = g[m + k] \o q[i]
                                 /\ g[m + k] \in Part /\ q[i] \in Part
  <2>1. PICK j \in Nat : j = m + k
    OBVIOUS
  <2>2. /\ j < Len(q) /\ j + 1 = m + (k + 1) /\ j \in 0..Len(q)
        /\ j + 1 \in 1..Len(q) /\ j + 1 \in m + 1..n
    BY <1>3, <1>4, <1>6, <2>1
  <2>3. g[j + 1] = g[j] \o q[j + 1] /\ g[j] \in Part
    BY <1>2, <2>2 DEF Joins
  <2>4. q[j + 1] \in Part
    BY <1>3, <2>2
  <2> QED BY <2>1, <2>2, <2>3, <2>4, Zenon
<1>7. IsPrefixOf(g[m], g[n])
  <2> DEFINE T == {k \in Nat : IsPrefixOf(g[m], g[m + k])}
  <2>1. 0 \in T
    <3>1. m + 0 = m /\ 0 \in Nat
      BY <1>4
    <3>2. IsPrefixOf(g[m], g[m])
      BY <1>5, Prefixes DEF Part
    <3> QED BY <3>1, <3>2
  <2>2. ASSUME NEW k \in Nat, k < n - m, k \in T PROVE k + 1 \in T
    <3>1. PICK i : /\ g[m + (k + 1)] = g[m + k] \o q[i]
                   /\ g[m + k] \in Part /\ q[i] \in Part
      BY <1>6, <2>2
    <3>2. IsPrefixOf(g[m], g[m + k])
      BY <2>2
    <3>3. IsPrefixOf(g[m], g[m + k] \o q[i])
      BY <1>5, <3>1, <3>2, Prefixes, Zenon DEF Part
    <3>4. IsPrefixOf(g[m], g[m + (k + 1)]) /\ k + 1 \in Nat
      BY <3>1, <3>3
    <3> QED BY <3>4
  <2>3. \A k \in 0..n - m : k \in T
    <3>1. n - m \in Nat
      BY <1>3, <1>4
    <3> HIDE DEF T
    <3> QED BY <2>1, <2>2, <3>1, UpTo
  <2>4. n - m \in 0..n - m /\ m + (n - m) = n
    BY <1>3, <1>4
  <2>5. IsPrefixOf(g[m], g[m + (n - m)])
    BY <2>3, <2>4
  <2> QED BY <2>4, <2>5
<1>8. ASSUME \A i \in m + 1..n : q[i] = << >> PROVE g[n] = g[m]
  <2> DEFINE T == {k \in Nat : g[m + k] = g[m]}
  <2>1. 0 \in T
    <3>1. m + 0 = m /\ 0 \in Nat
      BY <1>4
    <3> QED BY <3>1
  <2>2. ASSUME NEW k \in Nat, k < n - m, k \in T PROVE k + 1 \in T
    <3>1. g[m + (k + 1)] = g[m + k] \o << >> /\ g[m + k] \in Part
      BY <1>6, <1>8, <2>2
    <3>2. g[m + k] = g[m] /\ k + 1 \in Nat
      BY <2>2
    <3>3. g[m + (k + 1)] = g[m]
      BY <3>1, <3>2, Parts, Zenon
    <3> QED BY <3>2, <3>3
  <2>3. \A k \in 0..n - m : k \in T
    <3>1. n - m \in Nat
      BY <1>3, <1>4
    <3> HIDE DEF T
    <3> QED BY <2>1, <2>2, <3>1, UpTo
  <2>4. n - m \in 0..n - m /\ m + (n - m) = n
    BY <1>3, <1>4
  <2>5. g[m + (n - m)] = g[m]
    BY <2>3, <2>4
  <2> QED BY <2>4, <2>5
<1> QED BY <1>4, <1>5, <1>7, <1>8

\* One part more.
LEMMA JoinedOneMore ==
  ASSUME NEW p \in Seq(Part), NEW q \in Seq(Part), Len(q) = Len(p) + 1,
         \A i \in 1..Len(p) : q[i] = p[i]
  PROVE  Joined(q) = Joined(p) \o q[Len(q)]
<1>1. PICK f : Joins(p, f) /\ Joined(p) = f[Len(p)]
  BY JoinedIs
<1>2. PICK g : Joins(q, g) /\ Joined(q) = g[Len(q)]
  BY JoinedIs
<1>3. /\ Len(p) \in Nat /\ Len(q) \in Nat /\ Len(p) < Len(q) /\ Len(p) <= Len(q)
      /\ Len(p) <= Len(p) /\ Len(p) \in 0..Len(p)
  OBVIOUS
<1>4. g[Len(p)] = f[Len(p)]
  <2>1. \A k \in 0..Len(p) : g[k] = f[k]
    <3>1. Alike(p, f, q, g, Len(p))
      BY <1>1, <1>2, <1>3 DEF Alike
    <3> QED BY <1>3, <3>1, SameJoins
  <2> QED BY <1>3, <2>1
<1>5. g[Len(p) + 1] = g[Len(p)] \o q[Len(p) + 1]
  BY <1>2, <1>3 DEF Joins
<1> QED BY <1>1, <1>2, <1>4, <1>5, Zenon

\* Its elements are of the same kind.
LEMMA JoinedIsPart ==
  ASSUME NEW p \in Seq(Part)
  PROVE  Joined(p) \in Part
<1>1. PICK f : Joins(p, f) /\ Joined(p) = f[Len(p)]
  BY JoinedIs
<1>2. Len(p) \in 0..Len(p)
  OBVIOUS
<1> QED BY <1>1, <1>2 DEF Joins

-------------------------------------------------------------------------------
(* Pings and their answers *)

\* A pong with a payload has more bytes than one without.
LEMMA PongBytes ==
  /\ \A n \in Nat : pong_bytes(n) \in Nat
  /\ \A n \in AnyPing : n # 0 => pong_bytes(n) # pong_bytes(0)
  /\ \A n \in Nat : pong_bytes(n) = WP!frame_encode(n, WP!WS_CTL_FRAME_MAX)
<1>1. \A n \in Nat : encoded_header_len(n) \in Nat /\ (n <= 125 => encoded_header_len(n) = 6)
  BY DEF encoded_header_len, WS_FRAME_HEADER_MIN, WS_FRAME_HEADER_MASK, WS_FRAME_HEADER_MAX,
         UINT16_MAX
<1>2. \A n \in Nat : pong_bytes(n) \in Nat
  BY <1>1 DEF pong_bytes, frame_encode
<1>3. \A n \in AnyPing : pong_bytes(n) = 6 + n
  BY <1>1 DEF AnyPing, pong_bytes, frame_encode, WS_CTL_FRAME_MAX, WS_FRAME_HEADER_MIN,
              WS_FRAME_HEADER_MASK, WS_CTL_PAYLOAD_MAX
<1>4. \A n \in AnyPing : n # 0 => pong_bytes(n) # pong_bytes(0)
  BY <1>3 DEF AnyPing, WS_CTL_PAYLOAD_MAX
<1>5. \A n \in Nat : pong_bytes(n) = WP!frame_encode(n, WP!WS_CTL_FRAME_MAX)
  BY DEF pong_bytes, frame_encode, WP!frame_encode, encoded_header_len, WP!encoded_header_len,
         WS_CTL_FRAME_MAX, WP!WS_CTL_FRAME_MAX, WS_FRAME_HEADER_MIN, WP!WS_FRAME_HEADER_MIN,
         WS_FRAME_HEADER_MASK, WP!WS_FRAME_HEADER_MASK, WS_CTL_PAYLOAD_MAX, WP!WS_CTL_PAYLOAD_MAX,
         WS_FRAME_HEADER_MAX, WP!WS_FRAME_HEADER_MAX, UINT16_MAX, WP!UINT16_MAX
<1> QED BY <1>2, <1>4, <1>5

\* The parts that frames have in the answers.
LEMMA PartsOfAnswers ==
  ASSUME NEW L \in Seq(WP!Frame)
  PROVE  \E p \in Seq(Part) : /\ Len(p) = Len(L) /\ Answers(L) = Joined(p)
                              /\ \A i \in 1..Len(L) : p[i] = pong_in(L[i])
<1> DEFINE p == [k \in 1..Len(L) |-> pong_in(L[k])]
<1>1. Len(L) \in Nat /\ \A i \in 1..Len(L) : L[i].written \in Nat
  <2>1. Len(L) \in Nat /\ \A i \in 1..Len(L) : L[i] \in WP!Frame
    OBVIOUS
  <2>2. \A f \in WP!Frame : f.written \in Nat
    BY DEF WP!Frame
  <2> QED BY <2>1, <2>2
<1>2. \A i \in 1..Len(L) : pong_in(L[i]) \in Part
  BY <1>1 DEF pong_in, Part
<1>3. p \in Seq(Part) /\ Len(p) = Len(L)
  BY <1>1, <1>2
<1>4. Answers(L) = Joined(p)
  BY DEF Answers
<1> QED BY <1>3, <1>4

\* A frame at the end adds its answer.
LEMMA AnswersAppended ==
  ASSUME NEW L \in Seq(WP!Frame), NEW f \in WP!Frame
  PROVE  /\ Answers(L) \in Part
         /\ Answers(Append(L, f)) = Answers(L) \o pong_in(f)
<1> DEFINE M == Append(L, f)
<1>0. /\ M \in Seq(WP!Frame) /\ Len(M) = Len(L) + 1 /\ M[Len(M)] = f /\ Len(M) \in 1..Len(M)
      /\ \A i \in 1..Len(L) : M[i] = L[i] /\ i \in 1..Len(M)
  OBVIOUS
<1> HIDE DEF M
<1>1. PICK p \in Seq(Part) : /\ Len(p) = Len(L) /\ Answers(L) = Joined(p)
                             /\ \A i \in 1..Len(L) : p[i] = pong_in(L[i])
  BY PartsOfAnswers
<1>2. PICK q \in Seq(Part) : /\ Len(q) = Len(M) /\ Answers(M) = Joined(q)
                             /\ \A i \in 1..Len(M) : q[i] = pong_in(M[i])
  BY <1>0, PartsOfAnswers
<1>3. Len(q) = Len(p) + 1 /\ q[Len(q)] = pong_in(f) /\ \A i \in 1..Len(p) : q[i] = p[i]
  BY <1>0, <1>1, <1>2
<1>4. Joined(q) = Joined(p) \o q[Len(q)]
  BY <1>3, JoinedOneMore
<1>5. Joined(p) \in Part
  BY JoinedIsPart
<1> QED BY <1>1, <1>2, <1>3, <1>4, <1>5 DEF M

\* The line has the answers that curl was handed and those that are queued.
LEMMA AnswersOfLine ==
  ASSUME WP!IInv
  PROVE  Answers(wire \o Q!unsent) = Answers(WP!Line)
<1>1. /\ WP!Line \in Seq(WP!Frame) /\ Len(WP!Line) \in Nat
      /\ Len(wire \o WP!unsent) = Len(WP!Line)
      /\ \A i \in 1..Len(WP!Line) : WP!Line[i] = WP!OutFrame((wire \o WP!unsent)[i])
  BY SenderFacts, WP!LineOfBoth
<1>2. Q!unsent = WP!unsent
  BY DEF Q!unsent, WP!unsent
<1>3. \A f : pong_in(WP!OutFrame(f)) = pong_in(f)
  BY DEF pong_in, WP!OutFrame
<1>4. \A i \in 1..Len(WP!Line) : pong_in(WP!Line[i]) = pong_in((wire \o WP!unsent)[i])
  BY <1>1, <1>3
<1>5. [k \in 1..Len(wire \o WP!unsent) |-> pong_in((wire \o WP!unsent)[k])]
        = [k \in 1..Len(WP!Line) |-> pong_in(WP!Line[k])]
  BY <1>1, <1>4
<1> QED BY <1>2, <1>5 DEF Answers

\* The pings among calls.
PingsIn(o) == Joined([k \in 1..Len(o) |-> pong_owed(o[k])])

\* The parts that calls have in them.
LEMMA PartsOfPings ==
  ASSUME NEW o \in Seq(RP!Item)
  PROVE  \E p \in Seq(Part) : /\ Len(p) = Len(o) /\ PingsIn(o) = Joined(p)
                              /\ \A i \in 1..Len(o) : p[i] = pong_owed(o[i])
<1> DEFINE p == [k \in 1..Len(o) |-> pong_owed(o[k])]
<1>1. Len(o) \in Nat /\ \A i \in 1..Len(o) : Len(o[i].data) \in Nat
  <2>1. Len(o) \in Nat /\ \A i \in 1..Len(o) : o[i] \in RP!Item
    OBVIOUS
  <2>2. \A x \in RP!Item : x.data \in Seq(RP!Byte)
    BY Zenon DEF RP!Item
  <2>3. \A x \in RP!Item : Len(x.data) \in Nat
    BY <2>2
  <2> QED BY <2>1, <2>3
<1>2. \A i \in 1..Len(o) : pong_owed(o[i]) \in Part
  BY <1>1, PongBytes DEF pong_owed, Part
<1>3. p \in Seq(Part) /\ Len(p) = Len(o)
  BY <1>1, <1>2
<1>4. PingsIn(o) = Joined(p)
  BY DEF PingsIn
<1> QED BY <1>3, <1>4

\* They are the same if no ping is added.
LEMMA PingsSame ==
  ASSUME NEW o \in Seq(RP!Item), NEW c \in Seq(RP!Item), RP!MoreButPings(o, c)
  PROVE  PingsIn(c) = PingsIn(o)
<1>1. PICK p \in Seq(Part) : /\ Len(p) = Len(o) /\ PingsIn(o) = Joined(p)
                             /\ \A i \in 1..Len(o) : p[i] = pong_owed(o[i])
  BY PartsOfPings
<1>2. PICK q \in Seq(Part) : /\ Len(q) = Len(c) /\ PingsIn(c) = Joined(q)
                             /\ \A i \in 1..Len(c) : q[i] = pong_owed(c[i])
  BY PartsOfPings
<1>3. /\ Len(o) \in Nat /\ Len(c) \in Nat /\ Len(o) <= Len(c)
      /\ \A i \in 1..Len(o) : i \in 1..Len(c) /\ c[i] = o[i]
      /\ \A i \in Len(o) + 1..Len(c) : i \in 1..Len(c) /\ c[i].fn # "on_ping"
  BY DEF RP!MoreButPings
<1>4. Len(p) <= Len(q) /\ \A i \in 1..Len(p) : q[i] = p[i]
  BY <1>1, <1>2, <1>3
<1>5. \A i \in Len(p) + 1..Len(q) : q[i] = << >>
  BY <1>1, <1>2, <1>3 DEF pong_owed
<1> QED BY <1>1, <1>2, <1>4, <1>5, JoinedMore

\* One more ping owes one more pong.
LEMMA PingsMore ==
  ASSUME NEW o \in Seq(RP!Item), NEW x \in RP!Item
  PROVE  PingsIn(Append(o, x)) = PingsIn(o) \o pong_owed(x)
<1> DEFINE c == Append(o, x)
<1>0. /\ c \in Seq(RP!Item) /\ Len(o) \in Nat /\ Len(c) = Len(o) + 1
      /\ c[Len(c)] = x /\ Len(c) \in 1..Len(c)
      /\ \A i \in 1..Len(o) : c[i] = o[i] /\ i \in 1..Len(c)
  OBVIOUS
<1> HIDE DEF c
<1>1. PICK p \in Seq(Part) : /\ Len(p) = Len(o) /\ PingsIn(o) = Joined(p)
                             /\ \A i \in 1..Len(o) : p[i] = pong_owed(o[i])
  BY PartsOfPings
<1>2. PICK q \in Seq(Part) : /\ Len(q) = Len(c) /\ PingsIn(c) = Joined(q)
                             /\ \A i \in 1..Len(c) : q[i] = pong_owed(c[i])
  BY <1>0, PartsOfPings
<1>3. Len(q) = Len(p) + 1 /\ q[Len(q)] = pong_owed(x) /\ \A i \in 1..Len(p) : q[i] = p[i]
  BY <1>0, <1>1, <1>2
<1>4. Joined(q) = Joined(p) \o q[Len(q)]
  BY <1>3, JoinedOneMore
<1> QED BY <1>1, <1>2, <1>3, <1>4 DEF c
\* A step that answers no ping adds no call, or deals with no ping frame.
LEMMA NoPingAtHand ==
  ASSUME [Next]_vars, ~ping_answered
  PROVE  out' = out \/ ~(D!InControl /\ frame.opcode = WS_OPCODE_PING)
<1>1. CASE header_line \/ headers_end \/ curl_acts \/ curl_reads \/ sending_loop
           \/ application_calls \/ callback_return
  BY <1>1 DEF header_line, headers_end, curl_acts, curl_reads, sending_loop, application_calls,
              callback_return, receiver_vars
<1>2. CASE curl_delivers
  BY <1>2 DEF curl_delivers, D!curl_delivers, D!receive_cb, D!receive_cb_ignored
<1>3. CASE assembling
  BY <1>3 DEF assembling, D!header_incomplete, D!header_complete, D!control_incomplete
<1>4. CASE pong_received
  BY <1>4 DEF pong_received, WS_OPCODE_PING, WS_OPCODE_PONG
<1>5. CASE data_received
  BY <1>5 DEF data_received, D!fragment_handled, D!data_delivered, D!InData, D!InControl
<1>6. CASE breach_found
  <2>1. \/ D!header_rejected \/ D!header_out_of_order \/ D!text_rejected
        \/ CloseArrived
    BY <1>6 DEF breach_found
  <2>2. D!header_rejected \/ D!header_out_of_order => ~D!InControl
    BY DEF D!header_rejected, D!header_out_of_order, D!header_valid, D!Reading, D!InControl
  <2>3. D!text_rejected => ~D!InControl
    BY DEF D!text_rejected, D!InData, D!InControl
  <2>4. CloseArrived => frame.opcode # WS_OPCODE_PING
    BY DEF CloseArrived, WS_OPCODE_PING, WS_OPCODE_CLOSE
  <2> QED BY <2>1, <2>2, <2>3, <2>4
<1>7. CASE on_close_called
  BY <1>7 DEF on_close_called, receiver_vars
<1>8. CASE close_answered
  BY <1>8 DEF close_answered, D!close_handled, WS_OPCODE_PING, D!WS_OPCODE_CLOSE
<1>9. CASE Terminated \/ UNCHANGED vars
  BY <1>9 DEF Terminated, vars, receiver_vars
<1> QED BY <1>1, <1>2, <1>3, <1>4, <1>5, <1>6, <1>7, <1>8, <1>9 DEF Next, receiving_loop

\* So the pings received are the same after it.
LEMMA NoPingMore ==
  ASSUME RP!ReceiverInv, RP!ReceiverInv', [Next]_vars, ~ping_answered
  PROVE  PingsReceived' = PingsReceived
<1>1. out \in Seq(RP!Item) /\ out' \in Seq(RP!Item)
  BY DEF RP!ReceiverInv, RP!ToldInv
<1>2. RP!Next \/ UNCHANGED RP!vars
  BY ReceiverSteps, SameReceiver
<1>3. \/ RP!MoreButPings(out, out')
      \/ RP!control_dispatched /\ frame.opcode = RP!WS_OPCODE_PING
  BY <1>2, ReceiverFacts, RP!PingsTold DEF RP!ReceiverInv
<1>4. CASE RP!MoreButPings(out, out')
  <2>1. PingsIn(out') = PingsIn(out)
    BY <1>1, <1>4, PingsSame
  <2> QED BY <2>1 DEF PingsIn, PingsReceived, pong_owed
<1>5. CASE RP!control_dispatched /\ frame.opcode = RP!WS_OPCODE_PING
  <2>1. D!InControl /\ frame.opcode = WS_OPCODE_PING
    BY <1>5 DEF RP!control_dispatched, RP!InControl, D!InControl, RP!NoFrame, D!NoFrame,
                RP!WS_OPCODE_PING, WS_OPCODE_PING
  <2>2. out' = out
    BY <2>1, NoPingAtHand
  <2> QED BY <2>2 DEF PingsReceived
<1> QED BY <1>3, <1>4, <1>5

\* A ping with a payload is one pong more that is owed.
LEMMA OnePingMore ==
  ASSUME RP!ReceiverInv, RP!ReceiverInv', ping_answered
  PROVE  LET n == Len(D!control_bytes)
         IN  /\ PingsReceived \in Part
             /\ PingsReceived' = PingsReceived \o (IF n = 0 THEN << >> ELSE <<pong_bytes(n)>>)
<1> DEFINE b == D!control_bytes
           x == D!Control("on_ping", b)
<1>1. out \in Seq(RP!Item) /\ out' \in Seq(RP!Item)
  BY DEF RP!ReceiverInv, RP!ToldInv
<1>2. out' = Append(out, x)
  BY DEF ping_answered, D!control_frame_handled, D!control_dispatched, WS_OPCODE_PING,
         D!WS_OPCODE_PONG
<1>3. x.fn = "on_ping" /\ x.data = b
  BY DEF D!Control
<1> HIDE DEF x
<1>4. x \in RP!Item
  <2>1. Len(out') \in 1..Len(out') /\ out'[Len(out')] = x
    BY <1>1, <1>2
  <2> QED BY <1>1, <2>1
<1>5. b \in Seq(RP!Byte)
  BY <1>3, <1>4, Zenon DEF RP!Item
<1> HIDE DEF b
<1>6. Len(b) = 0 <=> b = << >>
  BY <1>5
<1>7. pong_owed(x) = IF Len(b) = 0 THEN << >> ELSE <<pong_bytes(Len(b))>>
  BY <1>3, <1>6 DEF pong_owed
<1>8. PingsIn(out') = PingsIn(out) \o pong_owed(x)
  BY <1>1, <1>2, <1>4, PingsMore
<1>9. PingsIn(out) = PingsReceived /\ PingsIn(out') = PingsReceived'
  BY DEF PingsIn, PingsReceived, pong_owed
<1>10. PingsIn(out) \in Part
  <2>1. PICK p \in Seq(Part) : PingsIn(out) = Joined(p)
    BY <1>1, PartsOfPings
  <2> QED BY <2>1, JoinedIsPart
<1> QED BY <1>7, <1>8, <1>9, <1>10 DEF b
-------------------------------------------------------------------------------
\* The invariant: what was handed to curl and what is queued answers the pings; only a
\* close keeps a pong from being queued.
PongsInv ==
  /\ IsPrefixOf(Answers(WP!Line), PingsReceived)
  /\ "QUEUED" \notin close_state => Answers(WP!Line) = PingsReceived

\* What is known of the two sides in every state.
SidesInv == RedirectionKnown /\ RP!ReceiverInv /\ WP!IInv /\ WP!WireInv

\* At first there is nothing to answer.
LEMMA PongsInitially ==
  ASSUME Init
  PROVE  PongsInv
<1>1. WP!Line = << >> /\ out = << >>
  <2>1. WP!Init
    BY SameSender DEF Init
  <2> QED BY <2>1, SenderFacts, WP!LineInitially DEF Init, D!DeliveryInit, D!Init
<1>2. Answers(<< >>) = PingsIn(<< >>) /\ PingsIn(<< >>) \in Part
  <2>1. << >> \in Seq(RP!Item) /\ Len(<< >>) = 0
    OBVIOUS
  <2>2. PICK p \in Seq(Part) : PingsIn(<< >>) = Joined(p)
    BY <2>1, PartsOfPings
  <2>3. [k \in 1..Len(<< >>) |-> pong_owed(<< >>[k])] = [k \in 1..Len(<< >>) |-> pong_in(<< >>[k])]
    BY <2>1
  <2> QED BY <2>2, <2>3, JoinedIsPart DEF Answers, PingsIn
<1>3. PingsReceived = PingsIn(<< >>)
  BY <1>1 DEF PingsReceived, PingsIn
<1> QED BY <1>1, <1>2, <1>3, Prefixes DEF PongsInv, Part

\* What the application's own pongs and other frames are not.
LEMMA NoAnswer ==
  ASSUME NEW f, f.opcode = WP!WS_OPCODE_PONG => WP!IsPong(f, 0)
  PROVE  pong_in(f) = << >>
BY PongBytes DEF pong_in, WP!IsPong, WP!WS_OPCODE_PONG, WS_OPCODE_PONG

\* A step that answers no ping: the application's pongs are empty.
LEMMA OthersKeepPongs ==
  ASSUME CtlLens \subseteq {0}, SidesInv, SidesInv', PongsInv, [Next]_vars, ~ping_answered
  PROVE  PongsInv'
<1>1. PingsReceived' = PingsReceived
  BY NoPingMore DEF SidesInv
<1>2. WP!OtherNext \/ UNCHANGED WP!vars
  BY OtherSteps, SameSender DEF SidesInv
<1>3. /\ close_state \subseteq close_state'
      /\ WP!Line \in Seq(WP!Frame)
      /\ \/ WP!Line' = WP!Line
         \/ \E f \in WP!Frame : /\ WP!Line' = Append(WP!Line, f)
                                /\ f.opcode = WP!WS_OPCODE_PONG => WP!IsPong(f, 0)
  BY <1>2, SenderFacts, WP!LineSteps DEF SidesInv
<1>4. PICK L \in Seq(WP!Frame), M \in Seq(WP!Frame) : L = WP!Line /\ M = WP!Line'
  BY <1>3
<1>5. Answers(WP!Line)' = Answers(M)
  BY <1>4 DEF Answers, pong_in, pong_bytes
<1>6. Answers(M) = Answers(L)
  <2>1. CASE WP!Line' = WP!Line
    BY <1>4, <2>1
  <2>2. CASE \E f \in WP!Frame : /\ WP!Line' = Append(WP!Line, f)
                                 /\ f.opcode = WP!WS_OPCODE_PONG => WP!IsPong(f, 0)
    <3>1. PICK f \in WP!Frame : /\ M = Append(L, f)
                                /\ f.opcode = WP!WS_OPCODE_PONG => WP!IsPong(f, 0)
      BY <1>4, <2>2
    <3>2. pong_in(f) = << >>
      BY <3>1, NoAnswer
    <3>3. Answers(L) \in Part /\ Answers(M) = Answers(L) \o << >>
      BY <3>1, <3>2, AnswersAppended
    <3> QED BY <3>3, Parts
  <2> QED BY <1>3, <2>1, <2>2
<1>7. IsPrefixOf(Answers(L), PingsReceived)
      /\ ("QUEUED" \notin close_state => Answers(L) = PingsReceived)
  BY <1>4 DEF PongsInv
<1>8. /\ IsPrefixOf(Answers(M), PingsReceived)
      /\ "QUEUED" \notin close_state' => Answers(M) = PingsReceived
  BY <1>3, <1>6, <1>7
<1> QED BY <1>1, <1>5, <1>8 DEF PongsInv, IsPrefixOf

\* A ping is answered behind all that was answered before, unless a close is queued.
LEMMA AnswerKeepsPongs ==
  ASSUME ~MallocMayFail, SidesInv, SidesInv', PongsInv, ping_answered
  PROVE  PongsInv'
<1>1. PICK n \in AnyPing : n = Len(D!control_bytes) /\ Q!cws_pong(n)
  BY PongActs DEF SidesInv
<1>2. n \in Nat /\ n <= WP!WS_CTL_PAYLOAD_MAX /\ WP!cws_pong(n)
  <2>1. n \in Nat /\ n <= WP!WS_CTL_PAYLOAD_MAX
    BY DEF AnyPing, WS_CTL_PAYLOAD_MAX, WP!WS_CTL_PAYLOAD_MAX
  <2>2. WP!cws_pong(n)
    BY <1>1, SameSender
  <2> QED BY <2>1, <2>2
<1>3. PICK x : x = (IF n = 0 THEN << >> ELSE <<pong_bytes(n)>>)
  OBVIOUS
<1>4. PingsReceived \in Part /\ PingsReceived' = PingsReceived \o x
  BY <1>1, <1>3, OnePingMore DEF SidesInv
<1>5. x \in Part
  BY <1>2, <1>3, PongBytes DEF Part
<1>6. /\ close_state \subseteq close_state'
      /\ WP!Line \in Seq(WP!Frame)
      /\ \/ "QUEUED" \in close_state /\ WP!Line' = WP!Line
         \/ /\ "QUEUED" \notin close_state
            /\ \E f \in WP!Frame : WP!IsPong(f, n) /\ WP!Line' = Append(WP!Line, f)
  BY <1>2, SenderFacts, WP!AnswerExtendsLine DEF SidesInv
<1>7. PICK L \in Seq(WP!Frame), M \in Seq(WP!Frame) : L = WP!Line /\ M = WP!Line'
  BY <1>6
<1>8. Answers(WP!Line)' = Answers(M)
  BY <1>7 DEF Answers, pong_in, pong_bytes
<1>9. Answers(L) \in Part
  BY PartsOfAnswers, JoinedIsPart
<1>10. CASE "QUEUED" \in close_state /\ WP!Line' = WP!Line
  <2>1. IsPrefixOf(Answers(L), PingsReceived)
    BY <1>7 DEF PongsInv
  <2>2. IsPrefixOf(Answers(M), PingsReceived \o x)
    BY <1>4, <1>5, <1>7, <1>9, <1>10, <2>1, Prefixes DEF Part
  <2> QED BY <1>4, <1>6, <1>8, <1>10, <2>2 DEF PongsInv, IsPrefixOf
<1>11. CASE /\ "QUEUED" \notin close_state
            /\ \E f \in WP!Frame : WP!IsPong(f, n) /\ WP!Line' = Append(WP!Line, f)
  <2>1. PICK f \in WP!Frame : WP!IsPong(f, n) /\ M = Append(L, f)
    BY <1>7, <1>11
  <2>2. pong_in(f) = x
    <3>1. f.opcode = WS_OPCODE_PONG /\ f.written = pong_bytes(n)
      BY <1>2, <2>1, PongBytes DEF WP!IsPong, WP!WS_OPCODE_PONG, WS_OPCODE_PONG
    <3> QED BY <1>3, <3>1, PongBytes DEF pong_in
  <2>3. Answers(M) = PingsReceived \o x
    <3>1. Answers(M) = Answers(L) \o pong_in(f)
      BY <2>1, AnswersAppended
    <3> QED BY <1>7, <1>11, <2>2, <3>1 DEF PongsInv
  <2>4. IsPrefixOf(Answers(M), Answers(M))
    <3>1. Answers(M) \in Part
      BY <1>4, <1>5, <2>3, Parts
    <3> QED BY <3>1, Prefixes DEF Part
  <2> QED BY <1>4, <1>8, <2>3, <2>4 DEF PongsInv, IsPrefixOf
<1> QED BY <1>6, <1>10, <1>11

\* However curl mixes reading and writing, and whatever the application queues between,
\* every ping with a payload is answered once, in order and with a pong of its length, as
\* long as no allocation fails and the application's own pings and pongs have no payload,
\* by which they are told from the answers.
THEOREM EachPingIsAnswered ==
  ASSUME ~MallocMayFail, CtlLens \subseteq {0}
  PROVE  Spec => []PongsAnswerPings
<1>1. Spec => []WP!IInv
  BY SenderIsProved, SenderFacts, WP!Invariant
<1>2. Spec => []WP!WireInv
  BY SenderIsProved, SenderFacts, WP!WireInvariant
<1>3. Spec => []SidesInv
  BY <1>1, <1>2, RedirectionAlwaysKnown, ReceiverInvariant, PTL DEF SidesInv
<1>4. Init => PongsInv
  BY PongsInitially
<1>5. SidesInv /\ SidesInv' /\ PongsInv /\ [Next]_vars => PongsInv'
  BY OthersKeepPongs, AnswerKeepsPongs
<1>6. SidesInv /\ PongsInv => PongsAnswerPings
  BY AnswersOfLine DEF SidesInv, PongsInv, PongsAnswerPings
<1> QED BY <1>3, <1>4, <1>5, <1>6, PTL DEF Spec
===============================================================================
