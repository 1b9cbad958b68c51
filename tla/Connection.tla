------------------------------ MODULE Connection -------------------------------
(***************************************************************************)
(* A curlws connection: the response headers (Header), the receiver with   *)
(* the default handlers (Delivery) and the sending side (SendQueue) around *)
(* one handle.  They meet in the fields of struct CURLWS that they share:  *)
(* close_state, which the receiver sets and the sender obeys, and          *)
(* header_state.redirection, which mutes both data callbacks; and in their *)
(* calls: a ping is answered through the queue, a close or a breach ends   *)
(* in cws_close, and the application, called back, calls the library.      *)
(*                                                                         *)
(* Curl calls one callback of the library at a time, and the application   *)
(* calls the library between them or from a callback of its own.  The body *)
(* of a redirected response, which _receive_cb ignores, is left out.       *)
(***************************************************************************)
EXTENDS Header, FrameCodec

CONSTANTS
  max_payload_size, BufferSizes, CtlLens, CloseArgs, PingLens, PeerCodes, CallbackResults,
  Blocks, Pieces, Infos, MallocMayFail, MaxFrames,  \* see SendQueue; MaxFrames is never reached
  Streams, ChunkSizes,                      \* see Receive
  ServerLines,   \* the header lines a server may send
  MaxCalls       \* bound: the application calls until this many frames but pongs were queued

VARIABLES
  \* SendQueue
  send, close_state, pause_flags, last_sent_data_frame_info, pc, fill, blk, curl, wire, nframes,
  \* Delivery
  stream, at, len, recv_pc, prev_len, stream_type, fragment_info, utf8, frame, header, control,
  piece, out, buffered_type, stream_buffer, stream_buffer_len, told,
  \* the application
  callback,  \* the callback of the application that runs; "closing": _handle_close after on_close
  heard      \* history: the callbacks so far

queue_vars    == <<send, close_state, pause_flags, last_sent_data_frame_info, pc, fill, blk, curl,
                   wire, nframes>>
receiver_vars == <<stream, at, len, recv_pc, prev_len, stream_type, fragment_info, utf8, frame,
                   header, control, piece, out>>
buffer_vars   == <<buffered_type, stream_buffer, stream_buffer_len, told>>
app_vars      == <<callback, heard>>
vars          == <<header_vars, queue_vars, receiver_vars, buffer_vars, app_vars>>

Q == INSTANCE SendQueue WITH FollowRedirects <- TRUE,
                             redirection     <- header_state.redirection
D == INSTANCE Delivery  WITH pc              <- recv_pc,
                             close_received  <- "RECEIVED" \in close_state

ASSUME ConnectionAssumption ==
  /\ ServerLines \subseteq Lines
  /\ MaxCalls \in Nat
\* What the two sides assume of their constants.
ASSUME SenderAssumption ==
  /\ max_payload_size \in Nat \ {0}
  /\ BufferSizes \subseteq Nat \ {0}
  /\ CtlLens \subseteq Nat /\ PingLens \subseteq Nat /\ MaxFrames \in Nat
  /\ CloseArgs \subseteq Q!CloseArg
  /\ \A code \in PeerCodes : is_close_code_valid(code)
  /\ CallbackResults \subseteq Int
  /\ Blocks \subseteq Q!AppBuffer /\ Pieces \subseteq Q!AppBuffer
  /\ Infos \subseteq SUBSET Q!OptionBits
  /\ MallocMayFail \in BOOLEAN
ASSUME ReceiverAssumption ==
  /\ Streams \subseteq Seq(Byte)
  /\ ChunkSizes \in [Streams -> SUBSET (Nat \ {0})]

-------------------------------------------------------------------------------
\* The parts, one behind the other.
Joined(parts) ==
  LET joined[k \in 0..Len(parts)] == IF k = 0 THEN << >> ELSE joined[k - 1] \o parts[k]
  IN  joined[Len(parts)]

\* The pings received, each by the number of bytes of its pong.  (Those without a
\* payload are left out: their pongs look like the application's own.)
pong_bytes(n) == frame_encode(n, WS_CTL_FRAME_MAX)
pong_owed(i)  == IF i.fn = "on_ping" /\ i.data # << >> THEN <<pong_bytes(Len(i.data))>> ELSE << >>
PingsReceived == Joined([k \in 1..Len(out) |-> pong_owed(out[k])])

\* Curl may call the library: it is in no callback.
Quiet == Q!Idle /\ recv_pc = "idle" /\ callback = "none"

\* The application is called back.
calls_back(cb, told_as) ==
  /\ callback' = cb
  /\ heard' = Append(heard, told_as)

\* _header_cb, for a line of which the application hears nothing.
header_line ==
  /\ Quiet
  /\ \/ \E status \in Statuses, http11 \in BOOLEAN : header_cb_status(status, http11)
     \/ \E line \in ServerLines : header_cb_line(line)
     \/ header_cb_redirected
  /\ UNCHANGED <<queue_vars, receiver_vars, buffer_vars, app_vars>>

\* _header_cb at the end of the headers: on_connect, or on_close for an upgrade
\* that was not accepted.
headers_end ==
  /\ Quiet
  /\ \/ header_cb_upgraded     /\ calls_back("on_connect", "on_connect")
     \/ header_cb_not_accepted /\ calls_back("refused", "on_close")
  /\ UNCHANGED <<queue_vars, receiver_vars, buffer_vars>>

\* Curl follows a redirection, gives up, or sees the end of the transfer.
curl_acts ==
  /\ Quiet
  /\ curl_follows \/ curl_ends
  /\ UNCHANGED <<queue_vars, receiver_vars, buffer_vars, app_vars>>

-------------------------------------------------------------------------------
(* Sending *)

\* _send_cb, which curl may call from the request on.
curl_reads ==
  /\ Quiet
  /\ response.phase # "ended"
  /\ UNCHANGED header_vars
  /\ Q!send_cb
  /\ UNCHANGED <<receiver_vars, buffer_vars, app_vars>>

sending_loop ==
  /\ UNCHANGED header_vars
  /\ Q!fill_step \/ Q!fill_return \/ Q!data_block_sender
  /\ UNCHANGED <<receiver_vars, buffer_vars, app_vars>>

\* The application calls the library, from a callback or not.
application_calls ==
  /\ Quiet \/ (Q!Idle /\ callback \notin {"none", "closing"})
  /\ nframes < MaxCalls + Len(PingsReceived)
  /\ UNCHANGED header_vars
  /\ Q!Call
  /\ UNCHANGED <<receiver_vars, buffer_vars, app_vars>>

-------------------------------------------------------------------------------
(* Receiving *)

\* _receive_cb
curl_delivers ==
  /\ Quiet
  /\ response.phase = "upgraded"
  /\ UNCHANGED <<header_vars, queue_vars, app_vars>>
  /\ D!curl_delivers

\* The loop of _receive_cb goes on: no callback of the application runs.
Receiving == recv_pc = "loop" /\ callback = "none"

assembling ==
  /\ Receiving
  /\ UNCHANGED <<header_vars, queue_vars, buffer_vars, app_vars>>
  /\ D!header_incomplete \/ D!header_complete \/ D!control_incomplete

\* Mutant: only the first ping of a chunk is answered.
ping_answered_once ==
  /\ Receiving
  /\ D!InControl
  /\ frame.opcode = WS_OPCODE_PING
  /\ UNCHANGED header_vars
  /\ IF send = << >> THEN Q!cws_pong(Len(D!control_bytes)) ELSE UNCHANGED queue_vars
  /\ D!control_frame_handled
  /\ UNCHANGED app_vars

\* A ping, which the default handler answers.
ping_answered ==
  /\ Receiving
  /\ D!InControl
  /\ frame.opcode = WS_OPCODE_PING
  /\ UNCHANGED header_vars
  /\ Q!cws_pong(Len(D!control_bytes))
  /\ D!control_frame_handled
  /\ UNCHANGED app_vars

pong_received ==
  /\ Receiving
  /\ D!InControl
  /\ frame.opcode = WS_OPCODE_PONG
  /\ UNCHANGED <<header_vars, queue_vars>>
  /\ D!control_frame_handled
  /\ calls_back("on_pong", "on_pong")

\* A part of a message; with the last one the default handler calls on_text or
\* on_binary.
data_received ==
  /\ Receiving
  /\ UNCHANGED <<header_vars, queue_vars>>
  /\ D!fragment_handled
  /\ IF told' # told THEN calls_back("on_message", "on_message") ELSE UNCHANGED app_vars

\* A complete close frame.
CloseArrived ==
  /\ D!InControl
  /\ frame.opcode = WS_OPCODE_CLOSE
  /\ Len(D!control_bytes) = frame.payload_len

close_outcome == D!close_outcome(D!control_bytes)

\* What _handle_close gives to _error_close for a payload that breaks the protocol:
\* "invalid close payload length" or "invalid close reason", or no text.
bad_payload_arg ==
  IF frame.payload_len = 1         THEN Q!BadPayloadCloseArg(28)
  ELSE IF close_outcome.code = 1002 THEN Q!BadPayloadCloseArg(20)
  ELSE Q!BreachCloseArg(1007)

\* The protocol was broken: the application hears nothing.
breach_found ==
  /\ Receiving
  /\ UNCHANGED <<header_vars, buffer_vars, app_vars>>
  /\ \/ /\ Q!_error_close(Q!BreachCloseArg(1002))
        /\ D!header_rejected \/ D!header_out_of_order
     \/ /\ Q!_error_close(Q!BreachCloseArg(1007))
        /\ D!text_rejected
     \/ /\ CloseArrived
        /\ close_outcome.fn = "error"
        /\ Q!_error_close(bad_payload_arg)
        /\ D!close_handled

\* _handle_close calls on_close before CLOSE_RECEIVED is set, ...
on_close_called ==
  /\ Receiving
  /\ CloseArrived
  /\ close_outcome.fn = "on_close"
  /\ calls_back("on_close", "on_close")
  /\ UNCHANGED <<header_vars, queue_vars, receiver_vars, buffer_vars>>

\* Mutant: the absence of a code is answered as if it were one.
answer_arg_1005 == Q!PeerCloseArg(close_outcome.code)

\* The answer has the code of the peer, and no text.
answer_arg == IF close_outcome.code = 1005 THEN Q!NoCodeCloseArg
                                           ELSE Q!PeerCloseArg(close_outcome.code)

\* ... and goes on when on_close has returned.
close_answered ==
  /\ callback = "closing"
  /\ close_outcome.fn = "on_close"
  /\ UNCHANGED <<header_vars, buffer_vars, heard>>
  /\ Q!_error_close(answer_arg)
  /\ D!close_handled
  /\ callback' = "none"

\* The application returns from a callback; __process_rv looks at the result.
callback_return ==
  /\ callback \notin {"none", "closing"}
  /\ Q!Idle
  /\ UNCHANGED header_vars
  /\ \E rv \in CallbackResults : \/ rv = 0 /\ UNCHANGED queue_vars
                                 \/ Q!process_rv(rv)
  /\ callback' = IF callback = "on_close" THEN "closing" ELSE "none"
  /\ UNCHANGED <<receiver_vars, buffer_vars, heard>>

receiving_loop ==
  \/ assembling
  \/ ping_answered
  \/ pong_received
  \/ data_received
  \/ breach_found
  \/ on_close_called
  \/ close_answered

-------------------------------------------------------------------------------
Init ==
  /\ follow_redirects \in BOOLEAN
  /\ ResponseInit
  /\ Q!Init
  /\ D!DeliveryInit
  /\ callback = "none"
  /\ heard = << >>

\* The transfer is over and the library at rest.
Terminated == Quiet /\ response.phase = "ended" /\ UNCHANGED vars

Next ==
  \/ header_line
  \/ headers_end
  \/ curl_acts
  \/ curl_reads
  \/ sending_loop
  \/ application_calls
  \/ curl_delivers
  \/ receiving_loop
  \/ callback_return
  \/ Terminated

Spec == Init /\ [][Next]_vars

(* A loop that runs goes on, a callback of the application returns, and curl   *)
(* asks for data again and again.                                              *)
Fairness ==
  /\ WF_vars(sending_loop)
  /\ WF_vars(receiving_loop)
  /\ WF_vars(callback_return)
  /\ WF_vars(curl_reads)

FairSpec == Spec /\ Fairness

-------------------------------------------------------------------------------
(* Properties *)

\* What module SendQueue assumes of the receiver and of the response headers
\* holds of the real ones: the sending side of a connection is a SendQueue that is
\* given pongs of the length of the pings, so that all that is shown of that module
\* is true of a connection.  (This is Q!Spec; the steps that leave the sender alone
\* come first, for TLC.)
ImplementsSendQueue == Q!Init /\ [][UNCHANGED Q!vars \/ Q!Next]_Q!vars

\* The callbacks of the application come in the order that Conversation promises,
\* whatever it calls in them and however curl mixes reading and writing.
Over == \/ response.phase = "ended"
        \/ "RECEIVED" \in close_state
        \/ callback \in {"on_close", "closing"}
stage == IF Over THEN "closed" ELSE IF response.phase = "upgraded" THEN "open" ELSE "connecting"
Talk == INSTANCE Conversation
ImplementsConversation == Talk!Spec

\* The pongs in frames that answer a ping, each by its number of bytes: the
\* application's own have no payload.
pong_in(f) == IF f.opcode = WS_OPCODE_PONG /\ f.written # pong_bytes(0) THEN <<f.written>> ELSE << >>
Answers(frames) == Joined([k \in 1..Len(frames) |-> pong_in(frames[k])])

IsPrefixOf(s, t) == Len(s) <= Len(t) /\ s = SubSeq(t, 1, Len(s))

\* Each ping is answered once, in order and in its length, as long as no close is
\* queued; a close may only cut the answers short.  (RFC 6455, 5.5.2; the default
\* on_ping.)
PongsAnswerPings ==
  LET answers == Answers(wire \o Q!unsent)
  IN  /\ IsPrefixOf(answers, PingsReceived)
      /\ "QUEUED" \notin close_state => answers = PingsReceived

\* When curl is told that nothing more will be sent, the last frame on the wire is a
\* whole close frame and the peer has closed or broken the protocol.
EofEndsBothDirections ==
  curl.eof => /\ wire # << >>
              /\ wire[Len(wire)].opcode = WS_OPCODE_CLOSE
              /\ wire[Len(wire)].n = wire[Len(wire)].written
              /\ out # << >>
              /\ out[Len(out)].fn \in {"on_close", "error"}

\* Once a response is known to be a redirection no byte of a frame is handed to
\* curl before the next response begins: what is queued is kept for the server
\* that upgrades.
NothingSentToRedirector ==
  [][Redirecting(response) /\ response.phase # "ended" => wire' = wire]_vars

\* After a close or a breach curl is told to end the transfer, whatever is queued,
\* whether it was asleep and whatever the application does in its callbacks.  The
\* code keeps this only if no allocation fails and no close is urgent: see
\* NoUrgentClose and ReceivedCloseEnds of module SendQueue.
EndIsShutDown == "RECEIVED" \in close_state ~> (curl.eof \/ response.phase = "ended")

\* A ping gets its pong, although it is received while curl sleeps, unless a close
\* comes between.
PingsAreAnswered ==
  \A k \in 1..2 :
    Len(PingsReceived) >= k ~> \/ Len(Answers(wire)) >= k
                               \/ close_state # {}
                               \/ response.phase = "ended"
===============================================================================
