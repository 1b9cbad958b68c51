------------------------------- MODULE Session --------------------------------
(***************************************************************************)
(* The life of a curlws handle: cws_create and its configuration steps,    *)
(* each of which may fail; the upgrade (module Header); the callbacks of   *)
(* the application and what it may do in them (cb.c and its callers); and  *)
(* cws_destroy.  Memory is a set of the things the handle owns; the frames *)
(* of the send queue are one of them.                                      *)
(*                                                                         *)
(* Two results of malloc that cws_create does not look at, the pool and    *)
(* the expected key, are taken to be good.                                 *)
(***************************************************************************)
EXTENDS Header, Sequences, CreateSteps

VARIABLES
  pc,           \* "none", "create", "idle", "callback", "destroy", "gone" or "freed":
                \* a callback goes on with a handle that was freed in it
  at,           \* the next step of cws_create or cws_destroy
  failed,       \* the status of cws_create is not CURLE_OK
  owned,        \* what is allocated
  dispatching,  \* priv->dispatching
  callback,     \* the callback of the application that runs, or the last that did
  resume        \* where cws_destroy was called

life == <<pc, at, failed, owned, dispatching, callback, resume>>
vars == <<header_vars, life>>

Things == {"priv", "easy", "url", "headers", "requested", "received", "key", "frames", "mem",
           "stream_buffer"}
Callbacks == {"none", "on_connect", "refused", "on_message", "on_fragment", "on_ping", "on_pong",
              "on_close"}

-------------------------------------------------------------------------------
(* cws_create *)

\* The allocation of the handle and of curl's, up to the first step.
cws_create ==
  /\ pc = "none"
  /\ \/ pc' = "gone" /\ UNCHANGED <<owned, at>>
     \/ pc' = "destroy" /\ owned' = {"priv"} /\ at' = 1
     \/ pc' = "create" /\ owned' = {"priv", "easy"} /\ at' = 1
  /\ UNCHANGED <<header_vars, failed, dispatching, callback, resume>>

\* Mutant: a step overwrites the status of those before it.
config_step_overwrites ==
  /\ pc = "create"
  /\ at \in 1..Len(ConfigSteps)
  /\ \E o \in outcomes(ConfigSteps[at]) :
       owned' = owned \cup o.got /\ failed' = ~o.ok
  /\ at' = at + 1
  /\ follow_redirects' \in (IF ConfigSteps[at] = "redirects" THEN BOOLEAN ELSE {follow_redirects})
  /\ UNCHANGED <<header_state, response, seen, pc, dispatching, callback, resume>>

\* The _config_ functions, header_init, receive_init, send_init ("callbacks") and
\* config->configure.  A failure does not stop the sequence.
config_step ==
  /\ pc = "create"
  /\ at \in 1..Len(ConfigSteps)
  /\ \E o \in outcomes(ConfigSteps[at]) :
       owned' = owned \cup o.got /\ failed' = (failed \/ ~o.ok)
  /\ at' = at + 1
  /\ follow_redirects' \in (IF ConfigSteps[at] = "redirects" THEN BOOLEAN ELSE {follow_redirects})
  /\ UNCHANGED <<header_state, response, seen, pc, dispatching, callback, resume>>

cws_create_return ==
  /\ pc = "create"
  /\ at > Len(ConfigSteps)
  /\ at' = 1
  /\ pc' = IF failed THEN "destroy" ELSE "idle"
  /\ UNCHANGED <<header_vars, failed, owned, dispatching, callback, resume>>

-------------------------------------------------------------------------------
(* Callbacks of the application.  All but on_close for a close frame of the    *)
(* peer run with dispatching raised.                                           *)

Guarded(cb) == cb # "on_close"

\* Mutant: dispatching is not raised for messages.
enter_message_unguarded(cb) ==
  /\ pc' = "callback"
  /\ callback' = cb
  /\ dispatching' = IF Guarded(cb) /\ cb # "on_message" THEN dispatching + 1 ELSE dispatching

enter(cb) ==
  /\ pc' = "callback"
  /\ callback' = cb
  /\ dispatching' = IF Guarded(cb) THEN dispatching + 1 ELSE dispatching

\* ws_protocols_received belongs to the handle.
own_protocols ==
  owned' = IF header_state'.ws_protocols_received = NULL THEN owned \ {"received"}
                                                         ELSE owned \cup {"received"}

\* A header line of which the application hears nothing.
header_cb ==
  /\ pc = "idle"
  /\ \/ \E status \in Statuses, http11 \in BOOLEAN : header_cb_status(status, http11)
     \/ \E line \in Lines : header_cb_line(line)
     \/ header_cb_redirected
  /\ own_protocols
  /\ UNCHANGED <<pc, at, failed, dispatching, callback, resume>>

header_cb_on_connect ==
  /\ pc = "idle"
  /\ header_cb_upgraded
  /\ enter("on_connect")
  /\ UNCHANGED <<at, failed, owned, resume>>

header_cb_on_close ==
  /\ pc = "idle"
  /\ header_cb_not_accepted
  /\ enter("refused")
  /\ UNCHANGED <<at, failed, owned, resume>>

\* _receive_cb calls the application.  A part of a message that is not the last is
\* kept by the default on_fragment; the last makes it call on_text or on_binary.
receive_cb_on(cb) ==
  /\ pc = "idle"
  /\ response.phase = "upgraded"
  /\ cb \in {"on_message", "on_fragment", "on_ping", "on_pong", "on_close"}
  /\ callback # "on_close"
  /\ enter(cb)
  /\ UNCHANGED <<header_vars, at, failed, owned, resume>>

receive_cb_buffers ==
  /\ pc = "idle"
  /\ response.phase = "upgraded"
  /\ callback # "on_close"
  /\ owned' = owned \cup {"stream_buffer"}
  /\ UNCHANGED <<header_vars, pc, at, failed, dispatching, callback, resume>>

\* Mutant: the callback for a refused upgrade leaves dispatching raised.
callback_return_refused_raised ==
  /\ pc = "callback"
  /\ pc' = "idle"
  /\ dispatching' = IF Guarded(callback) /\ callback # "refused" THEN dispatching - 1 ELSE dispatching
  /\ owned' = IF callback = "on_message" THEN owned \ {"stream_buffer"} ELSE owned
  /\ UNCHANGED <<header_vars, at, failed, callback, resume>>

\* The application returns from a callback.  (The close that a result other than 0
\* asks for is SendQueue's process_rv.)
callback_return ==
  /\ pc = "callback"
  /\ pc' = "idle"
  /\ dispatching' = IF Guarded(callback) THEN dispatching - 1 ELSE dispatching
  /\ owned' = IF callback = "on_message" THEN owned \ {"stream_buffer"} ELSE owned
  /\ UNCHANGED <<header_vars, at, failed, callback, resume>>

-------------------------------------------------------------------------------
(* The application between callbacks or in one, and curl *)

\* A call of the sending API queues frames; curl takes them.
frames_queued ==
  /\ pc \in {"idle", "callback"}
  /\ owned' = owned \cup {"frames"}
  /\ UNCHANGED <<header_vars, pc, at, failed, dispatching, callback, resume>>

frames_sent ==
  /\ pc = "idle"
  /\ owned' = owned \ {"frames"}
  /\ UNCHANGED <<header_vars, pc, at, failed, dispatching, callback, resume>>

curl_acts ==
  /\ pc = "idle"
  /\ curl_follows \/ curl_ends
  /\ UNCHANGED life

\* cws_destroy does nothing while a callback is dispatched.
cws_destroy ==
  /\ pc \in {"idle", "callback"}
  /\ dispatching = 0
  /\ pc' = "destroy"
  /\ resume' = pc
  /\ at' = 1
  /\ UNCHANGED <<header_vars, failed, owned, dispatching, callback>>

\* Mutant: the pool goes before the queue.
FreeOrder_pool_first == <<"url", "easy", "headers", "requested", "received", "key", "mem", "frames",
                          "stream_buffer", "priv">>
FreeOrder == <<"url", "easy", "headers", "requested", "received", "key", "frames", "mem",
               "stream_buffer", "priv">>

\* It frees one thing after the other.
destroy_step ==
  /\ pc = "destroy"
  /\ at \in 1..Len(FreeOrder)
  /\ owned' = owned \ {FreeOrder[at]}
  /\ at' = at + 1
  /\ UNCHANGED <<header_vars, pc, failed, dispatching, callback, resume>>

\* The application returns from a callback in which it destroyed the handle: what
\* the library then does with it is undefined, and the model stops.
cws_destroy_return ==
  /\ pc = "destroy"
  /\ at > Len(FreeOrder)
  /\ pc' = IF resume = "callback" THEN "freed" ELSE "gone"
  /\ UNCHANGED <<header_vars, at, failed, owned, dispatching, callback, resume>>

-------------------------------------------------------------------------------
Init ==
  /\ HeaderInit
  /\ pc = "none"
  /\ at = 1
  /\ failed = FALSE
  /\ owned = {}
  /\ dispatching = 0
  /\ callback = "none"
  /\ resume = "idle"

Terminated == pc \in {"gone", "freed"} /\ UNCHANGED vars

Next ==
  \/ cws_create
  \/ config_step
  \/ cws_create_return
  \/ header_cb
  \/ header_cb_on_connect
  \/ header_cb_on_close
  \/ \E cb \in Callbacks : receive_cb_on(cb)
  \/ receive_cb_buffers
  \/ callback_return
  \/ frames_queued
  \/ frames_sent
  \/ curl_acts
  \/ cws_destroy
  \/ destroy_step
  \/ cws_destroy_return
  \/ Terminated

Spec == Init /\ [][Next]_vars

-------------------------------------------------------------------------------
(* Properties *)

\* The type invariant of the handle.
TypeOK ==
  /\ HeaderTypeOK
  /\ pc \in {"none", "create", "idle", "callback", "destroy", "gone", "freed"}
  /\ at \in 1..Len(ConfigSteps) + 1
  /\ failed \in BOOLEAN
  /\ owned \subseteq Things
  /\ dispatching \in 0..1
  /\ callback \in Callbacks
  /\ resume \in {"idle", "callback"}

\* Whatever step of cws_create fails and whenever the handle is destroyed: what is
\* allocated can be reached from the handle, so that nothing is left when it is
\* gone, and queued frames never outlive the pool that holds them.
OwnedIsReachable ==
  /\ owned # {} => "priv" \in owned
  /\ "frames" \in owned => "mem" \in owned
  /\ pc \in {"gone", "freed"} => owned = {}

\* An application that got a handle got all of it: no failure of a configuration
\* step is lost among the steps that succeed after it.
HandleIsComplete ==
  pc \in {"idle", "callback"} =>
    {"priv", "easy", "url", "headers", "key", "mem"} \subseteq owned

\* The library does not go on with a handle that the application destroyed in a
\* callback ("Make sure we bail without cleaning up when dispatching.", the test of
\* cws_destroy).  The code breaks this: _handle_close does not raise dispatching around
\* on_close, and __process_rv and _error_close then use the handle.
NoUseAfterDestroy == pc # "freed"

\* on_close for a close frame of the peer is the only callback in which that can
\* happen; in every other one cws_destroy leaves the handle alone.
OtherCallbacksKeepHandle ==
  /\ pc = "freed" => callback = "on_close"
  /\ pc = "destroy" /\ resume = "callback" => callback = "on_close"

\* No way through a callback leaves dispatching raised: cws_destroy would have no
\* effect any more.
DispatchingIsBalanced == pc = "idle" => dispatching = 0

\* on_connect is called only for a response that switches the protocol and whose
\* last accept line proves that the server knew the key; it is not given a
\* protocol of another line or response.
ConnectedIsProven ==
  pc = "callback" /\ callback = "on_connect" =>
    /\ Switching(response)
    /\ seen.accept = "expected"
    /\ header_state.ws_protocols_received \in {seen.protocol, NULL}

\* The redirection flag, for which both data callbacks ignore everything, is set
\* for the bytes of a redirection and cleared before the connection is used.
RedirectionIsCurrent ==
  response.phase \in {"headers", "redirect", "upgraded"} =>
    header_state.redirection = Redirecting(response)
===============================================================================
