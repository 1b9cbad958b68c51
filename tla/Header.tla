-------------------------------- MODULE Header --------------------------------
(***************************************************************************)
(* The upgrade handshake as curlws sees it (header.c): curl gives the      *)
(* header lines of each response to _header_cb one by one.  A response     *)
(* with another status than 101 is a redirection that curl follows, or     *)
(* the end.  A line is a record of its name and of what the checks         *)
(* distinguish in its value.                                               *)
(***************************************************************************)
EXTENDS Naturals

CONSTANTS
  Protocols,     \* the values of Sec-WebSocket-Protocol
  NULL,
  MaxRedirects   \* CURLOPT_MAXREDIRS, where it is a limit

ASSUME HeaderAssumption == NULL \notin Protocols /\ MaxRedirects \in Nat

VARIABLES
  follow_redirects,  \* cfg.follow_redirects
  header_state,      \* priv->header_state
  response,          \* curl: the status of the current response, and how far it is
  seen               \* history: the last accept and protocol lines of the response

header_vars == <<follow_redirects, header_state, response, seen>>

Statuses == {"101", "3xx", "other"}
Phases   == {"request",   \* curl waits for a response
             "headers",   \* it is passing the lines of a response
             "redirect",  \* the response is a redirection and complete
             "upgraded",  \* the connection speaks WebSocket
             "ended"}     \* the transfer is over

\* The header lines behind a status line.  An empty protocol is kept as NULL.
Lines == [name : {"accept"},     value : {"expected", "other"}]
         \cup [name : {"protocol"},   value : Protocols \cup {NULL}]
         \cup [name : {"connection"}, value : {"upgrade", "other"}]
         \cup [name : {"upgrade"},    value : {"websocket", "other"}]
         \cup [name : {"ignored"},    value : {NULL}]

NothingSeen == [accept |-> "none", protocol |-> NULL]

no_flags(hs) == [hs EXCEPT !.accepted = FALSE, !.upgraded = FALSE,
                           !.connection_websocket = FALSE, !.ws_protocols_received = NULL]

-------------------------------------------------------------------------------
Redirecting(r) == follow_redirects /\ r.status = "3xx"
Switching(r)   == r.status = "101" /\ r.http11

\* Mutant: the redirection flag is never cleared.
redirection_set(r) ==
  IF follow_redirects THEN [header_state EXCEPT !.redirection = @ \/ Redirecting(r)]
                      ELSE header_state

\* The redirection flag is set and cleared for every line, if curl follows.
redirection_updated(r) ==
  IF follow_redirects THEN [header_state EXCEPT !.redirection = Redirecting(r)]
                      ELSE header_state

\* _check_accept, _check_protocol, _check_upgrade and _check_connection.  (The last
\* two set each the flag that is named after the other; no code reads them.)
checked(hs, line) ==
  CASE line.name = "accept"     -> [hs EXCEPT !.accepted = line.value = "expected"]
    [] line.name = "protocol"   -> [hs EXCEPT !.ws_protocols_received = line.value]
    [] line.name = "upgrade"    -> [hs EXCEPT !.connection_websocket = line.value = "websocket"]
    [] line.name = "connection" -> [hs EXCEPT !.upgraded = line.value = "upgrade"]
    [] OTHER                    -> hs

\* The status line of a response.
header_cb_status(status, http11) ==
  LET r == [response EXCEPT !.status = status, !.http11 = http11]
  IN  /\ response.phase = "request"
      /\ seen' = NothingSeen
      /\ \/ /\ Redirecting(r) \/ Switching(r)
            /\ header_state' = IF Redirecting(r) THEN redirection_updated(r)
                                                 ELSE no_flags(redirection_updated(r))
            /\ response' = [r EXCEPT !.phase = "headers"]
         \/ /\ ~Redirecting(r) /\ ~Switching(r)
            /\ header_state' = redirection_updated(r)
            /\ response' = [r EXCEPT !.phase = "ended"]
      /\ UNCHANGED follow_redirects

\* A line between the status line and the end of the headers.  There may be no
\* memory for the copy of a protocol.
header_cb_line(line) ==
  /\ response.phase = "headers"
  /\ line \in Lines
  /\ LET hs == redirection_updated(response)
     IN  \/ Redirecting(response) /\ header_state' = hs
         \/ Switching(response) /\ header_state' = checked(hs, line)
         \/ /\ Switching(response)
            /\ line.name = "protocol"
            /\ header_state' = checked(hs, [line EXCEPT !.value = NULL])
  /\ seen' = IF line.name \in {"accept", "protocol"} THEN [seen EXCEPT ![line.name] = line.value]
                                                      ELSE seen
  /\ UNCHANGED <<follow_redirects, response>>

\* The end of the headers of a redirection.
header_cb_redirected ==
  /\ response.phase = "headers"
  /\ Redirecting(response)
  /\ header_state' = redirection_updated(response)
  /\ response' = [response EXCEPT !.phase = "redirect"]
  /\ UNCHANGED <<follow_redirects, seen>>

\* Mutant: the accept flag is not asked for.
header_cb_upgraded_unchecked ==
  /\ response.phase = "headers"
  /\ Switching(response)
  /\ header_state' = redirection_updated(response)
  /\ response' = [response EXCEPT !.phase = "upgraded"]
  /\ UNCHANGED <<follow_redirects, seen>>

\* The end of the headers of a 101 response that was accepted: on_connect follows.
header_cb_upgraded ==
  /\ response.phase = "headers"
  /\ Switching(response)
  /\ header_state.accepted
  /\ header_state' = redirection_updated(response)
  /\ response' = [response EXCEPT !.phase = "upgraded"]
  /\ UNCHANGED <<follow_redirects, seen>>

\* The same without: on_close follows, and the callback returns 0.
header_cb_not_accepted ==
  /\ response.phase = "headers"
  /\ Switching(response)
  /\ ~header_state.accepted
  /\ header_state' = redirection_updated(response)
  /\ response' = [response EXCEPT !.phase = "ended"]
  /\ UNCHANGED <<follow_redirects, seen>>

\* curl follows a redirection, or gives up.
curl_follows ==
  /\ response.phase = "redirect"
  /\ \/ /\ response.redirects < MaxRedirects
        /\ response' = [response EXCEPT !.phase = "request", !.redirects = @ + 1]
     \/ response' = [response EXCEPT !.phase = "ended"]
  /\ UNCHANGED <<follow_redirects, header_state, seen>>

\* The transfer ends: the peer or the application closed it, or it failed.
curl_ends ==
  /\ response.phase # "ended"
  /\ response' = [response EXCEPT !.phase = "ended"]
  /\ UNCHANGED <<follow_redirects, header_state, seen>>

ResponseInit ==
  /\ header_state = [redirection |-> FALSE, accepted |-> FALSE, upgraded |-> FALSE,
                     connection_websocket |-> FALSE, ws_protocols_received |-> NULL]
  /\ response = [phase |-> "request", status |-> "other", http11 |-> TRUE, redirects |-> 0]
  /\ seen = NothingSeen

HeaderInit == follow_redirects = FALSE /\ ResponseInit

HeaderTypeOK ==
  /\ follow_redirects \in BOOLEAN
  /\ header_state \in [redirection : BOOLEAN, accepted : BOOLEAN, upgraded : BOOLEAN,
                       connection_websocket : BOOLEAN,
                       ws_protocols_received : Protocols \cup {NULL}]
  /\ response \in [phase : Phases, status : Statuses, http11 : BOOLEAN,
                   redirects : 0..MaxRedirects]
  /\ seen \in [accept : {"none", "expected", "other"}, protocol : Protocols \cup {NULL}]
===============================================================================
