---------------------------- MODULE SessionProofs -----------------------------
(***************************************************************************)
(* Theorems about Session, for any set of protocols and any number of      *)
(* redirections: what cws_create builds, what the callbacks of the         *)
(* application may do to the handle, and what the upgrade proves.          *)
(***************************************************************************)
EXTENDS Session, TLAPS

-------------------------------------------------------------------------------
(* Lemmas about module Header *)

\* The values of a header line.
LEMMA LineTypes ==
  ASSUME NEW line \in Lines
  PROVE  /\ line.name \in {"accept", "protocol", "connection", "upgrade", "ignored"}
         /\ line.name = "accept" => line.value \in {"expected", "other"}
         /\ line.name = "protocol" => line.value \in Protocols \cup {NULL}
BY DEF Lines

\* The types of header_state and of response.
HeaderState == [redirection : BOOLEAN, accepted : BOOLEAN, upgraded : BOOLEAN,
                connection_websocket : BOOLEAN, ws_protocols_received : Protocols \cup {NULL}]
Response    == [phase : Phases, status : Statuses, http11 : BOOLEAN, redirects : 0..MaxRedirects]

\* The start of _header_cb touches the redirection flag only.
LEMMA RedirectionUpdated ==
  ASSUME HeaderTypeOK, ~follow_redirects => ~header_state.redirection, NEW r \in Response
  PROVE  LET hs == redirection_updated(r)
         IN  /\ hs \in HeaderState
             /\ hs.redirection = Redirecting(r)
             /\ hs.accepted = header_state.accepted
             /\ hs.ws_protocols_received = header_state.ws_protocols_received
BY DEF HeaderTypeOK, redirection_updated, Redirecting, HeaderState, Response

\* A line that begins with HTTP/ leaves the redirection flag alone.
LEMMA NoFlags ==
  ASSUME NEW hs \in HeaderState
  PROVE  /\ no_flags(hs) \in HeaderState
         /\ no_flags(hs).redirection = hs.redirection
         /\ ~no_flags(hs).accepted
         /\ no_flags(hs).ws_protocols_received = NULL
BY DEF HeaderState, no_flags

\* What a header line changes.
LEMMA Checked ==
  ASSUME NEW hs \in HeaderState, NEW line \in Lines
  PROVE  /\ checked(hs, line) \in HeaderState
         /\ checked(hs, line).redirection = hs.redirection
         /\ checked(hs, line).accepted = IF line.name = "accept" THEN line.value = "expected"
                                                               ELSE hs.accepted
         /\ checked(hs, line).ws_protocols_received =
              IF line.name = "protocol" THEN line.value ELSE hs.ws_protocols_received
BY LineTypes DEF HeaderState, checked

\* The order in which cws_destroy frees, as far as its steps depend on it.
LEMMA FreeOrderFacts ==
  /\ Len(FreeOrder) = 10
  /\ \A i \in 1..10 : FreeOrder[i] \in Things
  /\ \A t \in Things : \E i \in 1..10 : FreeOrder[i] = t
  /\ FreeOrder[7] = "frames"
  /\ \A i \in 1..10 : FreeOrder[i] = "mem" => i = 8
  /\ \A i \in 1..10 : FreeOrder[i] = "priv" => i = 10
BY DEF FreeOrder, Things

\* The names of the configuration steps that later steps depend on.
LEMMA ConfigStepsFacts ==
  /\ Len(ConfigSteps) = 11
  /\ ConfigSteps[1] = "memorypool"
  /\ ConfigSteps[2] = "url"
  /\ ConfigSteps[8] = "ws_key"
BY DEF ConfigSteps

\* What a configuration step gets is one of the things of a handle, and never frames.
LEMMA OutcomeIsThings ==
  ASSUME NEW name, NEW o \in outcomes(name)
  PROVE  o.got \subseteq Things \ {"frames"}
<1> DEFINE Got == {{}, {"mem"}, {"url"}, {"headers"}, {"headers", "key"}, {"headers", "requested"}}
<1> SUFFICES o.got \in Got
  BY DEF Things
<1>1. CASE name = "memorypool"
  <2>1. outcomes(name) = {Outcome({"mem"}, TRUE)}
    BY <1>1 DEF outcomes
  <2> QED BY <2>1 DEF Outcome
<1>2. CASE name = "url"
  <2>1. outcomes(name) = {Outcome({}, FALSE)} \cup {Outcome({"url"}, ok) : ok \in BOOLEAN}
    BY <1>2 DEF outcomes
  <2> QED BY <2>1 DEF Outcome
<1>3. CASE name \in {"ws_workarounds", "http_headers"}
  <2>1. outcomes(name) = {Outcome({}, FALSE)} \cup {Outcome({"headers"}, ok) : ok \in BOOLEAN}
    BY <1>3 DEF outcomes
  <2> QED BY <2>1 DEF Outcome
<1>4. CASE name = "ws_key"
  <2>1. outcomes(name) = {Outcome({}, FALSE), Outcome({"headers", "key"}, TRUE)}
    BY <1>4 DEF outcomes
  <2> QED BY <2>1 DEF Outcome
<1>5. CASE name = "ws_protocols"
  <2>1. outcomes(name) = {Outcome({}, ok) : ok \in BOOLEAN}
                         \cup {Outcome({"headers"}, FALSE), Outcome({"headers", "requested"}, TRUE)}
    BY <1>5 DEF outcomes
  <2> QED BY <2>1 DEF Outcome
<1>6. CASE name \notin {"memorypool", "url", "ws_workarounds", "ws_key", "ws_protocols", "http_headers"}
  <2>1. outcomes(name) = {Outcome({}, ok) : ok \in BOOLEAN}
    BY <1>6 DEF outcomes
  <2> QED BY <2>1 DEF Outcome
<1> QED BY <1>1, <1>2, <1>3, <1>4, <1>5, <1>6

\* What a configuration step got if it succeeded.
LEMMA OutcomeGot ==
  /\ \A o \in outcomes("memorypool") : "mem" \in o.got
  /\ \A o \in outcomes("url") : o.ok => "url" \in o.got
  /\ \A o \in outcomes("ws_key") : o.ok => {"headers", "key"} \subseteq o.got
BY DEF outcomes, Outcome

-------------------------------------------------------------------------------
(* The life of the handle *)

\* The variables that the life of the handle is made of.
LifeTypeOK ==
  /\ pc \in {"none", "create", "idle", "callback", "destroy", "gone", "freed"}
  /\ at \in 1..12
  /\ owned \subseteq Things
  /\ callback \in Callbacks
  /\ resume \in {"idle", "callback"}

\* dispatching counts the callback that runs.  A callback from which cws_destroy can
\* free the handle is one that does not count.
Balanced ==
  /\ dispatching = IF pc = "callback" /\ Guarded(callback) THEN 1 ELSE 0
  /\ pc = "destroy" /\ resume = "callback" => ~Guarded(callback)
  /\ pc = "freed" => ~Guarded(callback)
  /\ pc \in {"none", "create"} => resume = "idle"

\* Every step keeps the types.
LEMMA LifeTypeKeeps == LifeTypeOK /\ [Next]_vars => LifeTypeOK'
<1> SUFFICES ASSUME LifeTypeOK, [Next]_vars PROVE LifeTypeOK'
  OBVIOUS
<1> USE DEF LifeTypeOK
<1>1. CASE cws_create
  <2>1. {"priv"} \subseteq Things /\ {"priv", "easy"} \subseteq Things
    BY DEF Things
  <2> QED BY <1>1, <2>1 DEF cws_create
<1>2. CASE config_step
  BY <1>2, ConfigStepsFacts, OutcomeIsThings DEF config_step
<1>3. CASE cws_create_return
  BY <1>3 DEF cws_create_return
<1>4. CASE header_cb
  BY <1>4 DEF header_cb, own_protocols, Things
<1>5. CASE header_cb_on_connect
  BY <1>5 DEF header_cb_on_connect, enter, Callbacks
<1>6. CASE header_cb_on_close
  BY <1>6 DEF header_cb_on_close, enter, Callbacks
<1>7. ASSUME NEW cb \in Callbacks, receive_cb_on(cb) PROVE LifeTypeOK'
  BY <1>7 DEF receive_cb_on, enter
<1>8. CASE receive_cb_buffers
  BY <1>8 DEF receive_cb_buffers, Things
<1>9. CASE callback_return
  BY <1>9 DEF callback_return
<1>10. CASE frames_queued
  BY <1>10 DEF frames_queued, Things
<1>11. CASE frames_sent
  BY <1>11 DEF frames_sent
<1>12. CASE curl_acts
  BY <1>12 DEF curl_acts, life
<1>13. CASE cws_destroy
  BY <1>13 DEF cws_destroy
<1>14. CASE destroy_step
  BY <1>14, FreeOrderFacts DEF destroy_step
<1>15. CASE cws_destroy_return
  BY <1>15 DEF cws_destroy_return
<1>16. CASE UNCHANGED vars
  BY <1>16 DEF vars, life
<1> QED
  BY <1>1, <1>2, <1>3, <1>4, <1>5, <1>6, <1>7, <1>8, <1>9, <1>10, <1>11, <1>12, <1>13, <1>14,
     <1>15, <1>16 DEF Next, Terminated

\* Every way into a callback and out of it keeps the count.
LEMMA BalancedKeeps == LifeTypeOK /\ Balanced /\ [Next]_vars => Balanced'
<1> SUFFICES ASSUME LifeTypeOK, Balanced, [Next]_vars PROVE Balanced'
  OBVIOUS
<1> USE DEF LifeTypeOK, Balanced, Guarded
<1>1. CASE cws_create
  BY <1>1 DEF cws_create
<1>2. CASE config_step
  BY <1>2 DEF config_step
<1>3. CASE cws_create_return
  BY <1>3 DEF cws_create_return
<1>4. CASE header_cb
  BY <1>4 DEF header_cb
<1>5. CASE header_cb_on_connect
  BY <1>5 DEF header_cb_on_connect, enter
<1>6. CASE header_cb_on_close
  BY <1>6 DEF header_cb_on_close, enter
<1>7. ASSUME NEW cb \in Callbacks, receive_cb_on(cb) PROVE Balanced'
  BY <1>7 DEF receive_cb_on, enter
<1>8. CASE receive_cb_buffers
  BY <1>8 DEF receive_cb_buffers
<1>9. CASE callback_return
  BY <1>9 DEF callback_return
<1>10. CASE frames_queued
  BY <1>10 DEF frames_queued
<1>11. CASE frames_sent
  BY <1>11 DEF frames_sent
<1>12. CASE curl_acts
  BY <1>12 DEF curl_acts, life
<1>13. CASE cws_destroy
  BY <1>13 DEF cws_destroy
<1>14. CASE destroy_step
  BY <1>14 DEF destroy_step
<1>15. CASE cws_destroy_return
  BY <1>15 DEF cws_destroy_return
<1>16. CASE UNCHANGED vars
  BY <1>16 DEF vars, life
<1> QED
  BY <1>1, <1>2, <1>3, <1>4, <1>5, <1>6, <1>7, <1>8, <1>9, <1>10, <1>11, <1>12, <1>13, <1>14,
     <1>15, <1>16 DEF Next, Terminated

-------------------------------------------------------------------------------
(* The memory of the handle                                                    *)

\* What is owned, stage by stage.
Building ==
  pc = "create" => /\ {"priv", "easy"} \subseteq owned /\ "frames" \notin owned
                   /\ 1 < at => "mem" \in owned
                   /\ 2 < at /\ ~failed => "url" \in owned
                   /\ 8 < at /\ ~failed => {"headers", "key"} \subseteq owned
\* cws_destroy has freed what comes before at, and the rest is still there.
Freeing ==
  pc = "destroy" => /\ at <= 11
                    /\ \A i \in 1..10 : i < at => FreeOrder[i] \notin owned
                    /\ at <= 10 => "priv" \in owned

\* The inductive invariant of the memory.
MemoryInv ==
  /\ pc \in {"none", "gone", "freed"} => owned = {}
  /\ Building
  /\ HandleIsComplete
  /\ "frames" \in owned => "mem" \in owned
  /\ Freeing

\* Every step keeps it.
LEMMA MemoryKeeps == LifeTypeOK /\ MemoryInv /\ [Next]_vars => MemoryInv'
<1> SUFFICES ASSUME LifeTypeOK, MemoryInv, [Next]_vars PROVE MemoryInv'
  OBVIOUS
<1> USE DEF LifeTypeOK, MemoryInv, Building, HandleIsComplete, Freeing
<1>1. CASE cws_create
  BY <1>1 DEF cws_create
<1>2. CASE config_step
  <2>1. PICK o \in outcomes(ConfigSteps[at]) :
          owned' = owned \cup o.got /\ failed' = (failed \/ ~o.ok)
    BY <1>2 DEF config_step
  <2>2. "frames" \notin o.got
    BY OutcomeIsThings
  <2>3. at' = at + 1 /\ pc = "create" /\ pc' = "create" /\ at \in Nat
    BY <1>2 DEF config_step
  <2>4. at = 1 => "mem" \in o.got
    BY ConfigStepsFacts, OutcomeGot
  <2>5. at = 2 /\ o.ok => "url" \in o.got
    BY ConfigStepsFacts, OutcomeGot
  <2>6. at = 8 /\ o.ok => {"headers", "key"} \subseteq o.got
    BY ConfigStepsFacts, OutcomeGot
  <2>7. ~failed' => ~failed /\ o.ok
    BY <2>1
  <2>8. owned' = owned \cup o.got
    BY <2>1
  <2>9. 1 < at' => "mem" \in owned'
    BY <2>3, <2>4, <2>8
  <2>10. 2 < at' /\ ~failed' => "url" \in owned'
    BY <2>3, <2>5, <2>7, <2>8
  <2>11. 8 < at' /\ ~failed' => {"headers", "key"} \subseteq owned'
    BY <2>3, <2>6, <2>7, <2>8
  <2> QED BY <2>2, <2>3, <2>8, <2>9, <2>10, <2>11
<1>3. CASE cws_create_return
  BY <1>3, ConfigStepsFacts DEF cws_create_return
<1>4. CASE header_cb
  BY <1>4 DEF header_cb, own_protocols
<1>5. CASE header_cb_on_connect
  BY <1>5 DEF header_cb_on_connect, enter
<1>6. CASE header_cb_on_close
  BY <1>6 DEF header_cb_on_close, enter
<1>7. ASSUME NEW cb \in Callbacks, receive_cb_on(cb) PROVE MemoryInv'
  BY <1>7 DEF receive_cb_on, enter
<1>8. CASE receive_cb_buffers
  BY <1>8 DEF receive_cb_buffers
<1>9. CASE callback_return
  BY <1>9 DEF callback_return
<1>10. CASE frames_queued
  BY <1>10 DEF frames_queued
<1>11. CASE frames_sent
  BY <1>11 DEF frames_sent
<1>12. CASE curl_acts
  BY <1>12 DEF curl_acts, life
<1>13. CASE cws_destroy
  BY <1>13 DEF cws_destroy
<1>14. CASE destroy_step
  BY <1>14, FreeOrderFacts DEF destroy_step
<1>15. CASE cws_destroy_return
  <2>1. pc' \in {"gone", "freed"} /\ at = 11
    BY <1>15, FreeOrderFacts DEF cws_destroy_return
  <2>2. owned = {}
    BY <1>15, <2>1, FreeOrderFacts DEF cws_destroy_return
  <2> QED BY <1>15, <2>1, <2>2 DEF cws_destroy_return
<1>16. CASE UNCHANGED vars
  BY <1>16 DEF vars, life
<1> QED
  BY <1>1, <1>2, <1>3, <1>4, <1>5, <1>6, <1>7, <1>8, <1>9, <1>10, <1>11, <1>12, <1>13, <1>14,
     <1>15, <1>16 DEF Next, Terminated

-------------------------------------------------------------------------------
(* The upgrade *)

\* What _header_cb knows of the response is what the response said, and the flag for
\* the data callbacks is that of the current response.
HeaderInv ==
  /\ HeaderTypeOK
  /\ pc \in {"none", "create"} => response.phase = "request" /\ ~header_state.redirection
  /\ ~follow_redirects => ~header_state.redirection
  /\ response.phase = "headers" /\ Switching(response) =>
       /\ header_state.accepted => seen.accept = "expected"
       /\ header_state.ws_protocols_received \in {seen.protocol, NULL}
  /\ RedirectionIsCurrent

\* The status line.
LEMMA StatusKeeps ==
  ASSUME HeaderInv, NEW status \in Statuses, NEW http11 \in BOOLEAN,
         header_cb_status(status, http11), pc' = "idle"
  PROVE  HeaderInv'
<1> DEFINE r == [response EXCEPT !.status = status, !.http11 = http11]
<1>1. r \in Response /\ r.status = status /\ r.http11 = http11
  BY DEF HeaderInv, HeaderTypeOK, Response
<1>2. redirection_updated(r) \in HeaderState
      /\ redirection_updated(r).redirection = Redirecting(r)
  BY <1>1, RedirectionUpdated DEF HeaderInv
<1>3. CASE /\ Redirecting(r) \/ Switching(r)
           /\ header_state' = IF Redirecting(r) THEN redirection_updated(r)
                                                ELSE no_flags(redirection_updated(r))
           /\ response' = [r EXCEPT !.phase = "headers"]
  <2>1. response' \in Response /\ response'.phase = "headers"
        /\ response'.status = r.status /\ response'.http11 = r.http11
    BY <1>1, <1>3 DEF Response, Phases
  <2>2. header_state' \in HeaderState /\ header_state'.redirection = Redirecting(r)
    BY <1>2, <1>3, NoFlags
  <2>3. Redirecting(response)' = Redirecting(r) /\ Switching(response)' = Switching(r)
    BY <2>1 DEF header_cb_status, Redirecting, Switching
  <2>4. Switching(r) => ~header_state'.accepted /\ header_state'.ws_protocols_received = NULL
    BY <1>2, <1>3, NoFlags DEF Switching, Redirecting
  <2>5. seen' = NothingSeen /\ follow_redirects' = follow_redirects
    BY DEF header_cb_status
  <2>6. HeaderTypeOK'
    BY <2>1, <2>2, <2>5 DEF HeaderTypeOK, HeaderState, Response, NothingSeen, HeaderInv
  <2>7. ~follow_redirects' => ~header_state'.redirection
    BY <2>2, <2>5 DEF Redirecting
  <2> QED BY <2>1, <2>2, <2>3, <2>4, <2>6, <2>7 DEF HeaderInv, RedirectionIsCurrent
<1>4. CASE header_state' = redirection_updated(r) /\ response' = [r EXCEPT !.phase = "ended"]
  <2>1. response' \in Response /\ response'.phase = "ended"
    BY <1>1, <1>4 DEF Response, Phases
  <2>2. seen' = NothingSeen /\ follow_redirects' = follow_redirects
    BY DEF header_cb_status
  <2>3. HeaderTypeOK'
    BY <1>2, <1>4, <2>1, <2>2 DEF HeaderTypeOK, HeaderState, Response, NothingSeen, HeaderInv
  <2>4. ~follow_redirects' => ~header_state'.redirection
    BY <1>2, <1>4, <2>2 DEF Redirecting
  <2> QED BY <2>1, <2>3, <2>4 DEF HeaderInv, RedirectionIsCurrent
<1> QED BY <1>3, <1>4 DEF header_cb_status

\* A header line.
LEMMA LineKeeps ==
  ASSUME HeaderInv, NEW line \in Lines, header_cb_line(line), pc' = "idle"
  PROVE  HeaderInv'
<1> DEFINE hs == redirection_updated(response)
<1>1. response \in Response /\ response.phase = "headers"
  BY DEF header_cb_line, HeaderInv, HeaderTypeOK, Response
<1>2. /\ hs \in HeaderState
      /\ hs.redirection = Redirecting(response)
      /\ hs.accepted = header_state.accepted
      /\ hs.ws_protocols_received = header_state.ws_protocols_received
  BY <1>1, RedirectionUpdated DEF HeaderInv
<1>3. UNCHANGED <<follow_redirects, response>>
      /\ seen' = IF line.name \in {"accept", "protocol"} THEN [seen EXCEPT ![line.name] = line.value]
                                                           ELSE seen
  BY DEF header_cb_line
<1>4. seen' \in [accept : {"none", "expected", "other"}, protocol : Protocols \cup {NULL}]
      /\ seen'.accept = (IF line.name = "accept" THEN line.value ELSE seen.accept)
      /\ seen'.protocol = (IF line.name = "protocol" THEN line.value ELSE seen.protocol)
  BY <1>3, LineTypes DEF HeaderInv, HeaderTypeOK
<1>5. ~follow_redirects => ~Redirecting(response)
  BY DEF Redirecting
<1>6. CASE Redirecting(response) /\ header_state' = hs
  <2>1. ~Switching(response)
    BY <1>6 DEF Redirecting, Switching
  <2> QED BY <1>1, <1>2, <1>3, <1>4, <1>5, <1>6, <2>1
          DEF HeaderInv, HeaderTypeOK, HeaderState, RedirectionIsCurrent, Redirecting, Switching
<1>7. ASSUME Switching(response), NEW l \in Lines, header_state' = checked(hs, l),
             l = line \/ (line.name = "protocol" /\ l = [line EXCEPT !.value = NULL])
      PROVE  HeaderInv'
  <2>1. l.name = line.name /\ (l.value = line.value \/ (line.name = "protocol" /\ l.value = NULL))
    BY <1>7 DEF Lines
  <2>2. /\ header_state' \in HeaderState
        /\ header_state'.redirection = Redirecting(response)
        /\ header_state'.accepted = IF l.name = "accept" THEN l.value = "expected" ELSE hs.accepted
        /\ header_state'.ws_protocols_received =
             IF l.name = "protocol" THEN l.value ELSE hs.ws_protocols_received
    BY <1>2, <1>7, Checked
  <2> HIDE DEF hs
  <2>3. header_state'.accepted => seen'.accept = "expected"
    BY <1>1, <1>2, <1>4, <1>7, <2>1, <2>2 DEF HeaderInv
  <2>4. header_state'.ws_protocols_received \in {seen'.protocol, NULL}
    BY <1>1, <1>2, <1>4, <1>7, <2>1, <2>2 DEF HeaderInv
  <2>5. HeaderTypeOK'
    BY <1>3, <1>4, <2>2 DEF HeaderInv, HeaderTypeOK, HeaderState
  <2>6. RedirectionIsCurrent' /\ (~follow_redirects' => ~header_state'.redirection)
    BY <1>3, <1>5, <2>2 DEF RedirectionIsCurrent, Redirecting
  <2> QED BY <2>3, <2>4, <2>5, <2>6 DEF HeaderInv
<1>8. line.name = "protocol" => [line EXCEPT !.value = NULL] \in Lines
  BY DEF Lines
<1>9. Switching(response) /\ header_state' = checked(hs, line) => HeaderInv'
  BY <1>7
<1>10. /\ Switching(response) /\ line.name = "protocol"
       /\ header_state' = checked(hs, [line EXCEPT !.value = NULL])
       => HeaderInv'
  BY <1>7, <1>8
<1> QED BY <1>6, <1>9, <1>10 DEF header_cb_line

\* The end of the headers, and what curl does then.
LEMMA EndKeeps ==
  ASSUME HeaderInv, pc' \in {"idle", "callback"},
         \/ header_cb_redirected \/ header_cb_upgraded \/ header_cb_not_accepted
  PROVE  HeaderInv'
<1>1. response \in Response
  BY DEF HeaderInv, HeaderTypeOK, Response
<1>2. header_state' = redirection_updated(response) /\ UNCHANGED <<follow_redirects, seen>>
  BY DEF header_cb_redirected, header_cb_upgraded, header_cb_not_accepted
<1>3. header_state' \in HeaderState /\ header_state'.redirection = Redirecting(response)
  BY <1>1, <1>2, RedirectionUpdated DEF HeaderInv
<1>4. PICK p \in {"redirect", "upgraded", "ended"} : response' = [response EXCEPT !.phase = p]
  BY DEF header_cb_redirected, header_cb_upgraded, header_cb_not_accepted
<1>5. response' \in Response /\ response'.phase = p /\ response'.status = response.status
  BY <1>1, <1>4 DEF Response, Phases
<1>6. Redirecting(response)' = Redirecting(response)
  BY <1>2, <1>5 DEF Redirecting
<1>7. HeaderTypeOK'
  BY <1>2, <1>3, <1>5 DEF HeaderInv, HeaderTypeOK, HeaderState, Response
<1>8. RedirectionIsCurrent' /\ (~follow_redirects' => ~header_state'.redirection)
  BY <1>2, <1>3, <1>6 DEF RedirectionIsCurrent, Redirecting
<1> QED BY <1>5, <1>7, <1>8 DEF HeaderInv

\* curl follows a redirection, or ends the transfer.
LEMMA CurlKeeps ==
  ASSUME HeaderInv, pc' = "idle", curl_follows \/ curl_ends
  PROVE  HeaderInv'
<1>1. UNCHANGED <<follow_redirects, header_state, seen>>
  BY DEF curl_follows, curl_ends
<1>2. response' \in Response /\ response'.phase \in {"request", "ended"}
  <2>1. response \in Response
    BY DEF HeaderInv, HeaderTypeOK, Response
  <2>2. CASE curl_follows
    <3>1. response.redirects < MaxRedirects => response.redirects + 1 \in 0..MaxRedirects
      BY <2>1, HeaderAssumption DEF Response
    <3>2. CASE /\ response.redirects < MaxRedirects
               /\ response' = [response EXCEPT !.phase = "request", !.redirects = @ + 1]
      BY <2>1, <3>1, <3>2 DEF Response, Phases
    <3>3. CASE response' = [response EXCEPT !.phase = "ended"]
      BY <2>1, <3>3 DEF Response, Phases
    <3> QED BY <2>2, <3>2, <3>3 DEF curl_follows
  <2>3. CASE curl_ends
    BY <2>1, <2>3 DEF curl_ends, Response, Phases
  <2> QED BY <2>2, <2>3
<1> QED BY <1>1, <1>2 DEF HeaderInv, HeaderTypeOK, Response, RedirectionIsCurrent

\* Every step keeps what _header_cb knows.
LEMMA HeaderKeeps == LifeTypeOK /\ HeaderInv /\ [Next]_vars => HeaderInv'
<1> SUFFICES ASSUME LifeTypeOK, HeaderInv, [Next]_vars PROVE HeaderInv'
  OBVIOUS
<1>0. ASSUME UNCHANGED header_vars, pc' \in {"none", "create"} => pc \in {"none", "create"}
      PROVE  HeaderInv'
  BY <1>0 DEF header_vars, HeaderInv, HeaderTypeOK, RedirectionIsCurrent, Redirecting, Switching
<1>1. CASE cws_create
  BY <1>0, <1>1 DEF cws_create
<1>2. CASE config_step
  <2>1. UNCHANGED <<header_state, response, seen, pc>> /\ pc = "create"
        /\ follow_redirects' \in (IF ConfigSteps[at] = "redirects" THEN BOOLEAN ELSE {follow_redirects})
    BY <1>2 DEF config_step
  <2>2. follow_redirects' \in BOOLEAN
    BY <2>1 DEF HeaderInv, HeaderTypeOK
  <2> QED BY <2>1, <2>2 DEF HeaderInv, HeaderTypeOK, RedirectionIsCurrent
<1>3. CASE cws_create_return
  BY <1>0, <1>3 DEF cws_create_return
<1>4. CASE header_cb
  BY <1>4, StatusKeeps, LineKeeps, EndKeeps DEF header_cb
<1>5. CASE header_cb_on_connect
  BY <1>5, EndKeeps DEF header_cb_on_connect, enter
<1>6. CASE header_cb_on_close
  BY <1>6, EndKeeps DEF header_cb_on_close, enter
<1>7. ASSUME NEW cb \in Callbacks, receive_cb_on(cb) PROVE HeaderInv'
  BY <1>0, <1>7 DEF receive_cb_on, enter
<1>8. CASE receive_cb_buffers
  BY <1>0, <1>8 DEF receive_cb_buffers
<1>9. CASE callback_return
  BY <1>0, <1>9 DEF callback_return
<1>10. CASE frames_queued
  BY <1>0, <1>10 DEF frames_queued
<1>11. CASE frames_sent
  BY <1>0, <1>11 DEF frames_sent
<1>12. CASE curl_acts
  BY <1>12, CurlKeeps DEF curl_acts, life
<1>13. CASE cws_destroy
  BY <1>0, <1>13 DEF cws_destroy
<1>14. CASE destroy_step
  BY <1>0, <1>14 DEF destroy_step
<1>15. CASE cws_destroy_return
  BY <1>0, <1>15 DEF cws_destroy_return
<1>16. CASE UNCHANGED vars
  BY <1>0, <1>16 DEF vars, life
<1> QED
  BY <1>1, <1>2, <1>3, <1>4, <1>5, <1>6, <1>7, <1>8, <1>9, <1>10, <1>11, <1>12, <1>13, <1>14,
     <1>15, <1>16 DEF Next, Terminated

\* on_connect starts with what the end of the headers found, and nothing in the header
\* state changes until the application returns.
LEMMA ConnectedKeeps ==
  LifeTypeOK /\ Balanced /\ HeaderInv /\ ConnectedIsProven /\ [Next]_vars => ConnectedIsProven'
<1> SUFFICES ASSUME LifeTypeOK, Balanced, HeaderInv, ConnectedIsProven, [Next]_vars,
                    pc' = "callback" /\ callback' = "on_connect"
             PROVE  /\ Switching(response)'
                    /\ seen'.accept = "expected"
                    /\ header_state'.ws_protocols_received \in {seen'.protocol, NULL}
  BY DEF ConnectedIsProven
<1> USE DEF ConnectedIsProven, Switching
<1>1. CASE header_cb_on_connect
  <2>1. header_cb_upgraded
    BY <1>1 DEF header_cb_on_connect
  <2>2. response \in Response /\ response' = [response EXCEPT !.phase = "upgraded"]
        /\ seen' = seen
    BY <2>1 DEF header_cb_upgraded, HeaderInv, HeaderTypeOK, Response
  <2>3. response'.status = response.status /\ response'.http11 = response.http11
    BY <2>2 DEF Response
  <2>4. header_state'.ws_protocols_received = header_state.ws_protocols_received
    BY <2>1, <2>2, RedirectionUpdated DEF header_cb_upgraded, HeaderInv
  <2> QED BY <2>1, <2>2, <2>3, <2>4 DEF header_cb_upgraded, HeaderInv
<1>2. CASE UNCHANGED <<header_vars, pc, callback>>
  BY <1>2 DEF header_vars
<1>3. CASE cws_destroy_return
  BY <1>3 DEF cws_destroy_return, Balanced, Guarded
<1>4. CASE header_cb_on_close
  BY <1>4 DEF header_cb_on_close, enter
<1>5. ASSUME NEW cb \in Callbacks, receive_cb_on(cb) PROVE FALSE
  BY <1>5 DEF receive_cb_on, enter
<1>6. CASE UNCHANGED vars
  BY <1>2, <1>6 DEF vars, life
<1>7. frames_queued => UNCHANGED <<header_vars, pc, callback>>
  BY DEF frames_queued
<1> QED
  BY <1>1, <1>2, <1>3, <1>4, <1>5, <1>6, <1>7
     DEF Next, Terminated, cws_create, config_step, cws_create_return, header_cb,
         receive_cb_buffers, callback_return, frames_sent, curl_acts, life, cws_destroy,
         destroy_step

-------------------------------------------------------------------------------
(* The theorems *)

\* Before cws_create all of it holds.
LEMMA InitHolds ==
  Init => /\ LifeTypeOK /\ Balanced /\ MemoryInv /\ HeaderInv /\ ConnectedIsProven
<1> SUFFICES ASSUME Init PROVE LifeTypeOK /\ Balanced /\ MemoryInv /\ HeaderInv /\ ConnectedIsProven
  OBVIOUS
<1>1. LifeTypeOK /\ Balanced /\ ConnectedIsProven
  BY DEF Init, LifeTypeOK, Balanced, ConnectedIsProven, Callbacks
<1>2. MemoryInv
  BY DEF Init, MemoryInv, Building, HandleIsComplete, Freeing
<1>3. HeaderTypeOK
  <2>1. TRUE \in BOOLEAN /\ FALSE \in BOOLEAN
    OBVIOUS
  <2>2. follow_redirects \in BOOLEAN
    BY <2>1 DEF Init, HeaderInit, ResponseInit
  <2>3. header_state \in [redirection : BOOLEAN, accepted : BOOLEAN, upgraded : BOOLEAN,
                          connection_websocket : BOOLEAN,
                          ws_protocols_received : Protocols \cup {NULL}]
    BY <2>1 DEF Init, HeaderInit, ResponseInit
  <2>4. response \in [phase : Phases, status : Statuses, http11 : BOOLEAN,
                      redirects : 0..MaxRedirects]
    <3>1. 0 \in 0..MaxRedirects /\ "request" \in Phases /\ "other" \in Statuses
      BY HeaderAssumption DEF Phases, Statuses
    <3> QED BY <2>1, <3>1 DEF Init, HeaderInit, ResponseInit
  <2>5. seen \in [accept : {"none", "expected", "other"}, protocol : Protocols \cup {NULL}]
    BY DEF Init, HeaderInit, ResponseInit, NothingSeen
  <2> QED BY <2>2, <2>3, <2>4, <2>5 DEF HeaderTypeOK
<1>4. HeaderInv
  BY <1>3 DEF Init, HeaderInit, ResponseInit, HeaderInv, RedirectionIsCurrent
<1> QED BY <1>1, <1>2, <1>4

\* The inductive invariant of a session.
LEMMA Invariant == Spec => [](LifeTypeOK /\ Balanced /\ MemoryInv /\ HeaderInv /\ ConnectedIsProven)
<1>1. /\ LifeTypeOK /\ Balanced /\ MemoryInv /\ HeaderInv /\ ConnectedIsProven
      /\ [Next]_vars
      => (LifeTypeOK /\ Balanced /\ MemoryInv /\ HeaderInv /\ ConnectedIsProven)'
  BY LifeTypeKeeps, BalancedKeeps, MemoryKeeps, HeaderKeeps, ConnectedKeeps
<1> QED BY <1>1, InitHolds, PTL DEF Spec

\* Every variable of a session keeps its type; dispatching, a counter without guard in
\* cb.c's callers, is never more than 1 and never falls below 0.
THEOREM TypeCorrect == Spec => []TypeOK
<1>1. LifeTypeOK /\ Balanced /\ HeaderInv /\ failed \in BOOLEAN => TypeOK
  BY ConfigStepsFacts DEF LifeTypeOK, Balanced, HeaderInv, TypeOK
<1>2. Init => failed \in BOOLEAN
  BY DEF Init
<1>3. failed \in BOOLEAN /\ [Next]_vars => (failed \in BOOLEAN)'
  BY DEF Next, Terminated, vars, life, cws_create, config_step, cws_create_return, header_cb,
         header_cb_on_connect, header_cb_on_close, receive_cb_on, receive_cb_buffers,
         callback_return, frames_queued, frames_sent, curl_acts, cws_destroy, destroy_step,
         cws_destroy_return
<1> QED BY <1>1, <1>2, <1>3, Invariant, PTL DEF Spec

\* Between callbacks dispatching is 0 again, so that cws_destroy is never ignored
\* there: every way through header.c and receive.c into the application is paired.
THEOREM DispatchingBalanced == Spec => []DispatchingIsBalanced
<1>1. Balanced => DispatchingIsBalanced
  BY DEF Balanced, DispatchingIsBalanced
<1> QED BY <1>1, Invariant, PTL

\* on_connect follows only a 101 response with the expected key.
THEOREM UpgradeIsProven == Spec => []ConnectedIsProven
BY Invariant, PTL

\* Both data callbacks see the redirection flag of the current response.
THEOREM RedirectionCurrent == Spec => []RedirectionIsCurrent
<1>1. HeaderInv => RedirectionIsCurrent
  BY DEF HeaderInv
<1> QED BY <1>1, Invariant, PTL

\* Whatever fails in cws_create and whenever the handle is destroyed, nothing that was
\* allocated is lost, and no frame outlives the pool.
THEOREM NothingIsLost == Spec => []OwnedIsReachable
<1>1. LifeTypeOK /\ MemoryInv => OwnedIsReachable
  <2> SUFFICES ASSUME LifeTypeOK, MemoryInv PROVE OwnedIsReachable
    OBVIOUS
  <2>1. pc = "destroy" /\ at = 11 => owned = {}
    BY FreeOrderFacts DEF LifeTypeOK, MemoryInv, Freeing
  <2> QED BY <2>1 DEF LifeTypeOK, MemoryInv, Building, HandleIsComplete, Freeing, OwnedIsReachable
<1> QED BY <1>1, Invariant, PTL

\* A handle that cws_create returns has everything, whichever steps failed, for as long
\* as the application has it.
THEOREM HandleComplete == Spec => []HandleIsComplete
<1>1. MemoryInv => HandleIsComplete
  BY DEF MemoryInv
<1> QED BY <1>1, Invariant, PTL

\* on_close for a close frame of the peer is the only callback from which the library
\* can go on with a handle that was freed in it; the calls in header.c, receive.c and
\* the default on_fragment keep the handle whatever the application calls.
THEOREM HandleOutlivesOtherCallbacks == Spec => []OtherCallbacksKeepHandle
<1>1. Balanced => OtherCallbacksKeepHandle
  BY DEF Balanced, Guarded, OtherCallbacksKeepHandle
<1> QED BY <1>1, Invariant, PTL
===============================================================================
