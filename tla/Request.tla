-------------------------------- MODULE Request --------------------------------
(***************************************************************************)
(* What cws_create makes of its configuration: the request that curl will  *)
(* send, the options given to curl, and the fields of the handle that the  *)
(* rest of the library reads.  Each configuration step is an operator that *)
(* gives the handles that may come of it; curl and malloc may fail in any  *)
(* of them, and a failure does not stop the steps behind it.               *)
(*                                                                         *)
(* A header line is its name, which cws_has_prefix finds whatever its case *)
(* and the space before it (module Strings), and where it comes from.      *)
(***************************************************************************)
EXTENDS FrameCodec, FiniteSetsExt, CreateSteps

CONSTANTS Unset,      \* an option of curl that was not set, a pointer that is NULL
          BufOverhead \* sizeof(struct cws_buf_queue)

ASSUME RequestAssumption == BufOverhead \in Nat /\ Unset \notin {0, 1}

\* struct cws_config is a record of the fields named below; url is the scheme.

Library(name) == [name |-> name, from |-> "library"]
Extra(name)   == [name |-> name, from |-> "application"]

\* The handle after calloc: "opts" are the options of curl.
NewHandle ==
  [failed |-> FALSE, headers |-> << >>, follow_redirects |-> FALSE, verbose |-> 0,
   max_payload_size |-> 0, data_block_size |-> 0, control_block_size |-> 0,
   url |-> Unset, expected_key_header |-> Unset, ws_protocols_requested |-> Unset,
   opts |-> [o \in {"URL", "FOLLOWLOCATION", "MAXREDIRS", "VERBOSE", "HTTPHEADER"} |-> Unset]]

fails(h) == [h EXCEPT !.failed = TRUE]

\* The step is done, unless curl refuses an option.
set_or_fails(h) == {h, fails(h)}

\* curl_slist_append
append(h, line) == [h EXCEPT !.headers = Append(@, line)]

-------------------------------------------------------------------------------
send_get_memory_needed(payload_size) == BufOverhead + payload_size

config_memorypool(config, h) ==
  LET max == IF config.max_payload_size = 0 THEN 1024 ELSE config.max_payload_size
  IN  {[h EXCEPT !.max_payload_size   = max,
                 !.data_block_size    = send_get_memory_needed(max + WS_FRAME_HEADER_MAX),
                 !.control_block_size = send_get_memory_needed(WS_CTL_FRAME_MAX)]}

\* cws_rewrite_url: curl knows ws and wss as http and https.
cws_rewrite_url(scheme) ==
  CASE scheme = "ws"  -> "http"
    [] scheme = "wss" -> "https"
    [] OTHER          -> scheme

config_url(config, h) ==
  LET url == cws_rewrite_url(config.url)
  IN  {fails(h)} \cup IF config.url = Unset THEN {}
                      ELSE set_or_fails([h EXCEPT !.url = url, !.opts["URL"] = url])

config_security(config, h) == set_or_fails(h)

config_redirects(config, h) ==
  IF config.max_redirects < -1 THEN {fails(h)}
  ELSE IF config.max_redirects = 0 THEN {h}
  ELSE set_or_fails([h EXCEPT !.follow_redirects       = TRUE,
                              !.opts["FOLLOWLOCATION"] = 1,
                              !.opts["MAXREDIRS"]      = config.max_redirects])

config_verbosity(config, h) ==
  IF config.verbose < 0 THEN {fails(h)}
  ELSE IF config.verbose < 2 THEN {[h EXCEPT !.verbose = config.verbose]}
  ELSE set_or_fails([h EXCEPT !.verbose         = IF 3 < config.verbose THEN 3 ELSE config.verbose,
                              !.opts["VERBOSE"] = 1])

config_ws_workarounds(config, h) ==
  IF config.expect \notin {0, 1} THEN {fails(h)}
  ELSE LET expecting == IF config.expect = 1 THEN append(h, Library("Expect")) ELSE h
       IN  {fails(h), fails(expecting)}
           \cup set_or_fails(append(expecting, Library("Transfer-Encoding")))

config_ws_key(config, h) ==
  {fails(h), [append(h, Library("Sec-WebSocket-Key")) EXCEPT !.expected_key_header = "sha1"]}

config_ws_protocols(config, h) ==
  LET sent == append(h, Library("Sec-WebSocket-Protocol"))
  IN  IF config.websocket_protocols = Unset THEN {h}
      ELSE {fails(h), fails(sent),
            [sent EXCEPT !.ws_protocols_requested = config.websocket_protocols]}

disallowed == {"Connection", "Content-Length", "Content-Type", "Expect", "Sec-WebSocket-Accept",
               "Sec-WebSocket-Key", "Sec-WebSocket-Protocol", "Sec-WebSocket-Version",
               "Transfer-Encoding", "Upgrade"}

ws_headers == <<Library("Connection"), Library("Upgrade"), Library("Sec-WebSocket-Version")>>

\* Mutant: the extra headers are not looked at.
config_http_headers_unchecked(config, h) ==
  LET lines == ws_headers \o [i \in 1..Len(config.extra_headers) |-> Extra(config.extra_headers[i])]
      all   == [h EXCEPT !.headers = @ \o lines]
  IN  set_or_fails([all EXCEPT !.opts["HTTPHEADER"] = all.headers])

\* The lines are appended one by one until one is disallowed or there is no memory.
config_http_headers(config, h) ==
  LET lines == ws_headers \o [i \in 1..Len(config.extra_headers) |-> Extra(config.extra_headers[i])]
      first(n)  == [h EXCEPT !.headers = @ \o SubSeq(lines, 1, n)]
      bad       == {i \in 1..Len(lines) : lines[i].from = "application" /\ lines[i].name \in disallowed}
      appended  == IF bad = {} THEN Len(lines) ELSE Min(bad) - 1
      all       == first(Len(lines))
  IN  {fails(first(n)) : n \in 0..appended}
      \cup IF bad = {} THEN set_or_fails([all EXCEPT !.opts["HTTPHEADER"] = all.headers]) ELSE {}

\* config->configure of the application, if there is one.
configure(config, h) == IF config.configure = Unset THEN {h} ELSE set_or_fails(h)

\* header_init, receive_init and send_init
init_callbacks(config, h) == set_or_fails(h)

-------------------------------------------------------------------------------
\* The step of that name.
step(name, config, h) ==
  CASE name = "memorypool"     -> config_memorypool(config, h)
    [] name = "url"            -> config_url(config, h)
    [] name = "security"       -> config_security(config, h)
    [] name = "redirects"      -> config_redirects(config, h)
    [] name = "callbacks"      -> init_callbacks(config, h)
    [] name = "verbosity"      -> config_verbosity(config, h)
    [] name = "ws_workarounds" -> config_ws_workarounds(config, h)
    [] name = "ws_key"         -> config_ws_key(config, h)
    [] name = "ws_protocols"   -> config_ws_protocols(config, h)
    [] name = "http_headers"   -> config_http_headers(config, h)
    [] name = "configure"      -> configure(config, h)

\* The handles there may be after k steps.
after(config, k) ==
  LET After[i \in 0..k] == IF i = 0 THEN {NewHandle}
                           ELSE UNION {step(ConfigSteps[i], config, h) : h \in After[i - 1]}
  IN  After[k]

\* The handles that cws_create returns; the others are destroyed.
created(config) == {h \in after(config, Len(ConfigSteps)) : ~h.failed}
===============================================================================
