----------------------------- MODULE CreateSteps ------------------------------
(***************************************************************************)
(* The configuration steps of cws_create, for module Session: what each    *)
(* allocates and whether it succeeds.  Module Request has what they do.    *)
(***************************************************************************)
ConfigSteps == <<"memorypool", "url", "security", "redirects", "callbacks", "verbosity",
                 "ws_workarounds", "ws_key", "ws_protocols", "http_headers", "configure">>

\* What a configuration step allocates, and whether it succeeds.
Outcome(got, ok) == [got |-> got, ok |-> ok]
outcomes(name) ==
  CASE name = "memorypool"     -> {Outcome({"mem"}, TRUE)}
    [] name = "url"            -> {Outcome({}, FALSE)} \cup {Outcome({"url"}, ok) : ok \in BOOLEAN}
    [] name = "ws_workarounds" -> {Outcome({}, FALSE)} \cup {Outcome({"headers"}, ok) : ok \in BOOLEAN}
    [] name = "ws_key"         -> {Outcome({}, FALSE), Outcome({"headers", "key"}, TRUE)}
    [] name = "ws_protocols"   -> {Outcome({}, ok) : ok \in BOOLEAN}
                                  \cup {Outcome({"headers"}, FALSE),
                                        Outcome({"headers", "requested"}, TRUE)}
    [] name = "http_headers"   -> {Outcome({}, FALSE)} \cup {Outcome({"headers"}, ok) : ok \in BOOLEAN}
    [] OTHER                   -> {Outcome({}, ok) : ok \in BOOLEAN}
===============================================================================
