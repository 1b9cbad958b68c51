----------------------------- MODULE Conversation ------------------------------
(***************************************************************************)
(* What an application of curlws may rely on when it orders its own work   *)
(* by the callbacks: on_connect comes first and once; messages and control *)
(* frames come between it and the end; on_close is the last callback, and  *)
(* it is missing only if the peer broke the protocol or the transfer       *)
(* failed.  An upgrade that is refused leads to on_close alone.            *)
(***************************************************************************)
EXTENDS Naturals, Sequences

VARIABLES
  stage,  \* "connecting", "open" or "closed"
  heard   \* the callbacks of the application so far

Between == {"on_message", "on_pong"}

Init == stage = "connecting" /\ heard = << >>

Hears(cb) == heard' = Append(heard, cb)

Connected == stage = "connecting" /\ stage' = "open" /\ Hears("on_connect")
Refused   == stage = "connecting" /\ stage' = "closed" /\ Hears("on_close")
Message   == stage = "open" /\ (\E cb \in Between : Hears(cb)) /\ UNCHANGED stage
Closed    == stage = "open" /\ stage' = "closed" /\ Hears("on_close")

\* A breach of the protocol, or the end of the transfer.
Broken    == stage # "closed" /\ stage' = "closed" /\ UNCHANGED heard

Next == Connected \/ Refused \/ Message \/ Closed \/ Broken

Spec == Init /\ [][Next]_<<stage, heard>>
===============================================================================
