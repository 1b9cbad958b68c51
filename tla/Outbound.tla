------------------------------- MODULE Outbound -------------------------------
(***************************************************************************)
(* What the sending side of curlws promises, frame by frame and without    *)
(* buffers, bytes or curl: a line that the submitted frames leave in the   *)
(* order in which they joined it, each once and none dropped, and that a   *)
(* close frame shuts: nothing is accepted behind one.                      *)
(* A frame counts as emitted from its first byte on.                       *)
(***************************************************************************)
EXTENDS Naturals, Sequences

CONSTANT Frame   \* a frame: a record with at least the field is_close

VARIABLES
  pending,  \* the submitted frames that have not started to leave
  emitted   \* the frames that have started to leave, in order

CloseIn(s) == \E i \in 1..Len(s) : s[i].is_close

\* A close has been submitted.
Closing == CloseIn(pending) \/ CloseIn(emitted)

Init == pending = << >> /\ emitted = << >>

Submit(f) ==
  /\ ~Closing
  /\ pending' = Append(pending, f)
  /\ UNCHANGED emitted

Emit ==
  /\ pending # << >>
  /\ emitted' = Append(emitted, Head(pending))
  /\ pending' = Tail(pending)

\* The new frame is any frame; the next state tells which.
SubmitSome ==
  /\ pending' # << >>
  /\ LET last == pending'[Len(pending')]
     IN  last \in Frame /\ Submit(last)

Next == SubmitSome \/ Emit

Spec == Init /\ [][Next]_<<pending, emitted>>
===============================================================================
