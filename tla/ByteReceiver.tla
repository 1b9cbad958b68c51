----------------------------- MODULE ByteReceiver -----------------------------
(***************************************************************************)
(* What the receiving side promises: the callbacks an application sees are *)
(* a function of the bytes the server sent, whatever buffers curl delivers *)
(* them in.  The function is given byte by byte: After(s)[k] is the state  *)
(* after k bytes of s, and its out lists what the application was told,    *)
(* with the payload of data frames byte by byte.  A text is delivered in   *)
(* whole characters; a text that cannot be valid any more, or ends within  *)
(* a character, is an error (1007), as is a broken protocol (1002).        *)
(***************************************************************************)
EXTENDS FrameCodec, Unicode

NoFrame == [opcode |-> -1, fin |-> FALSE, is_control |-> FALSE, payload_len |-> 0]

\* What the application is told: the start, a byte and the end of a message, a
\* control frame, or that the library closes the connection with a code.
Started(type)     == [fn |-> "first", what |-> type, code |-> 0, data |-> << >>]
DataByte(b)       == [fn |-> "byte",  what |-> "",   code |-> 0, data |-> <<b>>]
Ended             == [fn |-> "last",  what |-> "",   code |-> 0, data |-> << >>]
Control(fn, data) == [fn |-> fn,      what |-> "",   code |-> 0, data |-> data]
Closed(code, data) == [fn |-> "on_close", what |-> "", code |-> code, data |-> data]
Failed(code)      == [fn |-> "error", what |-> "",   code |-> code, data |-> << >>]

DataBytes(data) == [i \in 1..Len(data) |-> DataByte(data[i])]

close_code(data) == data[1] * 256 + data[2]

\* What the payload of a close frame leads to.
close_result(data) ==
  IF data = << >> THEN Closed(1005, << >>)
  ELSE IF Len(data) = 1 \/ ~is_close_code_valid(close_code(data)) THEN Failed(1002)
  ELSE IF ~IsText(SubSeq(data, 3, Len(data))) THEN Failed(1007)
  ELSE Closed(close_code(data), SubSeq(data, 3, Len(data)))

-------------------------------------------------------------------------------
Start == [hdr |-> << >>, frame |-> NoFrame, left |-> 0, type |-> "none",
          held |-> << >>, ctl |-> << >>, done |-> FALSE, out |-> << >>]

Stop(s, item) == [s EXCEPT !.done = TRUE, !.out = Append(@, item)]

\* The frame of s has no bytes left.
EndFrame(s) ==
  LET t == [s EXCEPT !.frame = NoFrame, !.hdr = << >>, !.ctl = << >>]
  IN  IF s.frame.opcode = WS_OPCODE_CLOSE     THEN Stop(s, close_result(s.ctl))
      ELSE IF s.frame.opcode = WS_OPCODE_PING THEN [t EXCEPT !.out = Append(@, Control("on_ping", s.ctl))]
      ELSE IF s.frame.opcode = WS_OPCODE_PONG THEN [t EXCEPT !.out = Append(@, Control("on_pong", s.ctl))]
      ELSE IF ~s.frame.fin                    THEN t
      ELSE IF s.held # << >>                  THEN Stop(s, Failed(1007))
      ELSE [t EXCEPT !.type = "none", !.out = Append(@, Ended)]

\* The header of s is complete.
BeginFrame(s, f) ==
  LET t == [s EXCEPT !.frame = f, !.left = f.payload_len]
      u == CASE f.is_control -> t
             [] ~f.is_control /\ f.opcode = WS_OPCODE_CONTINUATION /\ s.type # "none" -> t
             [] f.opcode = WS_OPCODE_BINARY /\ s.type = "none" ->
                  [t EXCEPT !.type = "BINARY", !.out = Append(@, Started("BINARY"))]
             [] f.opcode = WS_OPCODE_TEXT /\ s.type = "none" ->
                  [t EXCEPT !.type = "TEXT", !.out = Append(@, Started("TEXT"))]
             [] OTHER -> Stop(s, Failed(1002))
  IN  IF u.done \/ u.left > 0 THEN u ELSE EndFrame(u)

HeaderByte(s, b) ==
  LET hdr == Append(s.hdr, b)
      d   == frame_decode(hdr)
  IN  IF d.err # 0    THEN Stop(s, Failed(1002))
      ELSE IF d.delta < 0 THEN [s EXCEPT !.hdr = hdr]
      ELSE IF frame_validate_S2C(d) # 0 THEN Stop(s, Failed(1002))
      ELSE BeginFrame(s, [opcode |-> d.opcode, fin |-> d.fin, is_control |-> d.is_control,
                          payload_len |-> d.payload_len])

PayloadByte(s, b) ==
  LET t    == [s EXCEPT !.left = @ - 1]
      held == Append(s.held, b)
      u    == IF s.frame.is_control   THEN [t EXCEPT !.ctl = Append(@, b)]
              ELSE IF s.type = "BINARY" THEN [t EXCEPT !.out = Append(@, DataByte(b))]
              ELSE IF IsChar(held)      THEN [t EXCEPT !.held = << >>, !.out = @ \o DataBytes(held)]
              ELSE IF IsCharStart(held) THEN [t EXCEPT !.held = held]
              ELSE Stop(s, Failed(1007))
  IN  IF u.done \/ u.left > 0 THEN u ELSE EndFrame(u)

\* One more byte.
Step(s, b) ==
  IF s.done THEN s
  ELSE IF s.frame = NoFrame THEN HeaderByte(s, b)
  ELSE PayloadByte(s, b)

After(s) ==
  LET At[k \in 0..Len(s)] ==
        IF k = 0 THEN Start ELSE LET before == At[k - 1] IN Step(before, s[k])
  IN  At
===============================================================================
