----------------------------- MODULE MCConnection ------------------------------
(***************************************************************************)
(* Small instances of Connection for TLC: one header line that proves the  *)
(* upgrade and one that does not, and servers that send pings, messages in *)
(* pieces and each kind of end.                                            *)
(***************************************************************************)
EXTENDS Connection

MCLines == [name : {"accept"}, value : {"expected", "other"}]

Frame(fin, opcode, payload) ==
  <<(IF fin THEN 128 ELSE 0) + opcode, Len(payload)>> \o payload

Close(payload) == Frame(TRUE, WS_OPCODE_CLOSE, payload)
Ping(payload)  == Frame(TRUE, WS_OPCODE_PING, payload)

\* Two pings in the middle of a message, and a close that is followed by a message.
Chatty == Frame(FALSE, WS_OPCODE_BINARY, <<1>>) \o Ping(<<7, 8>>) \o Ping(<<9>>)
          \o Frame(TRUE, WS_OPCODE_CONTINUATION, <<2>>) \o Close(<<3, 232>>)
          \o Frame(TRUE, WS_OPCODE_BINARY, <<3>>)
\* A close without a code between two pongs, of which the last may come alone.
Pong   == Frame(TRUE, WS_OPCODE_PONG, << >>)
Brief  == Pong \o Close(<< >>) \o Pong
\* Each breach: a frame header, a message that continues nothing, a text, and close
\* frames with a short payload, with a wrong code and with a broken reason.
Breaches == {<<194, 0>>, Frame(TRUE, WS_OPCODE_CONTINUATION, <<1>>),
             Frame(TRUE, WS_OPCODE_TEXT, <<128>>),
             Close(<<3, 237>>), Close(<<3, 232, 195>>)}

MCStreams    == {Chatty, Brief, Ping(<<1>>) \o Close(<<3>>)} \cup Breaches
MCChunkSizes == [s \in MCStreams |-> IF s = Chatty THEN {7, 10}
                                     ELSE IF s = Brief THEN {2, 4} ELSE {Len(s)}]

Buffer(n) == [null |-> FALSE, len |-> n, valid |-> TRUE, whole |-> n]
MCPieces  == {Buffer(1)}
MCInfos   == {{"FIRST", "LAST"}}

\* A close with a code and one without; none is urgent.
MCCloseArgs == {[code |-> 1000, reason |-> "NULL", len |-> 0],
                [code |-> 0,    reason |-> "NULL", len |-> 0]}
===============================================================================
