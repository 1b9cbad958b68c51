----------------------------- MODULE MCSendQueue ------------------------------
(***************************************************************************)
(* Small instances of SendQueue for TLC: the sets of arguments the         *)
(* application, the peer and curl use.                                     *)
(***************************************************************************)
EXTENDS SendQueue

Buffer(n)  == [null |-> FALSE, len |-> n, valid |-> TRUE, whole |-> n]

\* A block that is empty, one that takes one frame, and one that takes three.
MCBlocks  == {Buffer(0), Buffer(1), Buffer(3)}
MCPieces  == {Buffer(0), Buffer(1)}
MCInfos   == {{}, {"FIRST"}, {"LAST"}, {"FIRST", "LAST"}}

\* A close with a code and one without.
MCCloseArgs == {[code |-> 1000, reason |-> "NULL", len |-> 0],
                [code |-> 0,    reason |-> "NULL", len |-> 0]}
\* A close and the urgent close of the header file.
MCUrgentCloseArgs == {[code |-> 1000, reason |-> "NULL", len |-> 0],
                      [code |-> -1,   reason |-> "NULL", len |-> 0]}

\* A piece longer than the data buffer, whose size max_payload_size fixes.
MCOversizedPieces == {Buffer(10)}
===============================================================================
