------------------------------ MODULE MCReceive -------------------------------
(***************************************************************************)
(* The byte sequences a server may send, put together from frames, for     *)
(* TLC.  The frames of a server are not masked.                            *)
(***************************************************************************)
EXTENDS Delivery

Frame(fin, opcode, payload) ==
  <<(IF fin THEN 128 ELSE 0) + opcode, Len(payload)>> \o payload

Bin(fin, p)  == Frame(fin, WS_OPCODE_BINARY, p)
Text(fin, p) == Frame(fin, WS_OPCODE_TEXT, p)
Cont(fin, p) == Frame(fin, WS_OPCODE_CONTINUATION, p)
Ping(p)      == Frame(TRUE, WS_OPCODE_PING, p)
Pong(p)      == Frame(TRUE, WS_OPCODE_PONG, p)
Close(p)     == Frame(TRUE, WS_OPCODE_CLOSE, p)

\* Binary messages in one and in several frames, with control frames between
\* them, and the endings: a close of each form, and each breach of the protocol.
Bodies == {Bin(TRUE, <<1, 2, 3>>),
           Bin(FALSE, <<1>>) \o Ping(<<7, 8>>) \o Cont(FALSE, << >>) \o Cont(TRUE, <<2, 3>>),
           Bin(FALSE, << >>) \o Pong(<< >>) \o Cont(TRUE, << >>) \o Bin(TRUE, <<4>>),
           Ping(<< >>) \o Bin(FALSE, <<9>>)}
Endings == {Close(<< >>), Close(<<3>>), Close(<<3, 232>>) \o Ping(<< >>),
            Close(<<3, 233, 65, 195, 164>>), Close(<<3, 237>>), Close(<<3, 232, 195>>),
            Cont(TRUE, <<1>>), Cont(TRUE, <<1>>) \o Cont(TRUE, <<1>>),
            Bin(FALSE, <<5>>) \o Bin(TRUE, <<6>>),
            Frame(FALSE, WS_OPCODE_PING, << >>), <<130, 129, 1, 2, 3, 4, 5>>,
            <<194, 0>>, <<131, 0>>, <<137, 126, 0, 126>>, <<130, 126, 0, 3, 1, 2, 3>>,
            <<130, 127, 128, 0, 0, 0, 0, 0, 0, 0>>}
\* A frame whose length takes 16 bits, of which the server sends the beginning.
Long == <<130, 126, 0, 126>> \o [i \in 1..20 |-> i]

MCBinary == {b \o e : b \in Bodies, e \in Endings} \cup {Long}

\* Texts with characters of one to four bytes, valid and invalid, and with
\* characters cut by a frame.
Valid   == {Text(TRUE, <<65, 195, 164, 66>>),
            Text(TRUE, <<226, 130, 172>>) \o Ping(<<1>>) \o Text(TRUE, <<240, 159, 152, 128, 65>>),
            Text(FALSE, <<226, 130>>) \o Ping(<< >>) \o Cont(FALSE, <<172, 195>>) \o Cont(TRUE, <<164>>),
            Text(FALSE, << >>) \o Cont(TRUE, << >>) \o Text(TRUE, <<65>>)}
Invalid == {Text(TRUE, <<65, 128>>), Text(FALSE, <<226, 40>>), Text(TRUE, <<237, 160, 128>>),
            Text(TRUE, <<65, 195>>), Text(FALSE, <<244, 144>>), Text(TRUE, <<192, 128>>)}
MCText  == {v \o e : v \in Valid, e \in Invalid \cup {Close(<< >>)}}

\* Texts in which a character of several bytes is the last of its frame: nothing is
\* behind it in a chunk that completes it.
Ends2  == Text(TRUE, <<65, 195, 164>>)
Ends4  == Text(TRUE, <<66, 240, 159, 152, 128>>)
Cut3   == Text(FALSE, <<65, 226>>) \o Ping(<<1>>) \o Cont(FALSE, <<130>>) \o Cont(TRUE, <<172>>)
MCEnds == {Cut3 \o Ends4 \o Close(<< >>), Ends2 \o Cut3 \o Ends2 \o Close(<<3, 232>>),
           Ends4 \o Text(FALSE, <<240, 159>>) \o Cont(FALSE, <<152, 128>>) \o Cont(TRUE, <<65>>) \o Close(<< >>)}

\* A character cut by a frame, and more text behind it.
CompletedThenMore == Text(FALSE, <<195>>) \o Cont(TRUE, <<164, 65>>) \o Close(<< >>)
\* A text that ends within a character.
EndsInCharacter   == Text(FALSE, <<195>>) \o Cont(TRUE, << >>) \o Close(<< >>)

\* The texts above and all that is binary in chunks of every small size, the other
\* texts byte by byte.
MCStreams    == MCBinary \cup MCEnds \cup MCText
MCChunkSizes == [s \in MCStreams |-> IF s \in MCText THEN {1} ELSE 1..7 \cup {16}]

\* One text each.
MCLost            == {CompletedThenMore}
MCLostChunks      == [s \in MCLost |-> {9}]
MCCutEnd          == {EndsInCharacter}
MCCutEndChunks    == [s \in MCCutEnd |-> 1..3]
===============================================================================
