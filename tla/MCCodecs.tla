------------------------------- MODULE MCCodecs -------------------------------
(***************************************************************************)
(* The pure functions of curlws for TLC: a frame header that arrives byte  *)
(* by byte at frame_decode until the decoder has rejected or accepted it,  *)
(* texts of at most MaxLen bytes, whose validation is compared with table  *)
(* 3-7 of the Unicode standard, and strings, which are split and compared  *)
(* as the lines of response headers are; and the configurations that       *)
(* cws_create may be given, each with every failure on its way.            *)
(***************************************************************************)
EXTENDS FrameCodec, Utf8, Unicode, Strings, Request

CONSTANTS
  FirstBytes, SecondBytes,  \* the first two bytes of the headers
  TextBytes, MaxLen,        \* the bytes of the texts, and their longest length
  StringBytes, MaxString    \* those of the strings

ASSUME BytesAssumption ==
  /\ FirstBytes \subseteq Byte /\ SecondBytes \subseteq Byte
  /\ TextBytes \subseteq Byte /\ StringBytes \subseteq Byte
  /\ MaxLen \in Nat /\ MaxString \in Nat

VARIABLES kind,  \* "header", "text", "string" or "config"
          buf    \* the bytes so far, or one configuration

\* The header bytes that may come next: the bounds of the length encodings.  (The
\* upper half of a long length is 0 or has its top bit set: TLC's numbers have 32
\* bits.)
NextBytes ==
  LET i == Len(buf) + 1
  IN  CASE i = 1 -> FirstBytes
        [] i = 2 -> SecondBytes
        [] i > 2 /\ buf[2] % 128 = 126 -> {0, 125, 126, 255}
        [] i > 2 /\ buf[2] % 128 = 127 ->
             CASE i = 3 -> {0, 128} [] i \in 4..6 -> {0} [] i \in 7..8 -> {0, 1, 2}
               [] OTHER -> {0, 1, 255}
        [] OTHER -> {0, 7}

Undecided == frame_decode(buf).err = 0 /\ frame_decode(buf).delta < 0
Accepted  == frame_decode(buf).err = 0 /\ frame_decode(buf).delta > 0

Init == kind \in {"header", "text", "string", "config"} /\ buf = << >>

HeaderByte == kind = "header" /\ Undecided /\ \E b \in NextBytes : buf' = Append(buf, b)
TextByte   == kind = "text" /\ Len(buf) < MaxLen /\ \E b \in TextBytes : buf' = Append(buf, b)
StringByte == kind = "string" /\ Len(buf) < MaxString /\ \E b \in StringBytes : buf' = Append(buf, b)

\* The values on both sides of every condition of the configuration steps.
Configs ==
  [url : {Unset, "ws", "http"}, max_redirects : {-2, -1, 0, 3}, verbose : {-1, 1, 4},
   expect : 0..2, websocket_protocols : {Unset, "chat"}, max_payload_size : {0, 1, 126, 65536},
   extra_headers : {<< >>, <<"Host", "Cookie">>, <<"Host", "Upgrade", "Cookie">>},
   configure : {Unset, "set"}]
Config == kind = "config" /\ buf = << >> /\ \E c \in Configs : buf' = <<c>>

Done       == CASE kind = "header" -> ~Undecided
                [] kind = "text"   -> Len(buf) = MaxLen
                [] kind = "string" -> Len(buf) = MaxString
                [] kind = "config" -> buf # << >>
Again      == Done /\ buf' = << >>

Next == (HeaderByte \/ TextByte \/ StringByte \/ Config \/ Again) /\ UNCHANGED kind
Spec == Init /\ [][Next]_<<kind, buf>>

-------------------------------------------------------------------------------
(* The frame codec *)

\* Any byte count the decoder asks for is exact or low: fewer bytes never decide,
\* so a receiver that reads what it asks for takes no byte of the payload, and
\* the header never outgrows the 14 bytes of struct header.
AsksForHeaderBytesOnly ==
  \A k \in 0..Len(buf) :
    LET d == frame_decode(SubSeq(buf, 1, k))
    IN  d.err = 0 /\ d.delta < 0 =>
          /\ k - d.delta <= WS_FRAME_HEADER_MAX
          /\ ~Undecided => k - d.delta <= Len(buf)

\* The decoder asks for header bytes only and uses all of the header it accepts, and
\* it accepts a masked header only in the form frame_encode gives to it: one
\* encoding for each frame.
AcceptsCanonicalHeaders ==
  kind = "header" =>
    /\ AsksForHeaderBytesOnly
    /\ Accepted =>
         LET f == frame_decode(buf)
         IN  /\ f.delta = Len(buf)
             /\ f.mask = 1 =>
                  buf = encoded_header(f.fin, f.opcode, f.payload_len, SubSeq(buf, f.delta - 3, f.delta))

\* frame_encode writes a frame exactly when all of it fits into the buffer.
EncodesIffItFits ==
  kind = "header" /\ Accepted /\ frame_decode(buf).mask = 1 =>
    LET f == frame_decode(buf)
    IN  \A slack \in {-9, -8, -1, 0, 1} :
          frame_encode(f.payload_len, f.delta + f.payload_len + slack)
            = IF slack < 0 THEN 0 ELSE f.delta + f.payload_len

-------------------------------------------------------------------------------
(* UTF-8 *)

\* utf8_validate accepts every text that can still become valid, and what it
\* counts as whole characters is well formed, with less than a character left.
ValidateAgreesWithUnicode ==
  kind = "text" =>
    LET v == utf8_validate(buf)
    IN  /\ IsTextStart(buf) => v.rv = 0
        /\ v.rv = 0 => IsText(SubSeq(buf, 1, v.len))
        /\ LeavesCutCharacter(buf)

\* utf8_maybe_valid decides exactly whether the two or three bytes that are kept of
\* a cut character begin a character.
MaybeValidExact ==
  kind = "text" /\ Len(buf) \in 2..3 /\ Len(buf) < utf8_len(buf[1])
    => (utf8_maybe_valid(buf) <=> IsCharStart(buf))

-------------------------------------------------------------------------------
(* Strings *)

\* s begins with prefix, if case is ignored.
BeginsWith(s, prefix) ==
  /\ Len(prefix) <= Len(s)
  /\ \A i \in 1..Len(prefix) : tolower(s[i]) = tolower(prefix[i])

Space(s) == \A i \in 1..Len(s) : isspace(s[i])

\* Each way to cut s in two.
Cuts(s) == {<<SubSeq(s, 1, i), SubSeq(s, i + 1, Len(s))>> : i \in 0..Len(s)}

\* t is s without the space around it.
IsTrimmed(t, s) ==
  /\ t # << >> => ~isspace(t[1]) /\ ~isspace(t[Len(t)])
  /\ \E left \in Cuts(s) : \E right \in Cuts(left[2]) :
       Space(left[1]) /\ right[1] = t /\ Space(right[2])

\* "a:" and "ab": a name with its colon, and one that reads on.
Prefixes == {<<97, 58>>, <<97, 98>>}

\* A header is found by its name in any case, and its value is all that follows but
\* the space around it, in a line that does not begin with space.  (A line that
\* does is found as well, but its value is taken from the wrong place.)
HeaderLinesAreSplit ==
  kind = "string" =>
    \A prefix \in Prefixes :
      /\ cws_has_prefix(buf, prefix) <=>
           \E cut \in Cuts(buf) : /\ Space(cut[1])
                                  /\ BeginsWith(cut[2], prefix)
      /\ cws_has_prefix(buf, prefix) /\ ~isspace(buf[1]) =>
           IsTrimmed(header_value(buf, prefix), SubSeq(buf, Len(prefix) + 1, Len(buf)))

-------------------------------------------------------------------------------
(* The configuration *)

\* The lines of that name in a request.
Named(h, name) == {i \in 1..Len(h.headers) : h.headers[i].name = name}

\* The request asks for the upgrade once and in one way: each line that the protocol
\* needs is there once, whatever headers the application adds, its own follow in
\* their order, and curl has them all.
RequestIsUpgrade(h, config) ==
  /\ \A name \in {"Connection", "Upgrade", "Sec-WebSocket-Version", "Sec-WebSocket-Key",
                   "Transfer-Encoding"} : Cardinality(Named(h, name)) = 1
  /\ Cardinality(Named(h, "Expect")) = config.expect
  /\ Cardinality(Named(h, "Sec-WebSocket-Protocol"))
       = IF config.websocket_protocols = Unset THEN 0 ELSE 1
  /\ LET own == Len(h.headers) - Len(config.extra_headers)
     IN  /\ \A i \in 1..own : h.headers[i].from = "library"
         /\ \A i \in 1..Len(config.extra_headers) :
              h.headers[own + i] = Extra(config.extra_headers[i])
  /\ h.opts["HTTPHEADER"] = h.headers

\* curl and the library agree on redirections: if only curl followed one, _header_cb
\* would end the transfer; if only the library did, it would wait for good.
FollowsWithCurl(h, config) ==
  /\ h.follow_redirects <=> h.opts["FOLLOWLOCATION"] = 1
  /\ h.follow_redirects => h.opts["MAXREDIRS"] = config.max_redirects

\* A block of the pool holds the largest frame that is encoded into it.
BlocksHoldFrames(h) ==
  /\ \A n \in {0, 1, 125, 126, 65535, 65536} :
       n <= h.max_payload_size =>
         LET room == h.data_block_size - BufOverhead
         IN  frame_encode(n, room) \in 1..room
  /\ \A n \in {0, 1, WS_CTL_PAYLOAD_MAX} :
       LET room == h.control_block_size - BufOverhead
       IN  frame_encode(n, room) \in 1..room

\* Whatever the configuration and whichever step fails, a handle that cws_create
\* returns sends the upgrade request, follows redirections together with curl, and
\* has blocks for its largest frames.
CreatedIsUsable ==
  kind = "config" /\ buf # << >> =>
    \A h \in created(buf[1]) : /\ RequestIsUpgrade(h, buf[1])
                                /\ FollowsWithCurl(h, buf[1])
                                /\ BlocksHoldFrames(h)
===============================================================================
