------------------------------- MODULE Handlers -------------------------------
(***************************************************************************)
(* The handlers curlws installs where the application has none             *)
(* (handlers.c): fragments are put together to messages for on_text and    *)
(* on_binary, and pings are answered.  realloc is taken to succeed.        *)
(***************************************************************************)
EXTENDS Naturals, Sequences

VARIABLES
  buffered_type,      \* priv->stream_type, a set of flags
  stream_buffer,      \* priv->stream_buffer: what it holds, << >> when NULL
  stream_buffer_len,  \* priv->stream_buffer_len
  told                \* history: the calls of on_text, on_binary and cws_pong

handler_vars == <<buffered_type, stream_buffer, stream_buffer_len, told>>

Told(fn, data) == [fn |-> fn, data |-> data]

\* cb_on_binary or cb_on_text.
on_message(type, data) ==
  told' = Append(told, Told(IF "BINARY" \in type THEN "on_binary" ELSE "on_text", data))

\* A message in one piece is passed on as it is.
whole_message(info, data) ==
  /\ {"FIRST", "LAST"} \subseteq info
  /\ on_message(info, data)
  /\ UNCHANGED <<buffered_type, stream_buffer, stream_buffer_len>>

type_of(info) == IF "FIRST" \in info THEN info \cap {"BINARY", "TEXT"} ELSE buffered_type
prev_length(info) == IF "FIRST" \in info THEN 0 ELSE stream_buffer_len

\* realloc, and memcpy behind the first prev_len bytes.
extended(prev_len, data) ==
  IF prev_len + Len(data) = 0 THEN stream_buffer
                              ELSE SubSeq(stream_buffer, 1, prev_len) \o data

message_part(info, data) ==
  LET bytes == extended(prev_length(info), data)
      n     == prev_length(info) + Len(data)
  IN  /\ ~({"FIRST", "LAST"} \subseteq info)
      /\ buffered_type' = type_of(info)
      /\ \/ /\ "LAST" \in info
            /\ on_message(type_of(info), SubSeq(bytes, 1, n))
            /\ stream_buffer' = << >>
            /\ stream_buffer_len' = 0
         \/ /\ "LAST" \notin info
            /\ stream_buffer' = bytes
            /\ stream_buffer_len' = n
            /\ UNCHANGED told

\* Mutant: the last part is passed on without those before it.
fragment_forgets_start(info, data) ==
  \/ whole_message(info, data)
  \/ "LAST" \in info /\ whole_message(info \cup {"FIRST"}, data)
  \/ message_part(info, data) /\ "LAST" \notin info

\* Mutant: the buffer is not given up with the end of the message.
fragment_keeps_buffer(info, data) ==
  \/ whole_message(info, data)
  \/ /\ message_part(info, data) /\ "LAST" \notin info
  \/ /\ ~({"FIRST", "LAST"} \subseteq info) /\ "LAST" \in info
     /\ on_message(buffered_type, SubSeq(stream_buffer, 1, stream_buffer_len) \o data)
     /\ stream_buffer' = extended(stream_buffer_len, data)
     /\ stream_buffer_len' = 0
     /\ UNCHANGED buffered_type

\* _default_on_fragment
default_on_fragment(info, data) == whole_message(info, data) \/ message_part(info, data)

\* _default_on_ping
default_on_ping(data) ==
  /\ told' = Append(told, Told("cws_pong", data))
  /\ UNCHANGED <<buffered_type, stream_buffer, stream_buffer_len>>

HandlersInit ==
  /\ buffered_type = {}
  /\ stream_buffer = << >>
  /\ stream_buffer_len = 0
  /\ told = << >>
===============================================================================
