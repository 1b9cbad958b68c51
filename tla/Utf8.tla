-------------------------------- MODULE Utf8 ----------------------------------
(***************************************************************************)
(* utf8.c: the incremental UTF-8 validation of curlws.  A text is a        *)
(* sequence of bytes (0..255).                                             *)
(***************************************************************************)
EXTENDS Integers, Sequences

\* The table utf8_len: the bytes of the character that starts with byte b, and 0
\* if no character does.
utf8_len(b) ==
  CASE b \in 0..127              -> 1
    [] b \in 194..223            -> 2
    [] b \in 224..239            -> 3
    [] b \in 240..244            -> 4
    [] OTHER                     -> 0

utf8_get_size(c) == utf8_len(c)

Continuation(b) == b \div 64 = 2     \* 0x80 == (0xc0 & b)
Low6(b)         == b % 64

\* Mutant: a character of three bytes may be longer than needed.
valid_char_overlong(t, i, n) ==
  \A k \in 1..n - 1 : Continuation(t[i + k])

\* The checks of utf8_validate on the character of n bytes that starts at t[i].
valid_char(t, i, n) ==
  \/ n = 1
  \/ n = 2 /\ Continuation(t[i + 1])
  \/ n = 3 /\ LET c == (t[i] % 16) * 4096 + Low6(t[i + 1]) * 64 + Low6(t[i + 2])
              IN  /\ 2048 <= c
                  /\ ~(55296 <= c /\ c <= 57343)
                  /\ Continuation(t[i + 1]) /\ Continuation(t[i + 2])
  \/ n = 4 /\ LET c == (t[i] % 8) * 262144 + Low6(t[i + 1]) * 4096
                       + Low6(t[i + 2]) * 64 + Low6(t[i + 3])
              IN  /\ 65536 <= c
                  /\ c <= 1114111
                  /\ \A k \in 1..3 : Continuation(t[i + k])

\* utf8_validate: rv is 0 or -1, len the bytes of the leading whole characters
\* (the value of *len on success).  At[i] is the loop at the i-th byte.
utf8_validate(t) ==
  LET At[i \in 1..Len(t) + 4] ==
        IF i > Len(t) THEN [rv |-> 0, len |-> Len(t)]
        ELSE LET n == utf8_len(t[i])
             IN  IF Len(t) - i + 1 < n        THEN [rv |-> 0, len |-> i - 1]
                 ELSE IF n = 0                THEN [rv |-> -1, len |-> Len(t)]
                 ELSE IF ~valid_char(t, i, n) THEN [rv |-> -1, len |-> Len(t)]
                 ELSE At[i + n]
  IN  At[1]

\* What a caller relies on: if bytes of a valid text are left over, they are fewer than
\* the character that they begin.
LeavesCutCharacter(t) ==
  LET v == utf8_validate(t)
  IN  v.rv = 0 /\ v.len # Len(t) => /\ v.len \in 0..Len(t) - 1
                                     /\ Len(t) - v.len < utf8_len(t[v.len + 1])

\* Mutant: the missing bytes are left zero.
maybe_valid_padded_zero(t) ==
  LET n == utf8_len(t[1])
  IN  n # 0 /\ utf8_validate([i \in 1..n |-> IF i <= Len(t) THEN t[i] ELSE 0]).rv = 0

\* utf8_maybe_valid: the missing bytes of the character are taken to be 0x80.
utf8_maybe_valid(t) ==
  LET n == utf8_len(t[1])
  IN  n # 0 /\ utf8_validate([i \in 1..n |-> IF i <= Len(t) THEN t[i] ELSE 128]).rv = 0
===============================================================================
