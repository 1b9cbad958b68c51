-------------------------------- MODULE Strings --------------------------------
(***************************************************************************)
(* The string helpers of utils.c, and how _header_cb splits a header line  *)
(* with them.  A string is a sequence of bytes; one that ends with a NUL   *)
(* in C stands here without it, and "\0" in the middle is the byte 0.      *)
(***************************************************************************)
EXTENDS Integers, Sequences, FiniteSetsExt

NUL == 0

isspace(c) == c = 32 \/ c \in 9..13
tolower(c) == IF c \in 65..90 THEN c + 32 ELSE c

\* Mutant: only what is in front of the text is cut off.
cws_trim_left(s) ==
  LET first == Min({i \in 1..Len(s) : ~isspace(s[i])} \cup {Len(s) + 1})
  IN  SubSeq(s, first, Len(s))

\* cws_trim: the two loops stop at the first and at the last byte that is no space.
cws_trim(s) ==
  LET first == Min({i \in 1..Len(s) : ~isspace(s[i])} \cup {Len(s) + 1})
      last  == Max({i \in first..Len(s) : ~isspace(s[i])} \cup {first - 1})
  IN  SubSeq(s, first, last)

\* The byte of a C string at i: NUL behind its end.
byte(s, i) == IF i <= Len(s) THEN s[i] ELSE NUL

\* cws_strncasecmp: the difference at the first place where the strings differ, or
\* at the last one that is looked at.  (It does not stop at a NUL: callers pass an
\* n that keeps it within both strings and their terminators.)
cws_strncasecmp(s1, s2, n) ==
  LET diff(i) == tolower(byte(s1, i)) - tolower(byte(s2, i))
  IN  IF n = 0 THEN 0
      ELSE diff(Min({i \in 1..n : diff(i) # 0} \cup {n}))

cws_has_prefix(s, prefix) ==
  LET t == cws_trim(s)
  IN  Len(prefix) <= Len(t) /\ cws_strncasecmp(t, prefix, Len(prefix)) = 0

\* The value of a header line behind a prefix that was found.
header_value(line, prefix) == cws_trim(SubSeq(line, Len(prefix) + 1, Len(line)))
===============================================================================
