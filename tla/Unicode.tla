------------------------------- MODULE Unicode --------------------------------
(***************************************************************************)
(* Well-formed UTF-8, as table 3-7 of the Unicode standard defines it: the *)
(* reference for the validation of utf8.c and for what a receiver of text  *)
(* promises.  Nothing here is taken from the code.                         *)
(***************************************************************************)
EXTENDS Naturals, Sequences

Any == 128..191
Rows == {<<0..127>>,
         <<194..223, Any>>,
         <<{224}, 160..191, Any>>,
         <<225..236 \cup 238..239, Any, Any>>,
         <<{237}, 128..159, Any>>,
         <<{240}, 144..191, Any, Any>>,
         <<241..243, Any, Any, Any>>,
         <<{244}, 128..143, Any, Any>>}

\* s is a character, or the beginning of one.
IsChar(s)      == \E r \in Rows : Len(s) = Len(r) /\ \A i \in 1..Len(s) : s[i] \in r[i]
IsCharStart(s) == \E r \in Rows : Len(s) < Len(r) /\ \A i \in 1..Len(s) : s[i] \in r[i]

\* s is a sequence of characters: UpTo[k] says so of its first k bytes.
IsText(s) ==
  LET UpTo[k \in 0..Len(s)] ==
        k = 0 \/ \E j \in 0..k - 1 : UpTo[j] /\ IsChar(SubSeq(s, j + 1, k))
  IN  UpTo[Len(s)]

\* s can be continued to a sequence of characters.
IsTextStart(s) ==
  \E k \in 0..Len(s) : IsText(SubSeq(s, 1, k)) /\ IsCharStart(SubSeq(s, k + 1, Len(s)))
===============================================================================
