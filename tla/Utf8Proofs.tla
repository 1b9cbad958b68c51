------------------------------ MODULE Utf8Proofs ------------------------------
(***************************************************************************)
(* Theorems about utf8.c, for texts of any length: utf8_validate accepts   *)
(* exactly what can still become well-formed UTF-8 as the Unicode standard *)
(* defines it, and counts whole characters.                                *)
(*                                                                         *)
(* Both utf8_validate and IsText are recursive functions.  That such a     *)
(* function exists, and what holds of all its values, is proved by taking  *)
(* the least (or greatest) argument at which it fails: LeastNumber comes   *)
(* from the well-foundedness of inclusion between finite sets.             *)
(***************************************************************************)
EXTENDS FrameCodec, Utf8, Unicode, SequenceTheorems, FiniteSetTheorems, WellFoundedInduction, TLAPS

-------------------------------------------------------------------------------
(* Numbers *)

\* A set of numbers has a least element ...
LEMMA LeastNumber ==
  ASSUME NEW T, T \subseteq Nat, T # {}
  PROVE  \E x \in T : \A y \in T : x <= y
<1> DEFINE U == {1..n : n \in T}
           R == StrictSubsetOrdering(Nat)
<1>1. IsWellFoundedOn(R, FiniteSubsetsOf(Nat))
  BY FS_StrictSubsetOrderingWellFounded
<1>2. U \subseteq FiniteSubsetsOf(Nat)
  <2> SUFFICES ASSUME NEW n \in T PROVE 1..n \in FiniteSubsetsOf(Nat)
    OBVIOUS
  <2>1. n \in Int /\ 1 \in Int
    OBVIOUS
  <2>2. IsFiniteSet(1..n)
    BY <2>1, FS_Interval
  <2>3. 1..n \subseteq Nat
    OBVIOUS
  <2> QED BY <2>2, <2>3 DEF FiniteSubsetsOf
<1>3. U # {}
  OBVIOUS
<1> HIDE DEF R, U
<1>4. PICK u \in U : \A w \in U : ~ (<<w, u>> \in R)
  BY <1>1, <1>2, <1>3, WFMin
<1>5. PICK x \in T : u = 1..x
  BY <1>4 DEF U
<1>6. ASSUME NEW y \in T, y < x PROVE FALSE
  <2>1. 1..y \in U
    BY DEF U
  <2>2. 1..y \in SUBSET Nat /\ 1..x \in SUBSET Nat
    OBVIOUS
  <2>3. 1..y \subseteq 1..x /\ 1..y # 1..x
    <3>1. y \in Nat /\ x \in Nat
      OBVIOUS
    <3>2. x \in 1..x /\ x \notin 1..y
      BY <1>6, <3>1
    <3> QED BY <1>6, <3>1, <3>2
  <2>4. <<1..y, 1..x>> \in R
    BY <2>2, <2>3 DEF R, StrictSubsetOrdering
  <2> QED BY <1>4, <1>5, <2>1, <2>4
<1>7. \A y \in T : x <= y
  BY <1>6
<1> QED BY <1>7

\* ... and a greatest element if it is bounded.
LEMMA GreatestNumber ==
  ASSUME NEW n \in Nat, NEW T, T \subseteq 0..n, T # {}
  PROVE  \E x \in T : \A y \in T : y <= x
<1> DEFINE U == {n - y : y \in T}
<1>1. U \subseteq Nat /\ U # {}
  <2>1. ASSUME NEW y \in T PROVE n - y \in Nat
    <3>1. y \in 0..n
      OBVIOUS
    <3> QED BY <3>1
  <2> QED BY <2>1
<1>2. PICK u \in U : \A w \in U : u <= w
  <2> HIDE DEF U
  <2> QED BY <1>1, LeastNumber
<1>3. PICK x \in T : u = n - x
  OBVIOUS
<1>4. ASSUME NEW y \in T PROVE y <= x
  <2>1. n - y \in U
    OBVIOUS
  <2>2. n - x <= n - y
    <3> HIDE DEF U
    <3> QED BY <1>2, <1>3, <2>1
  <2>3. x \in Int /\ y \in Int
    OBVIOUS
  <2> QED BY <2>2, <2>3
<1> QED BY <1>4

-------------------------------------------------------------------------------
(* The loop of utf8_validate *)

\* What one iteration of utf8_validate gives at the i-th byte, if f is what the loop
\* gives from there on.
Iteration(t, f, i) ==
  IF i > Len(t) THEN [rv |-> 0, len |-> Len(t)]
  ELSE LET n == utf8_len(t[i])
       IN  IF Len(t) - i + 1 < n        THEN [rv |-> 0, len |-> i - 1]
           ELSE IF n = 0                THEN [rv |-> -1, len |-> Len(t)]
           ELSE IF ~valid_char(t, i, n) THEN [rv |-> -1, len |-> Len(t)]
           ELSE f[i + n]

\* f is the loop from the k-th byte on.
LoopFrom(t, f, k) == f = [i \in k..Len(t) + 4 |-> Iteration(t, f, i)]

\* Four bytes at most.
LEMMA CharacterLength ==
  ASSUME NEW b
  PROVE  utf8_len(b) \in 0..4
BY DEF utf8_len

\* The loop looks ahead only.
LEMMA LooksAhead ==
  ASSUME NEW t \in Seq(Byte), NEW k \in 1..Len(t) + 4, NEW f, NEW g,
         \A i \in k + 1..Len(t) + 4 : f[i] = g[i]
  PROVE  \A i \in k..Len(t) + 4 : Iteration(t, f, i) = Iteration(t, g, i)
<1> SUFFICES ASSUME NEW i \in k..Len(t) + 4 PROVE Iteration(t, f, i) = Iteration(t, g, i)
  OBVIOUS
<1>1. Len(t) \in Nat
  OBVIOUS
<1>2. CASE i > Len(t)
  BY <1>2 DEF Iteration
<1>3. CASE i <= Len(t)
  <2> DEFINE n == utf8_len(t[i])
  <2>1. n \in 0..4
    BY CharacterLength
  <2> HIDE DEF n
  <2>2. ASSUME n # 0, ~(Len(t) - i + 1 < n) PROVE f[i + n] = g[i + n]
    BY <1>1, <1>3, <2>1, <2>2
  <2> QED BY <1>1, <1>3, <2>1, <2>2 DEF Iteration, n
<1> QED BY <1>1, <1>2, <1>3

\* So it is defined.
LEMMA LoopIsDefined ==
  ASSUME NEW t \in Seq(Byte)
  PROVE  \E f : LoopFrom(t, f, 1)
<1> DEFINE last == Len(t) + 4
           T == {m \in 0..last - 1 : ~ \E f : LoopFrom(t, f, last - m)}
<1>1. last \in Nat /\ 4 <= last
  OBVIOUS
<1> HIDE DEF last
<1>2. ASSUME T # {} PROVE FALSE
  <2>1. T \subseteq Nat
    BY <1>1
  <2> HIDE DEF T
  <2>2. PICK m \in T : \A y \in T : m <= y
    BY <1>2, <2>1, LeastNumber
  <2>3. m \in 0..last - 1 /\ ~ \E f : LoopFrom(t, f, last - m)
    BY <2>2 DEF T
  <2> DEFINE k == last - m
  <2>4. k \in 1..last
    BY <1>1, <2>3
  <2>5. \E f : \A i \in k + 1..last : f[i] = Iteration(t, f, i)
    <3>1. CASE m = 0
      BY <1>1, <3>1
    <3>2. CASE m # 0
      <4>1. m - 1 \in 0..last - 1 /\ m - 1 \notin T /\ last - (m - 1) = k + 1
        BY <1>1, <2>1, <2>2, <2>3, <3>2
      <4>2. PICK f : LoopFrom(t, f, k + 1)
        BY <4>1 DEF T
      <4> QED BY <4>2 DEF LoopFrom, last
    <3> QED BY <3>1, <3>2
  <2>6. PICK f : \A i \in k + 1..last : f[i] = Iteration(t, f, i)
    BY <2>5
  <2> DEFINE g == [i \in k..last |-> IF i = k THEN Iteration(t, f, k) ELSE f[i]]
  <2> HIDE DEF k
  <2>7. \A i \in k + 1..last : f[i] = g[i]
    BY <1>1, <2>4
  <2>8. \A i \in k..last : Iteration(t, f, i) = Iteration(t, g, i)
    <3> HIDE DEF g
    <3> QED BY <2>4, <2>7, LooksAhead DEF last
  <2>9. \A i \in k..last : g[i] = Iteration(t, g, i)
    <3> TAKE i \in k..last
    <3>1. CASE i = k
      BY <2>8, <3>1
    <3>2. CASE i # k
      <4>1. i \in k + 1..last
        BY <1>1, <2>4, <3>2
      <4> QED BY <2>6, <2>7, <2>8, <4>1
    <3> QED BY <3>1, <3>2
  <2>10. g = [i \in k..last |-> g[i]]
    OBVIOUS
  <2> HIDE DEF g
  <2>11. g = [i \in k..last |-> Iteration(t, g, i)]
    BY <2>9, <2>10
  <2> QED BY <2>3, <2>11 DEF LoopFrom, last, k
<1>3. last - 1 \in 0..last - 1 /\ last - (last - 1) = 1
  BY <1>1
<1> QED BY <1>2, <1>3

\* utf8_validate is this loop from the first byte on.
LEMMA ValidateIsLoop ==
  ASSUME NEW t \in Seq(Byte)
  PROVE  \E f : LoopFrom(t, f, 1) /\ utf8_validate(t) = f[1]
<1> DEFINE F == CHOOSE f : f = [i \in 1..Len(t) + 4 |-> Iteration(t, f, i)]
<1>1. F = [i \in 1..Len(t) + 4 |-> Iteration(t, F, i)]
  BY LoopIsDefined DEF LoopFrom
<1>2. utf8_validate(t) = F[1]
  BY DEF utf8_validate, Iteration
<1> QED BY <1>1, <1>2 DEF LoopFrom

-------------------------------------------------------------------------------
(* The checks on one character *)

\* The first bytes of the characters of each length.
LEMMA CharacterLengths ==
  ASSUME NEW b
  PROVE  /\ utf8_len(b) = 1 => b \in 0..127
         /\ utf8_len(b) = 2 => b \in 194..223
         /\ utf8_len(b) = 3 => b \in 224..239
         /\ utf8_len(b) = 4 => b \in 240..244
BY DEF utf8_len

\* The checks on characters of two, three and four bytes, one by one.
LEMMA ValidTwo ==
  ASSUME NEW t, NEW i, valid_char(t, i, 2)
  PROVE  Continuation(t[i + 1])
<1>1. 2 # 1
  OBVIOUS
<1> QED BY <1>1 DEF valid_char

\* The code points of three and of four bytes of a text.
Value3(t, i) == (t[i] % 16) * 4096 + Low6(t[i + 1]) * 64 + Low6(t[i + 2])
Value4(t, i) == (t[i] % 8) * 262144 + Low6(t[i + 1]) * 4096 + Low6(t[i + 2]) * 64 + Low6(t[i + 3])

\* What valid_char checks of three bytes ...
LEMMA ValidThree ==
  ASSUME NEW t, NEW i, valid_char(t, i, 3)
  PROVE  /\ 2048 <= Value3(t, i) /\ ~(55296 <= Value3(t, i) /\ Value3(t, i) <= 57343)
         /\ Continuation(t[i + 1]) /\ Continuation(t[i + 2])
BY DEF valid_char, Value3

\* ... and of four.
LEMMA ValidFour ==
  ASSUME NEW t, NEW i, valid_char(t, i, 4)
  PROVE  /\ 65536 <= Value4(t, i) /\ Value4(t, i) <= 1114111
         /\ Continuation(t[i + 1]) /\ Continuation(t[i + 2]) /\ Continuation(t[i + 3])
<1>1. 4 # 1 /\ 4 # 2 /\ 4 # 3
  OBVIOUS
<1>2. 1 \in 1..3 /\ 2 \in 1..3 /\ 3 \in 1..3
  OBVIOUS
<1>3. /\ 65536 <= Value4(t, i) /\ Value4(t, i) <= 1114111
      /\ \A k \in 1..3 : Continuation(t[i + k])
  BY <1>1 DEF valid_char, Value4
<1> QED BY <1>2, <1>3

\* The bits a continuation byte carries.
LEMMA Low ==
  ASSUME NEW b \in Byte, Continuation(b)
  PROVE  b \in Any /\ Low6(b) = b - 128
BY DEF Byte, Continuation, Low6, Any

\* The code points of continuation bytes b, c and d after a.
Code3(a, b, c)    == (a % 16) * 4096 + (b - 128) * 64 + (c - 128)
Code4(a, b, c, d) == (a % 8) * 262144 + (b - 128) * 4096 + (c - 128) * 64 + (d - 128)

\* What the checks of the code point say of the first two bytes.
CodePoint3(v)      == 2048 <= v /\ ~(55296 <= v /\ v <= 57343)
Starts3(a, b) == \/ a \in {224} /\ b \in 160..191
                 \/ a \in {237} /\ b \in 128..159
                 \/ a \in 225..236 \cup 238..239
Starts4(a, b) == \/ a \in {240} /\ b \in 144..191
                 \/ a \in {244} /\ b \in 128..143
                 \/ a \in 241..243

\* The first and the second byte of a character of three or four bytes, from the code
\* point: not longer than needed, no surrogate, not above the last one.
LEMMA ThreeBytes ==
  ASSUME NEW a \in 224..239, NEW b \in Any, NEW c \in Any,
         CodePoint3(Code3(a, b, c))
  PROVE  Starts3(a, b)
<1>1. a % 16 = a - 224
  OBVIOUS
<1>2. b \in Int /\ 128 <= b /\ b <= 191 /\ c \in Int /\ 128 <= c /\ c <= 191
  BY DEF Any
<1>3. a = 224 => 160 <= b
  BY <1>1, <1>2 DEF Code3, CodePoint3
<1>4. a = 237 => b <= 159
  BY <1>1, <1>2 DEF Code3, CodePoint3
<1> QED BY <1>2, <1>3, <1>4 DEF Starts3

\* A code point of four bytes that is in range has a second byte that table 3-7 allows.
LEMMA FourBytes ==
  ASSUME NEW a \in 240..244, NEW b \in Any, NEW c \in Any, NEW d \in Any,
         65536 <= Code4(a, b, c, d), Code4(a, b, c, d) <= 1114111
  PROVE  Starts4(a, b)
<1>1. a % 8 = a - 240
  OBVIOUS
<1>2. /\ b \in Int /\ 128 <= b /\ b <= 191 /\ c \in Int /\ 128 <= c /\ c <= 191
      /\ d \in Int /\ 128 <= d /\ d <= 191
  BY DEF Any
<1>3. a = 240 => 144 <= b
  BY <1>1, <1>2 DEF Code4
<1>4. a = 244 => b <= 143
  BY <1>1, <1>2 DEF Code4
<1> QED BY <1>2, <1>3, <1>4 DEF Starts4

\* The bytes of a character, as a part of t.
LEMMA CharacterBytes ==
  ASSUME NEW t \in Seq(Byte), NEW i \in Nat, NEW n \in 1..4, 0 < i, i + n - 1 <= Len(t)
  PROVE  LET s == SubSeq(t, i, i + n - 1)
         IN  /\ Len(s) = n
             /\ \A k \in 1..n : s[k] = t[i + k - 1] /\ s[k] \in Byte
<1> DEFINE s == SubSeq(t, i, i + n - 1)
<1>1. /\ s \in Seq(Byte) /\ Len(s) = n
      /\ \A k \in 1..n : s[k] = t[i + k - 1]
  <2> DEFINE j == i + n - 1
  <2>1. j \in Int /\ i \in Int /\ i <= j /\ j - i + 1 = n
    OBVIOUS
  <2>2. \A k \in i..j : t[k] \in Byte
    <3>1. \A k \in i..j : k \in 1..Len(t)
      BY LenProperties
    <3> QED BY <3>1, ElementOfSeq
  <2> HIDE DEF j
  <2>3. /\ SubSeq(t, i, j) \in Seq(Byte)
        /\ Len(SubSeq(t, i, j)) = IF i <= j THEN j - i + 1 ELSE 0
        /\ \A k \in 1..j - i + 1 : SubSeq(t, i, j)[k] = t[i + k - 1]
    BY <2>1, <2>2, SubSeqProperties
  <2> QED BY <2>1, <2>3 DEF j
<1> HIDE DEF s
<1>2. \A k \in 1..n : s[k] \in Byte
  BY <1>1, ElementOfSeq
<1> QED BY <1>1, <1>2 DEF s

\* Bytes from the columns of a row are a character.
LEMMA CharOfOne ==
  ASSUME NEW A, <<A>> \in Rows, NEW s, Len(s) = 1, s[1] \in A
  PROVE  IsChar(s)
<1> DEFINE r == <<A>>
<1>1. r \in Rows /\ Len(r) = 1 /\ r[1] = A
  OBVIOUS
<1> HIDE DEF r
<1>2. \A k \in 1..Len(s) : s[k] \in r[k]
  BY <1>1
<1> QED BY <1>1, <1>2 DEF IsChar

\* A row with two columns ...
LEMMA CharOfTwo ==
  ASSUME NEW A, NEW B, <<A, B>> \in Rows, NEW s, Len(s) = 2, s[1] \in A, s[2] \in B
  PROVE  IsChar(s)
<1> DEFINE r == <<A, B>>
<1>1. r \in Rows /\ Len(r) = 2 /\ r[1] = A /\ r[2] = B
  OBVIOUS
<1> HIDE DEF r
<1>2. \A k \in 1..Len(s) : s[k] \in r[k]
  BY <1>1
<1> QED BY <1>1, <1>2 DEF IsChar

\* ... with three ...
LEMMA CharOfThree ==
  ASSUME NEW A, NEW B, NEW C, <<A, B, C>> \in Rows, NEW s, Len(s) = 3,
         s[1] \in A, s[2] \in B, s[3] \in C
  PROVE  IsChar(s)
<1> DEFINE r == <<A, B, C>>
<1>1. r \in Rows /\ Len(r) = 3 /\ r[1] = A /\ r[2] = B /\ r[3] = C
  OBVIOUS
<1> HIDE DEF r
<1>2. \A k \in 1..Len(s) : s[k] \in r[k]
  BY <1>1
<1> QED BY <1>1, <1>2 DEF IsChar

\* ... and with four.
LEMMA CharOfFour ==
  ASSUME NEW A, NEW B, NEW C, NEW D, <<A, B, C, D>> \in Rows, NEW s, Len(s) = 4,
         s[1] \in A, s[2] \in B, s[3] \in C, s[4] \in D
  PROVE  IsChar(s)
<1> DEFINE r == <<A, B, C, D>>
<1>1. r \in Rows /\ Len(r) = 4 /\ r[1] = A /\ r[2] = B /\ r[3] = C /\ r[4] = D
  OBVIOUS
<1> HIDE DEF r
<1>2. \A k \in 1..Len(s) : s[k] \in r[k]
  BY <1>1
<1> QED BY <1>1, <1>2 DEF IsChar

\* What utf8_validate takes for a character is one.
LEMMA ValidIsChar ==
  ASSUME NEW t \in Seq(Byte), NEW i \in Nat, 0 < i, i <= Len(t),
         utf8_len(t[i]) # 0, i + utf8_len(t[i]) - 1 <= Len(t),
         valid_char(t, i, utf8_len(t[i]))
  PROVE  IsChar(SubSeq(t, i, i + utf8_len(t[i]) - 1))
<1> DEFINE n == utf8_len(t[i])
           s == SubSeq(t, i, i + n - 1)
<1>1. n \in 1..4
  BY CharacterLength
<1>2. /\ Len(s) = n
      /\ \A k \in 1..n : s[k] = t[i + k - 1] /\ s[k] \in Byte
  BY <1>1, CharacterBytes
<1>3. /\ n = 1 => t[i] \in 0..127
      /\ n = 2 => t[i] \in 194..223
      /\ n = 3 => t[i] \in 224..239
      /\ n = 4 => t[i] \in 240..244
  BY CharacterLengths
<1>4. valid_char(t, i, n)
  OBVIOUS
<1>5. i + 1 - 1 = i /\ i + 2 - 1 = i + 1 /\ i + 3 - 1 = i + 2 /\ i + 4 - 1 = i + 3
  OBVIOUS
<1> SUFFICES IsChar(s)
  OBVIOUS
<1> HIDE DEF n, s
<1>6. CASE n = 1
  <2> DEFINE A == 0..127
  <2>1. Len(s) = 1 /\ s[1] = t[i]
    BY <1>2, <1>5, <1>6
  <2>2. s[1] \in A
    BY <1>3, <1>6, <2>1
  <2>3. <<A>> \in Rows
    BY DEF Rows
  <2> HIDE DEF A
  <2> QED BY <2>1, <2>2, <2>3, CharOfOne
<1>7. CASE n = 2
  <2> DEFINE A == 194..223
  <2>1. Len(s) = 2 /\ s[1] = t[i] /\ s[2] = t[i + 1] /\ s[2] \in Byte
    BY <1>2, <1>5, <1>7
  <2>2. s[1] \in A
    BY <1>3, <1>7, <2>1
  <2>3. s[2] \in Any
    BY <1>4, <1>7, <2>1, ValidTwo, Low
  <2>4. <<A, Any>> \in Rows
    BY DEF Rows
  <2> HIDE DEF A
  <2> QED BY <2>1, <2>2, <2>3, <2>4, CharOfTwo
<1>8. CASE n = 3
  <2> DEFINE v == Value3(t, i)
             A1 == {224}
             B1 == 160..191
             A2 == {237}
             B2 == 128..159
             A3 == 225..236 \cup 238..239
  <2>1. /\ Len(s) = 3 /\ s[1] = t[i] /\ s[2] = t[i + 1] /\ s[3] = t[i + 2]
        /\ s[2] \in Byte /\ s[3] \in Byte
    BY <1>2, <1>5, <1>8
  <2>2. /\ 2048 <= v /\ ~(55296 <= v /\ v <= 57343)
        /\ Continuation(s[2]) /\ Continuation(s[3])
    BY <1>4, <1>8, <2>1, ValidThree
  <2>3. s[2] \in Any /\ Low6(s[2]) = s[2] - 128
    BY <2>1, <2>2, Low
  <2>4. s[3] \in Any /\ Low6(s[3]) = s[3] - 128
    BY <2>1, <2>2, Low
  <2>5. v = Code3(s[1], s[2], s[3])
    BY <2>1, <2>3, <2>4 DEF Value3, Code3
  <2>6. s[1] \in 224..239
    BY <1>3, <1>8, <2>1
  <2> HIDE DEF v
  <2>7. \/ s[1] \in A1 /\ s[2] \in B1
        \/ s[1] \in A2 /\ s[2] \in B2
        \/ s[1] \in A3
    <3>1. s[1] \in 224..239 /\ s[2] \in Any /\ s[3] \in Any
      BY <2>3, <2>4, <2>6
    <3>2. CodePoint3(Code3(s[1], s[2], s[3]))
      BY <2>2, <2>5 DEF CodePoint3
    <3>3. Starts3(s[1], s[2])
      BY <3>1, <3>2, ThreeBytes
    <3> QED BY <3>3 DEF Starts3
  <2>8. <<A1, B1, Any>> \in Rows /\ <<A2, B2, Any>> \in Rows /\ <<A3, Any, Any>> \in Rows
    BY DEF Rows
  <2> HIDE DEF A1, B1, A2, B2, A3
  <2> QED BY <2>1, <2>3, <2>4, <2>7, <2>8, CharOfThree
<1>9. CASE n = 4
  <2> DEFINE v == Value4(t, i)
             A1 == {240}
             B1 == 144..191
             A2 == {244}
             B2 == 128..143
             A3 == 241..243
  <2>1. /\ Len(s) = 4 /\ s[1] = t[i] /\ s[2] = t[i + 1] /\ s[3] = t[i + 2] /\ s[4] = t[i + 3]
        /\ s[2] \in Byte /\ s[3] \in Byte /\ s[4] \in Byte
    BY <1>2, <1>5, <1>9
  <2>2. /\ 65536 <= v /\ v <= 1114111
        /\ Continuation(s[2]) /\ Continuation(s[3]) /\ Continuation(s[4])
    BY <1>4, <1>9, <2>1, ValidFour
  <2>3. s[2] \in Any /\ Low6(s[2]) = s[2] - 128
    BY <2>1, <2>2, Low
  <2>4. s[3] \in Any /\ Low6(s[3]) = s[3] - 128
    BY <2>1, <2>2, Low
  <2>5. s[4] \in Any /\ Low6(s[4]) = s[4] - 128
    BY <2>1, <2>2, Low
  <2>6. v = Code4(s[1], s[2], s[3], s[4])
    BY <2>1, <2>3, <2>4, <2>5 DEF Value4, Code4
  <2>7. s[1] \in 240..244
    BY <1>3, <1>9, <2>1
  <2> HIDE DEF v
  <2>8. \/ s[1] \in A1 /\ s[2] \in B1
        \/ s[1] \in A2 /\ s[2] \in B2
        \/ s[1] \in A3
    <3>1. s[1] \in 240..244 /\ s[2] \in Any /\ s[3] \in Any /\ s[4] \in Any
      BY <2>3, <2>4, <2>5, <2>7
    <3>2. /\ 65536 <= Code4(s[1], s[2], s[3], s[4])
          /\ Code4(s[1], s[2], s[3], s[4]) <= 1114111
      BY <2>2, <2>6
    <3>3. Starts4(s[1], s[2])
      BY <3>1, <3>2, FourBytes
    <3> QED BY <3>3 DEF Starts4
  <2>9. /\ <<A1, B1, Any, Any>> \in Rows /\ <<A2, B2, Any, Any>> \in Rows
        /\ <<A3, Any, Any, Any>> \in Rows
    BY DEF Rows
  <2> HIDE DEF A1, B1, A2, B2, A3
  <2> QED BY SMTT(30), <2>1, <2>3, <2>4, <2>5, <2>8, <2>9, CharOfFour
<1> QED BY <1>1, <1>6, <1>7, <1>8, <1>9

-------------------------------------------------------------------------------
(* What is accepted is text *)

\* C is a set of cuts of t, between from and to, into characters.
CutsIntoChars(t, C, from, to) ==
  /\ from \in C /\ to \in C /\ C \subseteq from..to
  /\ \A k \in C : k = from \/ \E j \in C : j < k /\ IsChar(SubSeq(t, j + 1, k))

\* What the loop accepts from the i-th byte on: characters, and less than one.
AcceptsChars(t, i, v) ==
  v.rv = 0 => /\ v.len \in i - 1..Len(t)
              /\ v.len # Len(t) => Len(t) - v.len < utf8_len(t[v.len + 1])
              /\ \E C : CutsIntoChars(t, C, i - 1, v.len)

\* Where the loop ends.
LEMMA NoCharacterLeft ==
  ASSUME NEW t \in Seq(Byte), NEW i \in 1..Len(t) + 1, NEW v, v.len = i - 1,
         i <= Len(t) => Len(t) - i + 1 < utf8_len(t[i])
  PROVE  AcceptsChars(t, i, v)
<1>1. Len(t) \in Nat
  OBVIOUS
<1>2. CutsIntoChars(t, {i - 1}, i - 1, i - 1)
  BY <1>1 DEF CutsIntoChars
<1>3. v.len \in i - 1..Len(t) /\ v.len + 1 = i
  BY <1>1
<1>4. v.len # Len(t) => Len(t) - v.len < utf8_len(t[v.len + 1])
  <2>1. utf8_len(t[i]) \in 0..4
    BY CharacterLength
  <2>2. ASSUME v.len # Len(t) PROVE Len(t) - v.len < utf8_len(t[i])
    BY <1>1, <1>3, <2>1, <2>2
  <2> QED BY <1>3, <2>2
<1> QED BY <1>2, <1>3, <1>4 DEF AcceptsChars

\* Where it goes on.
LEMMA CharacterBefore ==
  ASSUME NEW t \in Seq(Byte), NEW i \in 1..Len(t), NEW n \in 1..4, i + n - 1 <= Len(t),
         IsChar(SubSeq(t, i, i + n - 1)), NEW v, AcceptsChars(t, i + n, v)
  PROVE  AcceptsChars(t, i, v)
<1> SUFFICES ASSUME v.rv = 0
    PROVE  /\ v.len \in i - 1..Len(t)
           /\ v.len # Len(t) => Len(t) - v.len < utf8_len(t[v.len + 1])
           /\ \E C : CutsIntoChars(t, C, i - 1, v.len)
  BY DEF AcceptsChars
<1>1. Len(t) \in Nat
  OBVIOUS
<1>2. /\ v.len \in i + n - 1..Len(t)
      /\ v.len # Len(t) => Len(t) - v.len < utf8_len(t[v.len + 1])
  BY DEF AcceptsChars
<1>3. PICK C : CutsIntoChars(t, C, i + n - 1, v.len)
  BY DEF AcceptsChars
<1> DEFINE D == C \cup {i - 1}
<1>4. i - 1 \in D /\ v.len \in D /\ D \subseteq i - 1..v.len
  BY <1>1, <1>2, <1>3 DEF CutsIntoChars
<1>5. ASSUME NEW k \in D, k # i - 1
      PROVE  \E j \in D : j < k /\ IsChar(SubSeq(t, j + 1, k))
  <2>1. CASE k = i + n - 1
    <3>1. i - 1 \in D /\ i - 1 < k /\ i - 1 + 1 = i
      BY <2>1
    <3> QED BY <2>1, <3>1
  <2>2. CASE k # i + n - 1
    <3>1. PICK j \in C : j < k /\ IsChar(SubSeq(t, j + 1, k))
      BY <1>3, <1>5, <2>2 DEF CutsIntoChars
    <3> QED BY <3>1
  <2> QED BY <2>1, <2>2
<1>6. CutsIntoChars(t, D, i - 1, v.len)
  <2> HIDE DEF D
  <2> QED BY <1>4, <1>5 DEF CutsIntoChars
<1>7. v.len \in i - 1..Len(t)
  BY <1>1, <1>2
<1> QED BY <1>2, <1>6, <1>7

\* So it is for the whole loop.
LEMMA LoopAcceptsChars ==
  ASSUME NEW t \in Seq(Byte), NEW f, LoopFrom(t, f, 1)
  PROVE  AcceptsChars(t, 1, f[1])
<1> DEFINE B == {i \in 1..Len(t) + 1 : ~AcceptsChars(t, i, f[i])}
<1>1. Len(t) \in Nat
  OBVIOUS
<1>2. ASSUME B # {} PROVE FALSE
  <2>1. PICK i \in B : \A j \in B : j <= i
    <3>1. Len(t) + 1 \in Nat /\ B \subseteq 0..Len(t) + 1
      BY <1>1
    <3> HIDE DEF B
    <3> QED BY <1>2, <3>1, GreatestNumber
  <2>2. i \in 1..Len(t) + 1 /\ ~AcceptsChars(t, i, f[i])
    OBVIOUS
  <2>3. i \in 1..Len(t) + 4
    BY <1>1, <2>2
  <2>4. f[i] = Iteration(t, f, i)
    BY <2>3 DEF LoopFrom
  <2>5. ASSUME NEW j \in 1..Len(t) + 1, i < j PROVE AcceptsChars(t, j, f[j])
    <3>1. j \notin B
      <4> HIDE DEF B
      <4> QED BY <1>1, <2>1, <2>2, <2>5
    <3> QED BY <3>1
  <2> HIDE DEF B
  <2> DEFINE n == utf8_len(t[i])
  <2>6. n \in 0..4
    BY CharacterLength
  <2>7. CASE i > Len(t)
    <3>1. f[i] = [rv |-> 0, len |-> Len(t)] /\ i = Len(t) + 1
      BY <1>1, <2>2, <2>4, <2>7 DEF Iteration
    <3>2. f[i].len = i - 1 /\ ~(i <= Len(t))
      BY <1>1, <2>7, <3>1
    <3> QED BY <2>2, <3>2, NoCharacterLeft
  <2>8. CASE i <= Len(t) /\ Len(t) - i + 1 < n
    <3>1. ~(i > Len(t))
      BY <1>1, <2>2, <2>8
    <3>2. f[i] = [rv |-> 0, len |-> i - 1]
      BY <2>4, <2>8, <3>1 DEF Iteration
    <3> QED BY <2>2, <2>8, <3>2, NoCharacterLeft
  <2>9. CASE i <= Len(t) /\ ~(Len(t) - i + 1 < n)
    <3>1. ~(i > Len(t))
      BY <1>1, <2>2, <2>9
    <3>2. CASE n = 0 \/ ~valid_char(t, i, n)
      <4>1. f[i] = [rv |-> -1, len |-> Len(t)]
        BY <2>4, <2>9, <3>1, <3>2 DEF Iteration
      <4>2. f[i].rv # 0
        BY <4>1
      <4> QED BY <2>2, <4>2 DEF AcceptsChars
    <3>3. CASE n # 0 /\ valid_char(t, i, n)
      <4>1. f[i] = f[i + n]
        BY <2>4, <2>9, <3>1, <3>3 DEF Iteration
      <4>2. /\ n \in 1..4 /\ i \in 1..Len(t) /\ i \in Nat /\ 0 < i /\ i + n - 1 <= Len(t)
            /\ i + n \in 1..Len(t) + 1 /\ i < i + n
        <5> HIDE DEF n
        <5> QED BY <1>1, <2>2, <2>6, <2>9, <3>3
      <4>3. IsChar(SubSeq(t, i, i + n - 1))
        BY <2>9, <3>3, <4>2, ValidIsChar
      <4>4. AcceptsChars(t, i + n, f[i + n])
        BY <2>5, <4>2
      <4> HIDE DEF n
      <4> QED BY <2>2, <4>1, <4>2, <4>3, <4>4, CharacterBefore
    <3> QED BY <3>2, <3>3
  <2> QED BY <1>1, <2>2, <2>7, <2>8, <2>9
<1>3. 1 \in 1..Len(t) + 1
  BY <1>1
<1>4. 1 \notin B
  BY <1>2
<1> QED BY <1>3, <1>4

\* Less than a character is left over, for every text.
LEMMA LessThanCharacterLeft ==
  ASSUME NEW t \in Seq(Byte)
  PROVE  LeavesCutCharacter(t)
<1>1. PICK f : LoopFrom(t, f, 1) /\ utf8_validate(t) = f[1]
  BY ValidateIsLoop
<1>2. AcceptsChars(t, 1, utf8_validate(t))
  BY <1>1, LoopAcceptsChars
<1> DEFINE v == utf8_validate(t)
<1>3. ASSUME v.rv = 0, v.len # Len(t)
      PROVE  v.len \in 0..Len(t) - 1 /\ Len(t) - v.len < utf8_len(t[v.len + 1])
  <2>1. v.len \in 1 - 1..Len(t) /\ Len(t) - v.len < utf8_len(t[v.len + 1])
    BY <1>2, <1>3 DEF AcceptsChars
  <2> HIDE DEF v
  <2>2. Len(t) \in Nat
    OBVIOUS
  <2> QED BY <1>3, <2>1, <2>2
<1> QED BY <1>3 DEF LeavesCutCharacter

\* What IsText asks of the first k bytes of s, if g is what it asks of less.
TextUpTo(s, g, k) == k = 0 \/ \E j \in 0..k - 1 : g[j] /\ IsChar(SubSeq(s, j + 1, k))

\* g is what IsText asks of each start of s up to n bytes.
IsUpTo(s, g, n) == g = [k \in 0..n |-> TextUpTo(s, g, k)]

\* IsText is well defined.
LEMMA UpToIsDefined ==
  ASSUME NEW s, NEW n \in Nat
  PROVE  \E g : IsUpTo(s, g, n)
<1> DEFINE T == {m \in Nat : ~ \E g : IsUpTo(s, g, m)}
<1>1. ASSUME T # {} PROVE FALSE
  <2>1. PICK m \in T : \A y \in T : m <= y
    <3>1. T \subseteq Nat
      OBVIOUS
    <3> HIDE DEF T
    <3> QED BY <1>1, <3>1, LeastNumber
  <2>2. m \in Nat /\ ~ \E g : IsUpTo(s, g, m)
    OBVIOUS
  <2>3. \E g : \A k \in 0..m - 1 : g[k] = TextUpTo(s, g, k)
    <3>1. CASE m = 0
      BY <3>1
    <3>2. CASE m # 0
      <4>1. m - 1 \in Nat /\ ~(m <= m - 1)
        BY <2>2, <3>2
      <4>2. m - 1 \notin T
        <5> HIDE DEF T
        <5> QED BY <2>1, <4>1
      <4>3. PICK g : IsUpTo(s, g, m - 1)
        BY <4>1, <4>2
      <4> QED BY <4>3 DEF IsUpTo
    <3> QED BY <3>1, <3>2
  <2> HIDE DEF T
  <2>4. PICK g : \A k \in 0..m - 1 : g[k] = TextUpTo(s, g, k)
    BY <2>3
  <2> DEFINE h == [k \in 0..m |-> TextUpTo(s, g, k)]
  <2>5. \A k \in 0..m - 1 : h[k] = g[k]
    BY <2>2, <2>4
  <2>6. \A k \in 0..m : h[k] = TextUpTo(s, g, k)
    OBVIOUS
  <2>7. h = [k \in 0..m |-> h[k]]
    OBVIOUS
  <2> HIDE DEF h
  <2>8. ASSUME NEW k \in 0..m PROVE TextUpTo(s, g, k) = TextUpTo(s, h, k)
    <3>1. \A j \in 0..k - 1 : j \in 0..m - 1
      BY <2>2
    <3>2. \A j \in 0..k - 1 : h[j] = g[j]
      BY <2>5, <3>1
    <3> QED BY <3>2 DEF TextUpTo
  <2>9. h = [k \in 0..m |-> TextUpTo(s, h, k)]
    <3>1. \A k \in 0..m : h[k] = TextUpTo(s, h, k)
      BY <2>6, <2>8
    <3> QED BY <2>7, <3>1
  <2> QED BY <2>2, <2>9 DEF IsUpTo
<1> QED BY <1>1

\* IsText is this function at the end of s.
LEMMA TextIsUpTo ==
  ASSUME NEW s, Len(s) \in Nat
  PROVE  \E g : IsUpTo(s, g, Len(s)) /\ (IsText(s) <=> g[Len(s)])
<1> DEFINE G == CHOOSE g : g = [k \in 0..Len(s) |-> TextUpTo(s, g, k)]
<1>1. G = [k \in 0..Len(s) |-> TextUpTo(s, G, k)]
  BY UpToIsDefined DEF IsUpTo
<1>2. IsText(s) <=> G[Len(s)]
  BY DEF IsText, TextUpTo
<1> QED BY <1>1, <1>2 DEF IsUpTo

\* The beginning of a beginning.
LEMMA PartOfPart ==
  ASSUME NEW t \in Seq(Byte), NEW n \in Nat, n <= Len(t), NEW j \in Nat, NEW k \in Nat, k <= n
  PROVE  SubSeq(SubSeq(t, 1, n), j + 1, k) = SubSeq(t, j + 1, k)
OBVIOUS

\* Cuts into characters make a text.
LEMMA CutsMakeText ==
  ASSUME NEW t \in Seq(Byte), NEW n \in Nat, n <= Len(t), NEW C, CutsIntoChars(t, C, 0, n)
  PROVE  IsText(SubSeq(t, 1, n))
<1> DEFINE s == SubSeq(t, 1, n)
<1>1. s \in Seq(Byte) /\ Len(s) = n
  OBVIOUS
<1>2. ASSUME NEW k \in Nat, NEW j \in Nat, k <= n, j < k, IsChar(SubSeq(t, j + 1, k))
      PROVE  IsChar(SubSeq(s, j + 1, k))
  BY <1>2, PartOfPart
<1> HIDE DEF s
<1>3. PICK g : IsUpTo(s, g, n) /\ (IsText(s) <=> g[n])
  BY <1>1, TextIsUpTo
<1>4. \A k \in 0..n : g[k] = TextUpTo(s, g, k)
  BY <1>3 DEF IsUpTo
<1> DEFINE T == {k \in C : ~g[k]}
<1>5. ASSUME T # {} PROVE FALSE
  <2>1. PICK k \in T : \A y \in T : k <= y
    <3>1. T \subseteq Nat
      <4>1. C \subseteq 0..n /\ 0..n \subseteq Nat
        BY DEF CutsIntoChars
      <4>2. T \subseteq C
        OBVIOUS
      <4> HIDE DEF T
      <4> QED BY <4>1, <4>2
    <3> HIDE DEF T
    <3> QED BY <1>5, <3>1, LeastNumber
  <2>2. k \in C /\ ~g[k] /\ k \in 0..n
    BY DEF CutsIntoChars
  <2>3. ~TextUpTo(s, g, k)
    BY <1>4, <2>2
  <2>4. k # 0
    BY <2>3 DEF TextUpTo
  <2>5. PICK j \in C : j < k /\ IsChar(SubSeq(t, j + 1, k))
    BY <2>2, <2>4 DEF CutsIntoChars
  <2>6. j \in 0..k - 1 /\ j \in Nat /\ k \in Nat /\ k <= n
    BY <2>2, <2>5 DEF CutsIntoChars
  <2>7. g[j]
    <3>1. j \notin T
      <4> HIDE DEF T
      <4> QED BY <2>1, <2>5, <2>6
    <3> QED BY <2>5, <3>1
  <2>8. IsChar(SubSeq(s, j + 1, k))
    BY <1>2, <2>5, <2>6
  <2> QED BY <2>3, <2>6, <2>7, <2>8 DEF TextUpTo
<1>6. n \in C
  BY DEF CutsIntoChars
<1>7. g[n]
  BY <1>5, <1>6
<1> QED BY <1>3, <1>7 DEF s

\* What utf8_validate accepts is text.
LEMMA ValidatedIsText ==
  ASSUME NEW t \in Seq(Byte), utf8_validate(t).rv = 0
  PROVE  /\ utf8_validate(t).len \in 0..Len(t)
         /\ IsText(SubSeq(t, 1, utf8_validate(t).len))
<1> DEFINE v == utf8_validate(t)
<1>1. PICK f : LoopFrom(t, f, 1) /\ v = f[1]
  BY ValidateIsLoop
<1>2. AcceptsChars(t, 1, v)
  BY <1>1, LoopAcceptsChars
<1>3. v.rv = 0
  OBVIOUS
<1> HIDE DEF v
<1>4. v.len \in 0..Len(t) /\ \E C : CutsIntoChars(t, C, 0, v.len)
  <2>1. 1 - 1 = 0
    OBVIOUS
  <2> QED BY <1>2, <1>3, <2>1 DEF AcceptsChars
<1>5. v.len \in Nat /\ v.len <= Len(t)
  BY <1>4
<1>6. IsText(SubSeq(t, 1, v.len))
  BY <1>4, <1>5, CutsMakeText
<1> QED BY <1>4, <1>6 DEF v

-------------------------------------------------------------------------------
(* Text is accepted *)

\* The rows by the number of their columns.
Rows1 == {<<0..127>>}
Rows2 == {<<194..223, Any>>}
Rows3 == {<<{224}, 160..191, Any>>, <<225..236 \cup 238..239, Any, Any>>, <<{237}, 128..159, Any>>}
Rows4 == {<<{240}, 144..191, Any, Any>>, <<241..243, Any, Any, Any>>, <<{244}, 128..143, Any, Any>>}

\* They are all.
LEMMA RowsByLength ==
  ASSUME NEW r \in Rows
  PROVE  \/ r \in Rows1 /\ Len(r) = 1
         \/ r \in Rows2 /\ Len(r) = 2
         \/ r \in Rows3 /\ Len(r) = 3
         \/ r \in Rows4 /\ Len(r) = 4
BY DEF Rows, Rows1, Rows2, Rows3, Rows4

\* What the second byte is after the first ones that restrict it.
Second3(a, b) == (a = 224 => b \in 160..191) /\ (a = 237 => b \in 128..159)
Second4(a, b) == (a = 240 => b \in 144..191) /\ (a = 244 => b \in 128..143)

\* What the columns of a row hold.
LEMMA Columns1 ==
  ASSUME NEW r \in Rows1
  PROVE  r[1] = 0..127
BY DEF Rows1

\* ... with two columns ...
LEMMA Columns2 ==
  ASSUME NEW r \in Rows2
  PROVE  r[1] = 194..223 /\ r[2] = Any
BY DEF Rows2

\* ... with three ...
LEMMA Columns3 ==
  ASSUME NEW r \in Rows3, NEW a \in r[1]
  PROVE  /\ a \in 224..239 /\ r[3] = Any
         /\ \A b \in r[2] : b \in Any /\ Second3(a, b)
<1>1. CASE r = <<{224}, 160..191, Any>>
  <2>1. r[1] = {224} /\ r[2] = 160..191 /\ r[3] = Any
    BY <1>1
  <2>2. a = 224
    BY <2>1
  <2>3. \A b \in 160..191 : b \in Any
    BY DEF Any
  <2> QED BY <2>1, <2>2, <2>3 DEF Second3
<1>2. CASE r = <<{237}, 128..159, Any>>
  <2>1. r[1] = {237} /\ r[2] = 128..159 /\ r[3] = Any
    BY <1>2
  <2>2. a = 237
    BY <2>1
  <2>3. \A b \in 128..159 : b \in Any
    BY DEF Any
  <2> QED BY <2>1, <2>2, <2>3 DEF Second3
<1>3. CASE r = <<225..236 \cup 238..239, Any, Any>>
  <2>1. r[1] = 225..236 \cup 238..239 /\ r[2] = Any /\ r[3] = Any
    BY <1>3
  <2>2. a \in 225..236 \cup 238..239
    BY <2>1
  <2>3. a \in 224..239 /\ a # 224 /\ a # 237
    BY <2>2
  <2> QED BY <2>1, <2>2, <2>3 DEF Second3
<1> QED BY <1>1, <1>2, <1>3 DEF Rows3

\* ... and with four.
LEMMA Columns4 ==
  ASSUME NEW r \in Rows4, NEW a \in r[1]
  PROVE  /\ a \in 240..244 /\ r[3] = Any /\ r[4] = Any
         /\ \A b \in r[2] : b \in Any /\ Second4(a, b)
<1>1. CASE r = <<{240}, 144..191, Any, Any>>
  <2>1. r[1] = {240} /\ r[2] = 144..191 /\ r[3] = Any /\ r[4] = Any
    BY <1>1
  <2>2. a = 240
    BY <2>1
  <2>3. \A b \in 144..191 : b \in Any
    BY DEF Any
  <2> QED BY <2>1, <2>2, <2>3 DEF Second4
<1>2. CASE r = <<{244}, 128..143, Any, Any>>
  <2>1. r[1] = {244} /\ r[2] = 128..143 /\ r[3] = Any /\ r[4] = Any
    BY <1>2
  <2>2. a = 244
    BY <2>1
  <2>3. \A b \in 128..143 : b \in Any
    BY DEF Any
  <2> QED BY <2>1, <2>2, <2>3 DEF Second4
<1>3. CASE r = <<241..243, Any, Any, Any>>
  <2>1. r[1] = 241..243 /\ r[2] = Any /\ r[3] = Any /\ r[4] = Any
    BY <1>3
  <2>2. a \in 241..243
    BY <2>1
  <2>3. a \in 240..244 /\ a # 240 /\ a # 244
    BY <2>2
  <2> QED BY <2>1, <2>2, <2>3 DEF Second4
<1> QED BY <1>1, <1>2, <1>3 DEF Rows4

\* The first byte of a character tells its length.
LEMMA LengthOfRow ==
  ASSUME NEW r \in Rows, NEW b \in r[1]
  PROVE  utf8_len(b) = Len(r)
<1>1. CASE r \in Rows1 /\ Len(r) = 1
  <2>1. b \in 0..127
    BY <1>1, Columns1
  <2> QED BY <1>1, <2>1 DEF utf8_len
<1>2. CASE r \in Rows2 /\ Len(r) = 2
  <2>1. b \in 194..223
    BY <1>2, Columns2
  <2> QED BY <1>2, <2>1 DEF utf8_len
<1>3. CASE r \in Rows3 /\ Len(r) = 3
  <2>1. b \in 224..239
    BY <1>3, Columns3
  <2> QED BY <1>3, <2>1 DEF utf8_len
<1>4. CASE r \in Rows4 /\ Len(r) = 4
  <2>1. b \in 240..244
    BY <1>4, Columns4
  <2> QED BY <1>4, <2>1 DEF utf8_len
<1> QED BY <1>1, <1>2, <1>3, <1>4, RowsByLength

\* A byte of that column is a continuation byte.
LEMMA ContinuationByte ==
  ASSUME NEW b \in Any
  PROVE  Continuation(b) /\ Low6(b) = b - 128
BY DEF Any, Continuation, Low6

\* The other way about: the bytes of a row give a code point that passes.
LEMMA ThreeBytesPass ==
  ASSUME NEW a \in 224..239, NEW b \in Any, NEW c \in Any,
         Second3(a, b)
  PROVE  CodePoint3(Code3(a, b, c))
<1>1. a % 16 = a - 224
  OBVIOUS
<1>2. b \in Int /\ 128 <= b /\ b <= 191 /\ c \in Int /\ 128 <= c /\ c <= 191
  BY DEF Any
<1>3. 2048 <= Code3(a, b, c)
  BY <1>1, <1>2 DEF Code3, Second3
<1>4. ~(55296 <= Code3(a, b, c) /\ Code3(a, b, c) <= 57343)
  BY <1>1, <1>2 DEF Code3, Second3
<1> QED BY <1>3, <1>4 DEF CodePoint3

\* Four bytes of table 3-7 have a code point in range.
LEMMA FourBytesPass ==
  ASSUME NEW a \in 240..244, NEW b \in Any, NEW c \in Any, NEW d \in Any,
         Second4(a, b)
  PROVE  65536 <= Code4(a, b, c, d) /\ Code4(a, b, c, d) <= 1114111
<1>1. a % 8 = a - 240
  OBVIOUS
<1>2. /\ b \in Int /\ 128 <= b /\ b <= 191 /\ c \in Int /\ 128 <= c /\ c <= 191
      /\ d \in Int /\ 128 <= d /\ d <= 191
  BY DEF Any
<1> QED BY <1>1, <1>2 DEF Code4, Second4

\* Every character passes the checks of utf8_validate.
LEMMA CharIsValid ==
  ASSUME NEW t \in Seq(Byte), NEW i \in Nat, NEW n \in Nat, 0 < i, 0 < n, i + n - 1 <= Len(t),
         IsChar(SubSeq(t, i, i + n - 1))
  PROVE  n \in 1..4 /\ utf8_len(t[i]) = n /\ valid_char(t, i, n)
<1> DEFINE s == SubSeq(t, i, i + n - 1)
<1>1. Len(s) = n /\ \A k \in 1..n : s[k] = t[i + k - 1]
  OBVIOUS
<1>2. IsChar(s)
  OBVIOUS
<1> HIDE DEF s
<1>3. PICK r \in Rows : Len(s) = Len(r) /\ \A k \in 1..Len(s) : s[k] \in r[k]
  BY <1>2 DEF IsChar
<1>4. \A k \in 1..n : t[i + k - 1] \in r[k]
  BY <1>1, <1>3
<1>5. i + 1 - 1 = i /\ i + 2 - 1 = i + 1 /\ i + 3 - 1 = i + 2 /\ i + 4 - 1 = i + 3
  OBVIOUS
<1>6. t[i] \in r[1]
  <2>1. 1 \in 1..n
    OBVIOUS
  <2> QED BY <1>4, <1>5, <2>1
<1>7. utf8_len(t[i]) = n
  BY <1>1, <1>3, <1>6, LengthOfRow
<1>8. CASE r \in Rows1 /\ Len(r) = 1
  <2>1. n = 1
    BY <1>1, <1>3, <1>8
  <2> QED BY <1>7, <2>1 DEF valid_char
<1>9. CASE r \in Rows2 /\ Len(r) = 2
  <2>1. n = 2 /\ 2 \in 1..n
    BY <1>1, <1>3, <1>9
  <2>2. t[i + 1] \in Any
    BY <1>4, <1>5, <1>9, <2>1, Columns2
  <2>3. Continuation(t[i + 1])
    BY <2>2, ContinuationByte
  <2> QED BY <1>7, <2>1, <2>3 DEF valid_char
<1>10. CASE r \in Rows3 /\ Len(r) = 3
  <2> DEFINE a == t[i]
             b == t[i + 1]
             c == t[i + 2]
  <2>1. n = 3 /\ 2 \in 1..n /\ 3 \in 1..n
    BY <1>1, <1>3, <1>10
  <2>2. b \in r[2] /\ c \in r[3]
    BY <1>4, <1>5, <2>1
  <2>3. a \in 224..239 /\ b \in Any /\ c \in Any /\ Second3(a, b)
    BY <1>6, <1>10, <2>2, Columns3
  <2>4. CodePoint3(Code3(a, b, c))
    <3> HIDE DEF a, b, c
    <3> QED BY <2>3, ThreeBytesPass
  <2>5. /\ Continuation(b) /\ Low6(b) = b - 128
        /\ Continuation(c) /\ Low6(c) = c - 128
    BY <2>3, ContinuationByte
  <2>6. /\ 2048 <= Value3(t, i) /\ ~(55296 <= Value3(t, i) /\ Value3(t, i) <= 57343)
    BY <2>4, <2>5 DEF Value3, Code3, CodePoint3
  <2>7. valid_char(t, i, 3)
    BY <2>5, <2>6 DEF valid_char, Value3
  <2> QED BY <1>7, <2>1, <2>7
<1>11. CASE r \in Rows4 /\ Len(r) = 4
  <2> DEFINE a == t[i]
             b == t[i + 1]
             c == t[i + 2]
             d == t[i + 3]
  <2>1. n = 4 /\ 2 \in 1..n /\ 3 \in 1..n /\ 4 \in 1..n
    BY <1>1, <1>3, <1>11
  <2>2. b \in r[2] /\ c \in r[3] /\ d \in r[4]
    BY <1>4, <1>5, <2>1
  <2>3. /\ a \in 240..244 /\ b \in Any /\ c \in Any /\ d \in Any
        /\ Second4(a, b)
    BY SMTT(30), <1>6, <1>11, <2>2, Columns4
  <2>4. 65536 <= Code4(a, b, c, d) /\ Code4(a, b, c, d) <= 1114111
    <3> HIDE DEF a, b, c, d
    <3> QED BY <2>3, FourBytesPass
  <2>5. /\ Continuation(b) /\ Low6(b) = b - 128
        /\ Continuation(c) /\ Low6(c) = c - 128
        /\ Continuation(d) /\ Low6(d) = d - 128
    BY <2>3, ContinuationByte
  <2>6. 65536 <= Value4(t, i) /\ Value4(t, i) <= 1114111
    BY <2>4, <2>5 DEF Value4, Code4
  <2>7. \A k \in 1..3 : Continuation(t[i + k])
    <3> TAKE k \in 1..3
    <3>1. k = 1 \/ k = 2 \/ k = 3
      OBVIOUS
    <3> QED BY <2>5, <3>1
  <2>8. valid_char(t, i, 4)
    BY <2>6, <2>7 DEF valid_char, Value4
  <2> QED BY <1>7, <2>1, <2>8
<1> QED BY <1>3, <1>8, <1>9, <1>10, <1>11, RowsByLength

\* The beginning of a character is shorter than it, by its first byte.
LEMMA StartIsShorter ==
  ASSUME NEW t \in Seq(Byte), NEW i \in Nat, 0 < i, i <= Len(t),
         IsCharStart(SubSeq(t, i, Len(t)))
  PROVE  Len(t) - i + 1 < utf8_len(t[i])
<1> DEFINE s == SubSeq(t, i, Len(t))
<1>1. Len(s) = Len(t) - i + 1 /\ s[1] = t[i] /\ 1 \in 1..Len(s)
  OBVIOUS
<1>2. IsCharStart(s)
  OBVIOUS
<1> HIDE DEF s
<1>3. PICK r \in Rows : Len(s) < Len(r) /\ \A k \in 1..Len(s) : s[k] \in r[k]
  BY <1>2 DEF IsCharStart
<1>4. utf8_len(t[i]) = Len(r)
  BY <1>1, <1>3, LengthOfRow
<1> QED BY <1>1, <1>3, <1>4

\* The loop gets over whole characters.
LEMMA LoopPassesText ==
  ASSUME NEW t \in Seq(Byte), NEW f, LoopFrom(t, f, 1),
         NEW n \in 0..Len(t), IsText(SubSeq(t, 1, n))
  PROVE  f[1] = f[n + 1]
<1> DEFINE s == SubSeq(t, 1, n)
<1>1. n \in Nat /\ n <= Len(t) /\ Len(t) \in Nat
  OBVIOUS
<1>2. s \in Seq(Byte) /\ Len(s) = n
  BY <1>1
<1>3. ASSUME NEW k \in Nat, NEW j \in Nat, k <= n, j < k, IsChar(SubSeq(s, j + 1, k))
      PROVE  IsChar(SubSeq(t, j + 1, k))
  BY <1>1, <1>3, PartOfPart
<1>4. IsText(s)
  OBVIOUS
<1> HIDE DEF s
<1>5. PICK g : IsUpTo(s, g, n) /\ g[n]
  BY <1>2, <1>4, TextIsUpTo
<1>6. \A k \in 0..n : g[k] = TextUpTo(s, g, k)
  BY <1>5 DEF IsUpTo
<1> DEFINE T == {k \in 0..n : g[k] /\ f[1] # f[k + 1]}
<1>7. ASSUME T # {} PROVE FALSE
  <2>1. PICK k \in T : \A y \in T : k <= y
    <3>1. T \subseteq Nat
      OBVIOUS
    <3> HIDE DEF T
    <3> QED BY <1>7, <3>1, LeastNumber
  <2>2. k \in 0..n /\ g[k] /\ f[1] # f[k + 1]
    OBVIOUS
  <2>3. TextUpTo(s, g, k) /\ k # 0
    BY <1>6, <2>2
  <2>4. PICK j \in 0..k - 1 : g[j] /\ IsChar(SubSeq(s, j + 1, k))
    BY <2>3 DEF TextUpTo
  <2>5. j \in 0..n /\ j \in Nat /\ k \in Nat /\ j < k /\ k <= n
    BY <1>1, <2>2
  <2>6. f[1] = f[j + 1]
    <3>1. j \notin T
      <4> HIDE DEF T
      <4> QED BY <2>1, <2>5
    <3> QED BY <2>4, <2>5, <3>1
  <2>7. IsChar(SubSeq(t, j + 1, k))
    BY <1>3, <2>4, <2>5
  <2> HIDE DEF T
  <2> DEFINE i == j + 1
             m == k - j
  <2>8. i \in Nat /\ m \in Nat /\ 0 < i /\ 0 < m /\ i + m - 1 = k /\ i + m = k + 1
        /\ i \in 1..Len(t) + 4 /\ i + m - 1 <= Len(t)
    BY <1>1, <2>5
  <2>9. IsChar(SubSeq(t, i, i + m - 1))
    BY <2>7, <2>8
  <2> HIDE DEF i, m
  <2>10. m \in 1..4 /\ utf8_len(t[i]) = m /\ valid_char(t, i, m)
    BY <2>8, <2>9, CharIsValid
  <2>11. ~(i > Len(t)) /\ ~(Len(t) - i + 1 < m) /\ m # 0
    BY <1>1, <2>8, <2>10
  <2>12. f[i] = f[i + m]
    <3>1. f[i] = Iteration(t, f, i)
      BY <2>8 DEF LoopFrom
    <3> QED BY <2>10, <2>11, <3>1 DEF Iteration
  <2>13. f[j + 1] = f[k + 1]
    BY <2>8, <2>12 DEF i
  <2> QED BY <2>2, <2>6, <2>13
<1>8. n \in 0..n
  BY <1>1
<1>9. n \notin T
  BY <1>7
<1> QED BY <1>5, <1>8, <1>9

\* utf8_validate accepts every text that can still become valid.
LEMMA TextStartIsValid ==
  ASSUME NEW t \in Seq(Byte), IsTextStart(t)
  PROVE  utf8_validate(t).rv = 0
<1>1. PICK f : LoopFrom(t, f, 1) /\ utf8_validate(t) = f[1]
  BY ValidateIsLoop
<1>2. PICK n \in 0..Len(t) : IsText(SubSeq(t, 1, n)) /\ IsCharStart(SubSeq(t, n + 1, Len(t)))
  BY DEF IsTextStart
<1>3. f[1] = f[n + 1]
  BY <1>1, <1>2, LoopPassesText
<1>4. Len(t) \in Nat
  OBVIOUS
<1>5. f[n + 1] = Iteration(t, f, n + 1)
  <2>1. n + 1 \in 1..Len(t) + 4
    BY <1>4
  <2> QED BY <1>1, <2>1 DEF LoopFrom
<1>6. CASE n = Len(t)
  <2>1. n + 1 > Len(t)
    BY <1>4, <1>6
  <2>2. f[n + 1].rv = 0
    BY <1>5, <2>1 DEF Iteration
  <2> QED BY <1>1, <1>3, <2>2
<1>7. CASE n # Len(t)
  <2> DEFINE i == n + 1
  <2>1. i \in Nat /\ 0 < i /\ i <= Len(t) /\ ~(i > Len(t))
    BY <1>4, <1>7
  <2>2. IsCharStart(SubSeq(t, i, Len(t))) /\ f[i] = Iteration(t, f, i)
    BY <1>2, <1>5
  <2> HIDE DEF i
  <2>3. Len(t) - i + 1 < utf8_len(t[i])
    BY <2>1, <2>2, StartIsShorter
  <2>4. f[i].rv = 0
    BY <2>1, <2>2, <2>3 DEF Iteration
  <2> QED BY <1>1, <1>3, <2>4 DEF i
<1> QED BY <1>6, <1>7

-------------------------------------------------------------------------------
(* utf8_maybe_valid *)

\* The bytes of a character as they are judged: those that are missing are 0x80.
Padded(t) == [i \in 1..utf8_len(t[1]) |-> IF i <= Len(t) THEN t[i] ELSE 128]

\* They are valid exactly when they are one character.
LEMMA PaddedIsChar ==
  ASSUME NEW t \in Seq(Byte), 0 < Len(t), Len(t) < utf8_len(t[1])
  PROVE  utf8_maybe_valid(t) <=> IsChar(Padded(t))
<1> DEFINE n == utf8_len(t[1])
           p == Padded(t)
<1>1. Len(t) \in Nat /\ n \in 1..4 /\ n \in Nat
  BY CharacterLength
<1>2. p = [i \in 1..n |-> IF i <= Len(t) THEN t[i] ELSE 128]
  BY DEF Padded
<1>3. utf8_maybe_valid(t) <=> utf8_validate(p).rv = 0
  BY <1>1, <1>2 DEF utf8_maybe_valid
<1> HIDE DEF n
<1>4. ASSUME NEW i \in 1..n PROVE (IF i <= Len(t) THEN t[i] ELSE 128) \in Byte
  <2>1. CASE i <= Len(t)
    <3>1. i \in 1..Len(t)
      BY <1>1, <2>1
    <3>2. t[i] \in Byte
      BY <3>1, ElementOfSeq
    <3> QED BY <2>1, <3>2
  <2>2. CASE ~(i <= Len(t))
    BY <2>2 DEF Byte
  <2> QED BY <2>1, <2>2
<1> HIDE DEF p
<1>5. p \in [1..n -> Byte]
  BY <1>2, <1>4
<1>6. p \in Seq(Byte) /\ Len(p) = n
  BY <1>1, <1>5
<1>7. p[1] = t[1] /\ utf8_len(p[1]) = n
  <2>1. 1 \in 1..n /\ 1 <= Len(t)
    BY <1>1
  <2> QED BY <1>2, <2>1 DEF n
<1>8. SubSeq(p, 1, 1 + n - 1) = p
  BY <1>1, <1>6
<1>9. PICK f : LoopFrom(p, f, 1) /\ utf8_validate(p) = f[1]
  BY <1>6, ValidateIsLoop
<1>10. 1 \in 1..Len(p) + 4 /\ n + 1 \in 1..Len(p) + 4 /\ n + 1 > Len(p) /\ ~(1 > Len(p))
       /\ ~(Len(p) - 1 + 1 < n) /\ n # 0 /\ 1 + n = n + 1 /\ 1 + n - 1 <= Len(p) /\ 1 <= Len(p)
  BY <1>1, <1>6
<1>11. f[1] = Iteration(p, f, 1) /\ f[n + 1] = Iteration(p, f, n + 1)
  BY <1>9, <1>10 DEF LoopFrom
<1>12. CASE valid_char(p, 1, n)
  <2>1. f[1] = f[n + 1] /\ f[n + 1].rv = 0
    BY <1>7, <1>10, <1>11, <1>12 DEF Iteration
  <2>2. /\ utf8_len(p[1]) # 0 /\ 1 + utf8_len(p[1]) - 1 <= Len(p)
        /\ valid_char(p, 1, utf8_len(p[1]))
        /\ 1 \in Nat /\ 0 < 1 /\ 1 <= Len(p)
    BY <1>7, <1>10, <1>12
  <2>3. IsChar(SubSeq(p, 1, 1 + utf8_len(p[1]) - 1))
    BY <1>6, <2>2, ValidIsChar
  <2>4. IsChar(p)
    BY <1>7, <1>8, <2>3
  <2> QED BY <1>3, <1>9, <2>1, <2>4 DEF p
<1>13. CASE ~valid_char(p, 1, n)
  <2>1. f[1].rv # 0
    BY <1>7, <1>10, <1>11, <1>13 DEF Iteration
  <2>2. 1 \in Nat /\ 0 < 1 /\ 0 < n /\ n \in Nat /\ 1 + n - 1 <= Len(p)
    BY <1>1, <1>10
  <2>3. ~IsChar(SubSeq(p, 1, 1 + n - 1))
    BY <1>6, <1>13, <2>2, CharIsValid
  <2> QED BY <1>3, <1>8, <1>9, <2>1, <2>3 DEF p
<1> QED BY <1>12, <1>13

\* The third and the fourth column of a row are not restricted.
LEMMA LaterColumns ==
  ASSUME NEW r \in Rows, NEW a \in r[1], NEW i \in 3..Len(r)
  PROVE  r[i] = Any
<1>1. CASE r \in Rows1 /\ Len(r) = 1
  BY <1>1
<1>2. CASE r \in Rows2 /\ Len(r) = 2
  BY <1>2
<1>3. CASE r \in Rows3 /\ Len(r) = 3
  <2>1. i = 3
    BY <1>3
  <2> QED BY <1>3, <2>1, Columns3
<1>4. CASE r \in Rows4 /\ Len(r) = 4
  <2>1. i = 3 \/ i = 4
    BY <1>4
  <2> QED BY <1>4, <2>1, Columns4
<1> QED BY <1>1, <1>2, <1>3, <1>4, RowsByLength

-------------------------------------------------------------------------------
(* The theorems *)

\* utf8_validate accepts every text that can still become valid, and what it counts
\* as whole characters is well formed, with less than a character left: for texts of
\* any length what ValidateAgreesWithUnicode says of short ones.
THEOREM ValidateIsExact ==
  ASSUME NEW t \in Seq(Byte)
  PROVE  LET v == utf8_validate(t)
         IN  /\ IsTextStart(t) => v.rv = 0
             /\ v.rv = 0 => IsText(SubSeq(t, 1, v.len))
             /\ LeavesCutCharacter(t)
BY TextStartIsValid, ValidatedIsText, LessThanCharacterLeft

\* utf8_maybe_valid decides exactly whether the bytes that are kept of a cut character,
\* two or three, begin a character.
THEOREM MaybeValidIsExact ==
  ASSUME NEW t \in Seq(Byte), 1 < Len(t), Len(t) < utf8_len(t[1])
  PROVE  utf8_maybe_valid(t) <=> IsCharStart(t)
<1> DEFINE n == utf8_len(t[1])
           p == Padded(t)
<1>1. n \in Nat /\ Len(t) \in Nat /\ 2 <= Len(t) /\ Len(t) < n
  <2>1. n \in 0..4
    BY CharacterLength
  <2>2. Len(t) \in Nat /\ 2 <= Len(t)
    OBVIOUS
  <2> QED BY <2>1, <2>2
<1>2. utf8_maybe_valid(t) <=> IsChar(p)
  <2>1. 0 < Len(t)
    BY <1>1
  <2> QED BY <2>1, PaddedIsChar
<1>3. /\ p = [i \in 1..n |-> p[i]]
      /\ \A i \in 1..n : p[i] = IF i <= Len(t) THEN t[i] ELSE 128
  BY DEF Padded
<1> HIDE DEF n, p
<1>4. Len(p) = n
  BY <1>1, <1>3
<1>5. ASSUME IsChar(p) PROVE IsCharStart(t)
  <2>1. PICK r \in Rows : Len(p) = Len(r) /\ \A i \in 1..Len(p) : p[i] \in r[i]
    BY <1>5 DEF IsChar
  <2>2. ASSUME NEW i \in 1..Len(t) PROVE t[i] \in r[i]
    <3>1. i \in 1..n /\ i <= Len(t)
      BY <1>1
    <3> QED BY ZenonT(40), <1>3, <1>4, <2>1, <3>1
  <2> QED BY <1>1, <1>4, <2>1, <2>2 DEF IsCharStart
<1>6. ASSUME IsCharStart(t) PROVE IsChar(p)
  <2>1. PICK r \in Rows : Len(t) < Len(r) /\ \A i \in 1..Len(t) : t[i] \in r[i]
    BY <1>6 DEF IsCharStart
  <2>2. t[1] \in r[1]
    <3>1. 1 \in 1..Len(t)
      BY <1>1
    <3> QED BY <2>1, <3>1
  <2>3. n = Len(r)
    BY <2>2, LengthOfRow DEF n
  <2>4. ASSUME NEW i \in 1..n PROVE p[i] \in r[i]
    <3>1. CASE i <= Len(t)
      <4>1. i \in 1..Len(t)
        BY <1>1, <3>1
      <4> QED BY <1>3, <2>1, <3>1, <4>1
    <3>2. CASE ~(i <= Len(t))
      <4>1. i \in 3..Len(r)
        BY <1>1, <2>3, <3>2
      <4>2. r[i] = Any
        BY <2>2, <4>1, LaterColumns
      <4>3. 128 \in Any
        BY DEF Any
      <4> QED BY <1>3, <3>2, <4>2, <4>3
    <3> QED BY <3>1, <3>2
  <2> QED BY <1>4, <2>3, <2>4 DEF IsChar
<1> QED BY <1>2, <1>5, <1>6 DEF p
===============================================================================
