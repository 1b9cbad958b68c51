---------------------------- MODULE MemPoolProofs -----------------------------
(***************************************************************************)
(* Theorems about MemPool, for any set of blocks.  First the links, block  *)
(* by block: each step of memory.c touches a block and its neighbours      *)
(* only, so that this local description is inductive.  Then the lists as a *)
(* whole, which the local description says nothing of: blocks could form a *)
(* ring that no head leads to.                                             *)
(***************************************************************************)
EXTENDS MemPool, TLAPS

-------------------------------------------------------------------------------
(* The inductive invariant.  While the pool is cleaned up the links back are   *)
(* stale; what counts then is that no two blocks lead to the same one and none *)
(* to a head.                                                                  *)

\* The lists as mem_cleanup_pool sees them: forward links only.
Singly ==
  /\ {active, free} \subseteq created \cup {NULL}
  /\ active = free => active = NULL
  /\ \A b \in created : next[b] # NULL => next[b] \in created \ {active, free}
  /\ \A a, b \in created : next[a] = next[b] /\ next[a] # NULL => a = b

\* The inductive invariant of the pool.
PoolInv ==
  /\ TypeOK
  /\ LinkedBothWays
  /\ pc # "open" => Singly

\* The links of one block: LinkedBothWays, block by block.
LinkedAt(b) ==
  /\ next[b] # NULL => /\ next[b] \in created /\ prev[next[b]] = b
                       /\ (b \in held <=> next[b] \in held)
  /\ prev[b] # NULL => prev[b] \in created /\ next[prev[b]] = b
  /\ prev[b] = NULL => b \in {active, free}

\* The heads of the two lists, and the blocks that callers have.
HeadsAt ==
  /\ held \subseteq created
  /\ active # NULL => active \in held /\ prev[active] = NULL
  /\ free # NULL => free \in created \ held /\ prev[free] = NULL

\* Links that agree in both directions never join.
LEMMA BothWaysIsSingly ==
  ASSUME TypeOK, LinkedBothWays, pc = "open"
  PROVE  Singly
BY NullAssumption DEF TypeOK, LinkedBothWays, Singly

-------------------------------------------------------------------------------
(* The steps *)

\* The invariant of an open pool, block by block.
LEMMA OpenPool ==
  ASSUME PoolInv, pc = "open"
  PROVE  /\ HeadsAt
         /\ \A b \in created : b \in Blocks /\ LinkedAt(b)
BY DEF PoolInv, TypeOK, LinkedBothWays, LinkedAt, HeadsAt

\* _mem_alloc takes a block from the free list.
LEMMA ReuseKeeps ==
  ASSUME PoolInv, mem_alloc_reuse
  PROVE  PoolInv'
<1>1. /\ pc = "open" /\ pc' = "open" /\ created' = created
      /\ free # NULL /\ active' = free /\ held' = held \cup {free}
      /\ next' = [next EXCEPT ![free] = active]
  BY DEF mem_alloc_reuse, insert_active
<1>2. PICK q : q = next[free] /\ free' = q
  BY DEF mem_alloc_reuse
<1>3. free \in Blocks /\ q \in Blocks \cup {NULL} /\ active \in Blocks \cup {NULL}
      /\ next \in [Blocks -> Blocks \cup {NULL}] /\ prev \in [Blocks -> Blocks \cup {NULL}]
  BY <1>1, <1>2 DEF PoolInv, TypeOK
<1>4. /\ next' \in [Blocks -> Blocks \cup {NULL}]
      /\ \A x \in Blocks : next'[x] = IF x = free THEN active ELSE next[x]
  BY <1>1, <1>3
<1>5. /\ prev' \in [Blocks -> Blocks \cup {NULL}]
      /\ \A x \in Blocks : prev'[x] = IF x = active THEN free
                                      ELSE IF x = free \/ x = q THEN NULL ELSE prev[x]
  <2>1. PICK g : g = set(prev, q, NULL)
    OBVIOUS
  <2>2. /\ g \in [Blocks -> Blocks \cup {NULL}]
        /\ \A x \in Blocks : g[x] = IF x = q THEN NULL ELSE prev[x]
    BY <1>3, <2>1, NullAssumption DEF set
  <2>3. PICK h : h = [g EXCEPT ![free] = NULL]
    OBVIOUS
  <2>4. /\ h \in [Blocks -> Blocks \cup {NULL}]
        /\ \A x \in Blocks : h[x] = IF x = free \/ x = q THEN NULL ELSE prev[x]
    BY <1>3, <2>2, <2>3
  <2>5. prev' = set(h, active, free)
    BY <1>2, <2>1, <2>3 DEF mem_alloc_reuse, insert_active
  <2>6. /\ set(h, active, free) \in [Blocks -> Blocks \cup {NULL}]
        /\ \A x \in Blocks : set(h, active, free)[x] = IF x = active THEN free ELSE h[x]
    BY <1>3, <2>4, NullAssumption DEF set
  <2> QED BY <2>4, <2>5, <2>6
<1>6. HeadsAt /\ \A b \in created : b \in Blocks /\ LinkedAt(b)
  BY <1>1, OpenPool
<1>7. TypeOK'
  BY <1>1, <1>2, <1>3, <1>4, <1>5 DEF PoolInv, TypeOK
<1>8. HeadsAt'
  <2>1. q # NULL => q \in created /\ q \notin held /\ q # free
    BY <1>1, <1>2, <1>6, NullAssumption DEF HeadsAt, LinkedAt
  <2> QED BY <1>1, <1>2, <1>3, <1>5, <1>6, <2>1, NullAssumption DEF HeadsAt
<1>9. ASSUME NEW b \in created PROVE LinkedAt(b)'
  <2>1. CASE b = free
    BY <1>1, <1>2, <1>3, <1>4, <1>5, <1>6, <2>1, NullAssumption DEF HeadsAt, LinkedAt
  <2>2. CASE b # free
    BY <1>1, <1>2, <1>3, <1>4, <1>5, <1>6, <2>2, NullAssumption DEF HeadsAt, LinkedAt
  <2> QED BY <2>1, <2>2
<1>10. LinkedBothWays'
  BY <1>1, <1>8, <1>9 DEF LinkedBothWays, HeadsAt, LinkedAt
<1> QED BY <1>1, <1>7, <1>10 DEF PoolInv

\* _mem_alloc gets a block from malloc.
LEMMA NewKeeps ==
  ASSUME PoolInv, NEW p \in Blocks, mem_alloc_new(p)
  PROVE  PoolInv'
<1>1. /\ pc = "open" /\ pc' = "open" /\ created' = created \cup {p} /\ p \notin created
      /\ free = NULL /\ free' = NULL /\ active' = p /\ held' = held \cup {p}
      /\ next' = [next EXCEPT ![p] = active]
      /\ prev' = set([prev EXCEPT ![p] = NULL], active, p)
  BY DEF mem_alloc_new, insert_active
<1>2. active \in Blocks \cup {NULL}
      /\ next \in [Blocks -> Blocks \cup {NULL}] /\ prev \in [Blocks -> Blocks \cup {NULL}]
  BY DEF PoolInv, TypeOK
<1>3. /\ prev' \in [Blocks -> Blocks \cup {NULL}]
      /\ \A x \in Blocks : prev'[x] = IF x = active THEN p ELSE IF x = p THEN NULL ELSE prev[x]
  <2>1. PICK h : h = [prev EXCEPT ![p] = NULL]
    OBVIOUS
  <2>2. /\ h \in [Blocks -> Blocks \cup {NULL}]
        /\ \A x \in Blocks : h[x] = IF x = p THEN NULL ELSE prev[x]
    BY <1>2, <2>1
  <2>3. prev' = set(h, active, p)
    BY <1>1, <2>1
  <2> QED BY <1>2, <2>2, <2>3, NullAssumption DEF set
<1>4. /\ next' \in [Blocks -> Blocks \cup {NULL}]
      /\ \A x \in Blocks : next'[x] = IF x = p THEN active ELSE next[x]
  BY <1>1, <1>2
<1>5. TypeOK'
  BY <1>1, <1>3, <1>4 DEF PoolInv, TypeOK
<1>6. HeadsAt /\ \A b \in created : b \in Blocks /\ LinkedAt(b)
  BY <1>1, OpenPool
<1>7. HeadsAt'
  BY <1>1, <1>2, <1>3, <1>6, NullAssumption DEF HeadsAt
<1>8. ASSUME NEW b \in created \cup {p} PROVE LinkedAt(b)'
  <2>1. b \in Blocks /\ p # NULL /\ (active # NULL => active \in created /\ active # p)
    BY <1>1, <1>6, NullAssumption DEF HeadsAt
  <2>2. CASE b = p
    <3>1. next'[b] = active /\ prev'[b] = NULL
      BY <1>1, <1>3, <1>4, <2>1, <2>2
    <3>2. active # NULL => active \in held /\ active \in Blocks /\ prev'[active] = p
      BY <1>2, <1>3, <1>6, <2>1 DEF HeadsAt
    <3> QED BY <1>1, <2>1, <2>2, <3>1, <3>2 DEF LinkedAt
  <2>3. CASE b # p
    <3>1. b \in created /\ next'[b] = next[b]
          /\ prev'[b] = IF b = active THEN p ELSE prev[b]
      BY <1>3, <1>4, <2>1, <2>3
    <3>2. next[b] # NULL => next[b] \in created /\ next[b] \in Blocks /\ prev[next[b]] = b
                            /\ (b \in held <=> next[b] \in held)
      BY <1>6, <3>1 DEF LinkedAt
    <3>3. next[b] # NULL => next[b] # p /\ next[b] # active
      BY <1>1, <1>6, <2>1, <3>2, NullAssumption DEF HeadsAt
    <3>4. next[b] # NULL => prev'[next[b]] = b
      BY <1>3, <3>2, <3>3
    <3>5. prev'[b] # NULL => prev'[b] \in created' /\ next'[prev'[b]] = b
      <4>1. CASE b = active
        BY <1>1, <1>4, <3>1, <4>1
      <4>2. CASE b # active
        <5>1. prev[b] # NULL => prev[b] \in created /\ prev[b] \in Blocks
                                /\ prev[b] # p /\ next[prev[b]] = b
          BY <1>1, <1>6, <3>1 DEF LinkedAt
        <5> QED BY <1>1, <1>4, <3>1, <4>2, <5>1
      <4> QED BY <4>1, <4>2
    <3>6. prev'[b] # NULL
      BY <1>1, <1>6, <2>1, <3>1, NullAssumption DEF LinkedAt
    <3> QED BY <1>1, <2>3, <3>1, <3>2, <3>4, <3>5, <3>6 DEF LinkedAt
  <2> QED BY <2>2, <2>3
<1>9. LinkedBothWays'
  BY <1>1, <1>7, <1>8 DEF LinkedBothWays, HeadsAt, LinkedAt
<1> QED BY <1>1, <1>5, <1>9 DEF PoolInv

\* mem_free, of a block in use and of one that is free already.
LEMMA FreeKeeps ==
  ASSUME PoolInv, NEW p \in created, mem_free(p)
  PROVE  PoolInv'
<1>1. PICK before, behind : before = prev[p] /\ behind = next[p]
  OBVIOUS
<1>2. /\ pc = "open" /\ pc' = "open" /\ created' = created /\ p # free
      /\ free' = p /\ held' = held \ {p}
      /\ active' = IF p = active THEN behind ELSE active
      /\ next' = [set(next, before, behind) EXCEPT ![p] = free]
      /\ prev' = set([set(prev, behind, before) EXCEPT ![p] = NULL], free, p)
  BY <1>1 DEF mem_free
<1>3. p \in Blocks /\ before \in Blocks \cup {NULL} /\ behind \in Blocks \cup {NULL}
      /\ free \in Blocks \cup {NULL} /\ active \in Blocks \cup {NULL}
      /\ next \in [Blocks -> Blocks \cup {NULL}] /\ prev \in [Blocks -> Blocks \cup {NULL}]
  BY <1>1 DEF PoolInv, TypeOK
<1>4. /\ next' \in [Blocks -> Blocks \cup {NULL}]
      /\ \A x \in Blocks : next'[x] = IF x = p THEN free
                                      ELSE IF x = before THEN behind ELSE next[x]
  <2>1. PICK g : g = set(next, before, behind)
    OBVIOUS
  <2>2. /\ g \in [Blocks -> Blocks \cup {NULL}]
        /\ \A x \in Blocks : g[x] = IF x = before THEN behind ELSE next[x]
    BY <1>3, <2>1, NullAssumption DEF set
  <2>3. next' = [g EXCEPT ![p] = free]
    BY <1>2, <2>1
  <2> QED BY <1>3, <2>2, <2>3
<1>5. /\ prev' \in [Blocks -> Blocks \cup {NULL}]
      /\ \A x \in Blocks : prev'[x] = IF x = free THEN p ELSE IF x = p THEN NULL
                                      ELSE IF x = behind THEN before ELSE prev[x]
  <2>1. PICK g : g = set(prev, behind, before)
    OBVIOUS
  <2>2. /\ g \in [Blocks -> Blocks \cup {NULL}]
        /\ \A x \in Blocks : g[x] = IF x = behind THEN before ELSE prev[x]
    BY <1>3, <2>1, NullAssumption DEF set
  <2>3. PICK h : h = [g EXCEPT ![p] = NULL]
    OBVIOUS
  <2>4. /\ h \in [Blocks -> Blocks \cup {NULL}]
        /\ \A x \in Blocks : h[x] = IF x = p THEN NULL
                                    ELSE IF x = behind THEN before ELSE prev[x]
    BY <1>3, <2>2, <2>3
  <2>5. prev' = set(h, free, p)
    BY <1>2, <2>1, <2>3
  <2>6. /\ set(h, free, p) \in [Blocks -> Blocks \cup {NULL}]
        /\ \A x \in Blocks : set(h, free, p)[x] = IF x = free THEN p ELSE h[x]
    BY <1>3, <2>4, NullAssumption DEF set
  <2> QED BY <2>4, <2>5, <2>6
<1>6. HeadsAt /\ \A b \in created : b \in Blocks /\ LinkedAt(b)
  BY <1>2, OpenPool
<1>7. TypeOK'
  BY <1>2, <1>3, <1>4, <1>5 DEF PoolInv, TypeOK
<1>8. HeadsAt'
  <2>1. p = active => before = NULL /\ (behind # NULL => behind \in held /\ behind # p)
    BY <1>1, <1>3, <1>6, NullAssumption DEF HeadsAt, LinkedAt
  <2>2. prev'[p] = NULL /\ p \notin held' /\ held' \subseteq created
    BY <1>2, <1>3, <1>5, <1>6 DEF HeadsAt
  <2>3. CASE p = active
    <3>1. behind # NULL => behind \in held' /\ behind # free /\ prev'[behind] = NULL
      BY <1>2, <1>3, <1>5, <1>6, <2>1, <2>3, NullAssumption DEF HeadsAt
    <3> QED BY <1>2, <2>2, <2>3, <3>1 DEF HeadsAt
  <2>4. CASE p # active
    <3>1. active # NULL => active \in held' /\ active # free /\ active # behind
      BY <1>1, <1>2, <1>3, <1>6, <2>4, NullAssumption DEF HeadsAt, LinkedAt
    <3>2. active # NULL => prev'[active] = NULL
      BY <1>3, <1>5, <1>6, <2>4, <3>1 DEF HeadsAt
    <3> QED BY <1>2, <2>2, <2>4, <3>1, <3>2 DEF HeadsAt
  <2> QED BY <2>3, <2>4
<1>9. ASSUME NEW b \in created PROVE LinkedAt(b)'
  <2>1. b \in Blocks /\ p # NULL /\ b # NULL
    BY <1>3, <1>6, NullAssumption
  <2>2. CASE b = p
    <3>1. next'[b] = free /\ prev'[b] = NULL
      BY <1>2, <1>3, <1>4, <1>5, <2>2
    <3>2. free # NULL => free \in created /\ free \notin held /\ prev'[free] = p
      BY <1>3, <1>5, <1>6 DEF HeadsAt
    <3> QED BY <1>2, <2>2, <3>1, <3>2 DEF LinkedAt
  <2>3. CASE b # p
    <3>1. next'[b] = IF b = before THEN behind ELSE next[b]
      BY <1>4, <2>1, <2>3
    <3>2. prev'[b] = IF b = free THEN p ELSE IF b = behind THEN before ELSE prev[b]
      BY <1>5, <2>1, <2>3
    <3>3. next'[b] # NULL => /\ next'[b] \in created /\ prev'[next'[b]] = b
                             /\ (b \in held' <=> next'[b] \in held')
      <4>1. CASE b = before
        <5>1. next[b] = p /\ (b \in held <=> p \in held)
          BY <1>1, <1>6, <2>1, <4>1 DEF LinkedAt
        <5>2. behind # NULL => behind \in created /\ behind \in Blocks /\ prev[behind] = p
                               /\ (p \in held <=> behind \in held)
          BY <1>1, <1>6 DEF LinkedAt
        <5>3. behind # p /\ (behind # NULL => behind # free)
          BY <1>1, <1>6, <2>1, <2>3, <4>1, <5>2 DEF HeadsAt, LinkedAt
        <5>4. behind # NULL => prev'[behind] = before
          BY <1>5, <5>2, <5>3
        <5> QED BY <1>2, <2>3, <3>1, <4>1, <5>1, <5>2, <5>3, <5>4
      <4>2. CASE b # before
        <5>1. next[b] # NULL => /\ next[b] \in created /\ next[b] \in Blocks
                                /\ prev[next[b]] = b /\ (b \in held <=> next[b] \in held)
          BY <1>6 DEF LinkedAt
        <5>2. next[b] # NULL => next[b] # p /\ next[b] # free
          BY <1>1, <1>6, <2>1, <4>2, <5>1 DEF HeadsAt
        <5>3. next[b] # NULL => next[b] # behind
          BY <1>1, <1>6, <2>3, <5>1 DEF LinkedAt
        <5>4. next[b] # NULL => prev'[next[b]] = b
          BY <1>5, <5>1, <5>2, <5>3
        <5> QED BY <1>2, <2>3, <3>1, <4>2, <5>1, <5>2, <5>4
      <4> QED BY <4>1, <4>2
    <3>4. prev'[b] # NULL => prev'[b] \in created /\ next'[prev'[b]] = b
      <4>1. CASE b = free
        BY <1>3, <1>4, <3>2, <4>1
      <4>2. CASE b # free /\ b = behind
        <5>1. before # NULL => before \in created /\ before \in Blocks /\ next[before] = p
          BY <1>1, <1>6 DEF LinkedAt
        <5>2. before # NULL => before # p
          BY <1>1, <2>3, <4>2, <5>1
        <5> QED BY <1>4, <3>2, <4>2, <5>1, <5>2
      <4>3. CASE b # free /\ b # behind
        <5>1. prev[b] # NULL => prev[b] \in created /\ prev[b] \in Blocks /\ next[prev[b]] = b
          BY <1>6 DEF LinkedAt
        <5>2. prev[b] # NULL => prev[b] # p
          BY <1>1, <4>3, <5>1
        <5>3. prev[b] # NULL => prev[b] # before
          BY <1>1, <1>6, <2>1, <2>3, <5>1 DEF LinkedAt
        <5> QED BY <1>4, <3>2, <4>3, <5>1, <5>2, <5>3
      <4> QED BY <4>1, <4>2, <4>3
    <3>5. prev'[b] = NULL => b \in {active', free'}
      <4>1. CASE b = free
        BY <2>1, <3>2, <4>1
      <4>2. CASE b # free /\ b = behind
        BY <1>1, <1>2, <1>6, <3>2, <4>2 DEF LinkedAt
      <4>3. CASE b # free /\ b # behind
        BY <1>2, <1>6, <2>3, <3>2, <4>3 DEF LinkedAt
      <4> QED BY <4>1, <4>2, <4>3
    <3> QED BY <1>2, <3>3, <3>4, <3>5 DEF LinkedAt
  <2> QED BY <2>2, <2>3
<1>10. LinkedBothWays'
  BY <1>2, <1>8, <1>9 DEF LinkedBothWays, HeadsAt, LinkedAt
<1> QED BY <1>2, <1>7, <1>10 DEF PoolInv

\* mem_cleanup_pool.
LEMMA CleanupKeeps ==
  ASSUME PoolInv, mem_cleanup_pool \/ cleanup_active \/ cleanup_free \/ cleanup_return
  PROVE  PoolInv'
<1>1. CASE mem_cleanup_pool
  <2>1. Singly
    BY <1>1, BothWaysIsSingly DEF mem_cleanup_pool, PoolInv
  <2> QED BY <1>1, <2>1 DEF mem_cleanup_pool, PoolInv, TypeOK, LinkedBothWays, Singly
<1>2. CASE cleanup_active
  <2>1. active \in Blocks /\ active \in created
    BY <1>2 DEF cleanup_active, PoolInv, TypeOK, Singly
  <2>2. TypeOK' /\ LinkedBothWays'
    BY <1>2, <2>1 DEF cleanup_active, PoolInv, TypeOK, LinkedBothWays
  <2>3. Singly'
    BY <1>2, <2>1, NullAssumption DEF cleanup_active, PoolInv, TypeOK, Singly
  <2> QED BY <2>2, <2>3 DEF PoolInv
<1>3. CASE cleanup_free
  <2>1. free \in Blocks /\ free \in created
    BY <1>3 DEF cleanup_free, PoolInv, TypeOK, Singly
  <2>2. TypeOK' /\ LinkedBothWays'
    BY <1>3, <2>1 DEF cleanup_free, PoolInv, TypeOK, LinkedBothWays
  <2>3. Singly'
    BY <1>3, <2>1, NullAssumption DEF cleanup_free, PoolInv, TypeOK, Singly
  <2> QED BY <2>2, <2>3 DEF PoolInv
<1>4. CASE cleanup_return
  BY <1>4 DEF cleanup_return, PoolInv, TypeOK, LinkedBothWays, Singly
<1> QED BY <1>1, <1>2, <1>3, <1>4

-------------------------------------------------------------------------------
(* The theorems *)

\* The empty pool satisfies the invariant.
LEMMA PoolInitHolds == Init => PoolInv
BY NullAssumption DEF Init, PoolInv, TypeOK, LinkedBothWays

\* Every step keeps it.
LEMMA PoolNextKeeps == PoolInv /\ [Next]_vars => PoolInv'
<1> SUFFICES ASSUME PoolInv, [Next]_vars PROVE PoolInv'
  OBVIOUS
<1>1. CASE mem_alloc_reuse
  BY <1>1, ReuseKeeps
<1>2. CASE \E p \in Blocks : mem_alloc_new(p)
  BY <1>2, NewKeeps
<1>3. CASE \E p \in created : mem_free(p)
  BY <1>3, FreeKeeps
<1>4. CASE mem_cleanup_pool \/ cleanup_active \/ cleanup_free \/ cleanup_return
  BY <1>4, CleanupKeeps
<1>5. CASE UNCHANGED vars
  BY <1>5 DEF vars, PoolInv, TypeOK, LinkedBothWays, Singly
<1> QED BY <1>1, <1>2, <1>3, <1>4, <1>5 DEF Next, Terminated

\* PoolInv is an invariant.
LEMMA PoolInvariant == Spec => []PoolInv
BY PoolInitHolds, PoolNextKeeps, PTL DEF Spec

\* mem_free can unlink any block at any time: the links of both lists agree, no
\* list leads into the other, and what is allocated next is not in use.
THEOREM PoolIsLinkedBothWays == Spec => []LinkedBothWays
<1>1. PoolInv => LinkedBothWays
  BY DEF PoolInv
<1> QED BY <1>1, PoolInvariant, PTL

\* Whatever was allocated and freed before, mem_cleanup_pool only frees blocks
\* that are still allocated.
THEOREM PoolFreesOnce == Spec => []FreedOnce
<1>1. PoolInv => FreedOnce
  BY BothWaysIsSingly DEF PoolInv, FreedOnce, Singly, TypeOK
<1> QED BY <1>1, PoolInvariant, PTL

-------------------------------------------------------------------------------
(* The lists are complete.  That a block is on a list cannot be said block by  *)
(* block: it is said by the sets that no link leads out of, and a step of      *)
(* memory.c is followed by turning such a set of the new links into one of the *)
(* old links.                                                                  *)

\* S holds the heads, and no link leads out of it.
ClosedUnder(S, heads, links) ==
  /\ heads \subseteq S \cup {NULL}
  /\ \A b \in S : links[b] \in S \cup {NULL}

\* All blocks of X are on the lists with these heads.
OnLists(X, heads, links) ==
  \A S \in SUBSET Blocks : ClosedUnder(S, heads, links) => X \subseteq S

\* No link leads out of X.
Within(X, links) == \A b \in X : links[b] \in X \cup {NULL}

\* A block put in front of a list.
LEMMA InFrontOfList ==
  ASSUME NEW X \in SUBSET Blocks, NEW p \in Blocks, NEW head, NEW old, NEW new,
         OnLists(X, {head}, old), Within(X, old), head \in X \cup {NULL}, p \notin X,
         new[p] = head, \A b \in X : new[b] = old[b]
  PROVE  OnLists(X \cup {p}, {p}, new)
<1> SUFFICES ASSUME NEW S \in SUBSET Blocks, ClosedUnder(S, {p}, new) PROVE X \cup {p} \subseteq S
  BY DEF OnLists
<1>1. p \in S
  BY NullAssumption DEF ClosedUnder
<1>2. ClosedUnder(S \cap X, {head}, old)
  BY <1>1 DEF ClosedUnder, Within
<1>3. X \subseteq S \cap X
  BY <1>2 DEF OnLists
<1> QED BY <1>1, <1>3

\* The head taken off one of the lists.
LEMMA HeadTakenOff ==
  ASSUME NEW X \in SUBSET Blocks, NEW head \in X, NEW others, NEW old, NEW new,
         OnLists(X, {head} \cup others, old), Within(X, old), others \subseteq X \cup {NULL},
         \A b \in X \ {head} : new[b] = old[b]
  PROVE  OnLists(X \ {head}, {old[head]} \cup others, new)
<1> SUFFICES ASSUME NEW S \in SUBSET Blocks, ClosedUnder(S, {old[head]} \cup others, new)
             PROVE  X \ {head} \subseteq S
  BY DEF OnLists
<1> DEFINE T == (S \cap X) \cup {head}
<1>1. T \in SUBSET Blocks
  OBVIOUS
<1>2. {head} \cup others \subseteq T \cup {NULL}
  BY DEF ClosedUnder
<1>3. \A b \in T : old[b] \in T \cup {NULL}
  BY DEF ClosedUnder, Within
<1>4. X \subseteq T
  <2> HIDE DEF T
  <2> QED BY <1>1, <1>2, <1>3 DEF OnLists, ClosedUnder
<1> QED BY <1>4

\* A block behind the head unlinked.
LEMMA Unlinked ==
  ASSUME NEW X \in SUBSET Blocks, NEW p \in X, NEW before \in X, NEW head \in X, NEW old, NEW new,
         OnLists(X, {head}, old), Within(X, old), head # p,
         old[before] = p, \A b \in X : old[b] = p => b = before,
         new[before] = old[p], \A b \in X \ {p, before} : new[b] = old[b], before # p
  PROVE  OnLists(X \ {p}, {head}, new)
<1> SUFFICES ASSUME NEW S \in SUBSET Blocks, ClosedUnder(S, {head}, new) PROVE X \ {p} \subseteq S
  BY DEF OnLists
<1> DEFINE T == ((S \cap X) \ {p}) \cup (IF before \in S THEN {p} ELSE {})
<1>1. T \in SUBSET Blocks
  OBVIOUS
<1>2. {head} \subseteq T \cup {NULL}
  BY DEF ClosedUnder
<1>3. \A b \in T : old[b] \in T \cup {NULL}
  <2> TAKE b \in T
  <2>1. CASE b = p
    BY <2>1 DEF ClosedUnder, Within
  <2>2. CASE b = before
    BY <2>2
  <2>3. CASE b \notin {p, before}
    BY <2>3 DEF ClosedUnder, Within
  <2> QED BY <2>1, <2>2, <2>3
<1>4. X \subseteq T
  <2> HIDE DEF T
  <2> QED BY <1>1, <1>2, <1>3 DEF OnLists, ClosedUnder
<1> QED BY <1>4

\* A list none of whose links changes.
LEMMA SameList ==
  ASSUME NEW X \in SUBSET Blocks, NEW head \in X \cup {NULL}, NEW old, NEW new,
         OnLists(X, {head}, old), Within(X, old), \A b \in X : new[b] = old[b]
  PROVE  OnLists(X, {head}, new)
<1> SUFFICES ASSUME NEW S \in SUBSET Blocks, ClosedUnder(S, {head}, new) PROVE X \subseteq S
  BY DEF OnLists
<1>1. ClosedUnder(S \cap X, {head}, old)
  BY DEF ClosedUnder, Within
<1> QED BY <1>1 DEF OnLists

-------------------------------------------------------------------------------
(* The steps *)

\* Every block is on its list, and while the pool is cleaned up on one of the two.
AllOnLists ==
  /\ pc = "open" => OnLists(held, {active}, next) /\ OnLists(created \ held, {free}, next)
  /\ pc # "open" => OnLists(created, {active, free}, next)
  /\ NothingLeaks

\* The two lists of an open pool have no link in common.
LEMMA ListsApart ==
  ASSUME PoolInv, pc = "open"
  PROVE  /\ held \in SUBSET Blocks /\ (created \ held) \in SUBSET Blocks
         /\ held \subseteq created
         /\ Within(held, next) /\ Within(created \ held, next)
         /\ active \in held \cup {NULL} /\ free \in (created \ held) \cup {NULL}
BY DEF PoolInv, TypeOK, LinkedBothWays, Within

\* _mem_alloc moves the head of the free list in front of the active list.
LEMMA ReuseListed ==
  ASSUME PoolInv, AllOnLists, mem_alloc_reuse
  PROVE  AllOnLists'
<1>1. /\ pc = "open" /\ pc' = "open" /\ created' = created
      /\ free # NULL /\ free' = next[free] /\ active' = free /\ held' = held \cup {free}
      /\ next' = [next EXCEPT ![free] = active]
  BY DEF mem_alloc_reuse, insert_active
<1>2. next \in [Blocks -> Blocks \cup {NULL}]
  BY DEF PoolInv, TypeOK
<1>3. free \in created \ held /\ free \in Blocks /\ free \notin held
  BY <1>1, ListsApart
<1>4. next'[free] = active /\ \A b \in Blocks : b # free => next'[b] = next[b]
  BY <1>1, <1>2, <1>3
<1>5. OnLists(held \cup {free}, {free}, next')
  BY <1>1, <1>3, <1>4, ListsApart, InFrontOfList DEF AllOnLists
<1>6. OnLists((created \ held) \ {free}, {next[free]}, next')
  <2>1. OnLists(created \ held, {free} \cup {}, next) /\ {} \subseteq (created \ held) \cup {NULL}
    BY <1>1 DEF AllOnLists
  <2>2. \A b \in (created \ held) \ {free} : next'[b] = next[b]
    BY <1>1, <1>4, ListsApart
  <2>3. OnLists((created \ held) \ {free}, {next[free]} \cup {}, next')
    BY <1>1, <1>3, <2>1, <2>2, ListsApart, HeadTakenOff
  <2> QED BY <2>3
<1>7. created' \ held' = (created \ held) \ {free}
  BY <1>1
<1> QED BY <1>1, <1>5, <1>6, <1>7 DEF AllOnLists, NothingLeaks

\* _mem_alloc puts a new block in front of the active list.
LEMMA NewListed ==
  ASSUME PoolInv, AllOnLists, NEW p \in Blocks, mem_alloc_new(p)
  PROVE  AllOnLists'
<1>1. /\ pc = "open" /\ pc' = "open" /\ created' = created \cup {p} /\ p \notin created
      /\ free' = free /\ active' = p /\ held' = held \cup {p}
      /\ next' = [next EXCEPT ![p] = active]
  BY DEF mem_alloc_new, insert_active
<1>2. next \in [Blocks -> Blocks \cup {NULL}]
  BY DEF PoolInv, TypeOK
<1>3. next'[p] = active /\ \A b \in Blocks : b # p => next'[b] = next[b]
  BY <1>1, <1>2
<1>4. p \notin held /\ p \notin created \ held
  BY <1>1, ListsApart
<1>5. OnLists(held \cup {p}, {p}, next')
  BY <1>1, <1>3, <1>4, ListsApart, InFrontOfList DEF AllOnLists
<1>6. OnLists(created \ held, {free}, next')
  BY <1>1, <1>3, <1>4, ListsApart, SameList DEF AllOnLists
<1>7. created' \ held' = created \ held
  BY <1>1, <1>4
<1> QED BY <1>1, <1>5, <1>6, <1>7 DEF AllOnLists, NothingLeaks

\* mem_free moves a block from wherever it is in front of the free list.
LEMMA FreeListed ==
  ASSUME PoolInv, AllOnLists, NEW p \in created, mem_free(p)
  PROVE  AllOnLists'
<1>1. PICK before, behind : before = prev[p] /\ behind = next[p]
  OBVIOUS
<1>2. /\ pc = "open" /\ pc' = "open" /\ created' = created /\ p # free
      /\ free' = p /\ held' = held \ {p}
      /\ active' = IF p = active THEN behind ELSE active
      /\ next' = [set(next, before, behind) EXCEPT ![p] = free]
  BY <1>1 DEF mem_free
<1>3. /\ p \in Blocks /\ before \in Blocks \cup {NULL} /\ behind \in Blocks \cup {NULL}
      /\ next \in [Blocks -> Blocks \cup {NULL}]
  BY <1>1 DEF PoolInv, TypeOK
<1>4. \A b \in Blocks : next'[b] = IF b = p THEN free ELSE IF b = before THEN behind ELSE next[b]
  <2>1. PICK g : g = set(next, before, behind)
    OBVIOUS
  <2>2. /\ g \in [Blocks -> Blocks \cup {NULL}]
        /\ \A b \in Blocks : g[b] = IF b = before THEN behind ELSE next[b]
    BY <1>3, <2>1, NullAssumption DEF set
  <2>3. next' = [g EXCEPT ![p] = free]
    BY <1>2, <2>1
  <2> QED BY <1>3, <2>2, <2>3
<1>5. HeadsAt /\ \A b \in created : b \in Blocks /\ LinkedAt(b)
  BY <1>2, OpenPool
\* What precedes p is on the list of p, and nothing else does.
<1>6. /\ before # NULL => /\ before \in created /\ next[before] = p
                          /\ (before \in held <=> p \in held)
      /\ before = NULL => p = active
      /\ \A b \in created : next[b] = p => b = before
  BY <1>1, <1>2, <1>3, <1>5, NullAssumption DEF LinkedAt
<1>7. before # p
  <2> SUFFICES ASSUME before = p PROVE FALSE
    OBVIOUS
  <2>1. next[p] = p /\ prev[p] = p
    BY <1>1, <1>3, <1>6, NullAssumption
  <2>2. p # active
    BY <1>3, <1>5, <2>1, NullAssumption DEF HeadsAt
  <2>3. CASE p \in held
    <3> DEFINE S == held \ {p}
    <3>1. S \in SUBSET Blocks /\ ClosedUnder(S, {active}, next)
      BY <1>2, <1>6, <2>2, ListsApart DEF ClosedUnder, Within
    <3>2. held \subseteq S
      BY <1>2, <3>1 DEF AllOnLists, OnLists
    <3> QED BY <2>3, <3>2
  <2>4. CASE p \notin held
    <3> DEFINE S == (created \ held) \ {p}
    <3>1. S \in SUBSET Blocks /\ ClosedUnder(S, {free}, next)
      BY <1>2, <1>6, ListsApart DEF ClosedUnder, Within
    <3>2. created \ held \subseteq S
      BY <1>2, <3>1 DEF AllOnLists, OnLists
    <3> QED BY <2>4, <3>2
  <2> QED BY <2>3, <2>4
<1>8. CASE p \in held
  <2>1. OnLists(held \ {p}, {active'}, next')
    <3>1. CASE p = active
      <4>1. OnLists(held, {p} \cup {}, next) /\ {} \subseteq held \cup {NULL}
        BY <1>2, <3>1 DEF AllOnLists
      <4>2. before = NULL
        BY <1>1, <1>3, <1>5, <3>1, NullAssumption DEF HeadsAt
      <4>3. \A b \in held \ {p} : next'[b] = next[b]
        BY <1>2, <1>4, <4>2, ListsApart, NullAssumption
      <4>4. OnLists(held \ {p}, {next[p]} \cup {}, next')
        BY <1>2, <1>8, <4>1, <4>3, ListsApart, HeadTakenOff
      <4> QED BY <1>1, <1>2, <3>1, <4>4
    <3>2. CASE p # active
      <4>1. before \in held /\ active \in held
        <5>1. before \in held
          BY <1>6, <1>8, <3>2
        <5>2. active # NULL
          <6> SUFFICES ASSUME active = NULL PROVE FALSE
            OBVIOUS
          <6>1. ClosedUnder({}, {active}, next)
            BY DEF ClosedUnder
          <6>2. held \subseteq {}
            BY <1>2, <6>1 DEF AllOnLists, OnLists
          <6> QED BY <1>8, <6>2
        <5> QED BY <1>2, <5>1, <5>2, ListsApart
      <4>2. /\ next[before] = p /\ \A b \in held : next[b] = p => b = before
            /\ next'[before] = next[p] /\ \A b \in held \ {p, before} : next'[b] = next[b]
        BY <1>1, <1>2, <1>3, <1>4, <1>6, <1>7, <4>1, ListsApart, NullAssumption
      <4>3. held \in SUBSET Blocks /\ Within(held, next) /\ OnLists(held, {active}, next)
        BY <1>2, ListsApart DEF AllOnLists
      <4>4. OnLists(held \ {p}, {active}, next')
        BY <1>7, <1>8, <3>2, <4>1, <4>2, <4>3, Unlinked
      <4> QED BY <1>2, <3>2, <4>4
    <3> QED BY <3>1, <3>2
  <2>2. OnLists((created \ held) \cup {p}, {p}, next')
    <3>1. \A b \in created \ held : next'[b] = next[b]
      BY <1>2, <1>4, <1>6, <1>8, ListsApart, NullAssumption
    <3>2. next'[p] = free /\ p \notin created \ held
      BY <1>3, <1>4, <1>8
    <3> QED BY <1>2, <1>3, <3>1, <3>2, ListsApart, InFrontOfList DEF AllOnLists
  <2>3. created' \ held' = (created \ held) \cup {p}
    BY <1>2, <1>8
  <2> QED BY <1>2, <2>1, <2>2, <2>3 DEF AllOnLists, NothingLeaks
<1>9. CASE p \notin held
  <2> DEFINE F == created \ held
             G == F \ {p}
  <2>1. held' = held /\ active' = active
    BY <1>2, <1>5, <1>9, NullAssumption DEF HeadsAt
  <2>2. before \in F /\ free \in F
    <3>1. before \in F
      BY <1>3, <1>5, <1>6, <1>9, NullAssumption DEF HeadsAt
    <3>2. free # NULL
      <4> SUFFICES ASSUME free = NULL PROVE FALSE
        OBVIOUS
      <4>1. ClosedUnder({}, {free}, next)
        BY DEF ClosedUnder
      <4>2. F \subseteq {}
        BY <1>2, <4>1 DEF AllOnLists, OnLists
      <4> QED BY <1>9, <4>2
    <3> QED BY <1>2, <3>1, <3>2, ListsApart
  <2>3. OnLists(held, {active}, next')
    <3>1. \A b \in held : next'[b] = next[b]
      BY <1>2, <1>4, <1>9, <2>2, ListsApart
    <3> QED BY <1>2, <3>1, ListsApart, SameList DEF AllOnLists
  <2>4. /\ next'[before] = next[p] /\ \A b \in F \ {p, before} : next'[b] = next[b]
        /\ next[before] = p /\ \A b \in F : next[b] = p => b = before
    BY <1>1, <1>2, <1>4, <1>6, <1>7, <2>2, ListsApart, NullAssumption
  <2>5. OnLists(G, {free}, next')
    <3>1. /\ F \in SUBSET Blocks /\ Within(F, next) /\ OnLists(F, {free}, next)
          /\ p \in F /\ free # p
      BY <1>2, <1>9, ListsApart DEF AllOnLists
    <3> HIDE DEF F
    <3> QED BY <1>7, <2>2, <2>4, <3>1, Unlinked
  <2>6. Within(G, next')
    <3> SUFFICES ASSUME NEW b \in G PROVE next'[b] \in G \cup {NULL}
      BY DEF Within
    <3>1. Within(F, next) /\ p \in F
      BY <1>2, <1>9, ListsApart
    <3>2. CASE b = before
      <4>1. next'[b] = next[p] /\ next[p] \in F \cup {NULL}
        BY <2>4, <3>1, <3>2 DEF Within
      <4>2. next[p] # p
        BY <1>7, <2>4, <3>1
      <4> QED BY <4>1, <4>2
    <3>3. CASE b # before
      <4>1. next'[b] = next[b] /\ next[b] \in F \cup {NULL} /\ next[b] # p
        BY <2>4, <3>1, <3>3 DEF Within
      <4> QED BY <4>1
    <3> QED BY <3>2, <3>3
  <2>7. OnLists(G \cup {p}, {p}, next')
    <3>1. next'[p] = free /\ free \in G \cup {NULL} /\ p \notin G /\ G \in SUBSET Blocks
      BY <1>2, <1>3, <1>4, <2>2, ListsApart
    <3> HIDE DEF G
    <3> QED BY <1>3, <2>5, <2>6, <3>1, InFrontOfList
  <2>8. created' \ held' = G \cup {p}
    BY <1>2, <1>9, <2>1
  <2> QED BY <1>2, <2>1, <2>3, <2>7, <2>8 DEF AllOnLists, NothingLeaks
<1> QED BY <1>8, <1>9

\* mem_cleanup_pool follows the two lists to their ends.
LEMMA CleanupListed ==
  ASSUME PoolInv, AllOnLists, mem_cleanup_pool \/ cleanup_active \/ cleanup_free \/ cleanup_return
  PROVE  AllOnLists'
<1>1. CASE mem_cleanup_pool
  <2>1. /\ pc = "open" /\ pc' = "cleanup"
        /\ UNCHANGED <<next, active, free, created>>
    BY <1>1 DEF mem_cleanup_pool
  <2>2. OnLists(created, {active, free}, next)
    BY <2>1 DEF AllOnLists, OnLists, ClosedUnder
  <2> QED BY <2>1, <2>2 DEF AllOnLists, NothingLeaks
<1>2. ASSUME pc = "cleanup", pc' = "cleanup", UNCHANGED next,
             NEW head, NEW other, {head, other} = {active, free}, head # NULL,
             {active', free'} = {next[head], other}, created' = created \ {head}
      PROVE  AllOnLists'
  <2>1. head \in created /\ other \in created \cup {NULL} /\ created \in SUBSET Blocks
    BY <1>2 DEF PoolInv, TypeOK, Singly
  <2>2. Within(created, next)
    BY <1>2 DEF PoolInv, Singly, Within
  <2>3. OnLists(created, {head} \cup {other}, next)
    <3>1. {head} \cup {other} = {active, free}
      BY <1>2
    <3> QED BY <1>2, <3>1 DEF AllOnLists
  <2>4. OnLists(created \ {head}, {next[head]} \cup {other}, next)
    BY <2>1, <2>2, <2>3, HeadTakenOff
  <2>5. {next[head]} \cup {other} = {active', free'}
    BY <1>2
  <2> QED BY <1>2, <2>4, <2>5 DEF AllOnLists, NothingLeaks
<1>3. CASE cleanup_active
  BY <1>2, <1>3 DEF cleanup_active
<1>4. CASE cleanup_free
  <2>1. /\ pc = "cleanup" /\ pc' = "cleanup" /\ UNCHANGED <<next, active>>
        /\ free # NULL /\ free' = next[free] /\ created' = created \ {free}
    BY <1>4 DEF cleanup_free
  <2>2. {free, active} = {active, free} /\ {active', free'} = {next[free], active}
    BY <2>1
  <2> QED BY <1>2, <2>1, <2>2
<1>5. CASE cleanup_return
  <2>1. /\ pc = "cleanup" /\ pc' = "gone" /\ active = NULL /\ free = NULL
        /\ UNCHANGED <<next, active, free, created>>
    BY <1>5 DEF cleanup_return
  <2>2. ClosedUnder({}, {active, free}, next)
    BY <2>1 DEF ClosedUnder
  <2>3. created = {}
    BY <2>1, <2>2 DEF AllOnLists, OnLists
  <2> QED BY <2>1, <2>3 DEF AllOnLists, NothingLeaks
<1> QED BY <1>1, <1>3, <1>4, <1>5

\* AllOnLists is an invariant.
LEMMA ListedInvariant == Spec => []AllOnLists
<1>1. Init => AllOnLists
  BY DEF Init, AllOnLists, OnLists, NothingLeaks
<1>2. PoolInv /\ AllOnLists /\ [Next]_vars => AllOnLists'
  <2> SUFFICES ASSUME PoolInv, AllOnLists, [Next]_vars PROVE AllOnLists'
    OBVIOUS
  <2>1. CASE UNCHANGED vars
    BY <2>1 DEF vars, AllOnLists, NothingLeaks
  <2> QED BY <2>1, ReuseListed, NewListed, FreeListed, CleanupListed DEF Next, Terminated
<1> QED BY <1>1, <1>2, PoolInvariant, PTL DEF Spec

\* The active list holds exactly the blocks that callers have and the free list
\* exactly the others, after any order of allocations and frees.
THEOREM PoolListsPartitionBlocks == Spec => []ListsPartitionBlocks
<1>1. PoolInv /\ AllOnLists => ListsPartitionBlocks
  <2> SUFFICES ASSUME PoolInv, AllOnLists, pc = "open"
               PROVE  Chain(active) = held /\ Chain(free) = created \ held
    BY DEF ListsPartitionBlocks
  <2>1. ASSUME NEW X \in SUBSET Blocks, NEW head \in X \cup {NULL}, Within(X, next),
               OnLists(X, {head}, next)
        PROVE  Chain(head) = X
    <3>1. \A S \in SUBSET Blocks :
            (head \in S \cup {NULL} /\ Closed(S)) <=> ClosedUnder(S, {head}, next)
      BY DEF Closed, ClosedUnder
    <3>2. ClosedUnder(X, {head}, next)
      BY <2>1 DEF ClosedUnder, Within
    <3>3. X \subseteq Chain(head)
      BY <2>1, <3>1 DEF Chain, OnLists
    <3>4. Chain(head) \subseteq X
      BY <3>1, <3>2 DEF Chain
    <3> QED BY <3>3, <3>4
  <2> QED BY <2>1, ListsApart DEF AllOnLists
<1> QED BY <1>1, PoolInvariant, ListedInvariant, PTL

\* mem_cleanup_pool gives every block back, those in use and those to be used again.
THEOREM PoolLeaksNothing == Spec => []NothingLeaks
<1>1. AllOnLists => NothingLeaks
  BY DEF AllOnLists
<1> QED BY <1>1, ListedInvariant, PTL
===============================================================================
