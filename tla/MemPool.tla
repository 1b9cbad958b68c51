------------------------------- MODULE MemPool --------------------------------
(***************************************************************************)
(* The memory pool of curlws (memory.c), from which send_frame takes the   *)
(* buffers of its frames.  A pool keeps two doubly linked lists through    *)
(* its blocks, those in use and those to be used again.  The control and   *)
(* the data pool run the same code on lists of their own: this is one.     *)
(***************************************************************************)
CONSTANTS
  Blocks,  \* the blocks malloc may return
  NULL

ASSUME NullAssumption == NULL \notin Blocks

VARIABLES
  next, prev,    \* the links of struct mem_block
  free, active,  \* the heads of the two lists
  created,       \* the blocks that are allocated from the system
  held,          \* history: the blocks that a caller has
  pc             \* "open", "cleanup" in mem_cleanup_pool, "gone" after it

vars == <<next, prev, free, active, created, held, pc>>

\* block->field = v, if there is such a block.
set(field, block, v) == IF block = NULL THEN field ELSE [field EXCEPT ![block] = v]

-------------------------------------------------------------------------------
\* Mutant: the block is not linked back from the old head of the active list.
insert_active_one_way(p, links, backs) ==
  /\ next' = [links EXCEPT ![p] = active]
  /\ prev' = [backs EXCEPT ![p] = NULL]
  /\ active' = p
  /\ held' = held \cup {p}

\* The end of _mem_alloc: p becomes the head of the active list.
insert_active(p, links, backs) ==
  /\ next' = [links EXCEPT ![p] = active]
  /\ prev' = set([backs EXCEPT ![p] = NULL], active, p)
  /\ active' = p
  /\ held' = held \cup {p}

\* _mem_alloc takes the head of the free list.
mem_alloc_reuse ==
  /\ pc = "open"
  /\ free # NULL
  /\ free' = next[free]
  /\ insert_active(free, next, set(prev, next[free], NULL))
  /\ UNCHANGED <<created, pc>>

\* _mem_alloc gets a new block from malloc (if it does not, nothing changes).
mem_alloc_new(p) ==
  /\ pc = "open"
  /\ free = NULL
  /\ p \notin created
  /\ created' = created \cup {p}
  /\ insert_active(p, next, prev)
  /\ UNCHANGED <<free, pc>>

\* Mutant: the active list is not repointed when its head is freed.
mem_free_keeps_head(p) ==
  /\ pc = "open"
  /\ p # free
  /\ next' = [set(next, prev[p], next[p]) EXCEPT ![p] = free]
  /\ prev' = set([set(prev, next[p], prev[p]) EXCEPT ![p] = NULL], free, p)
  /\ free' = p
  /\ held' = held \ {p}
  /\ UNCHANGED <<active, created, pc>>

\* mem_free of a block that was handed out once.  A block that was freed since
\* is moved to the head of the free list, unless it is there ("don't try to free
\* it again").
mem_free(p) ==
  /\ pc = "open"
  /\ p # free
  /\ active' = IF p = active THEN next[p] ELSE active
  /\ next' = [set(next, prev[p], next[p]) EXCEPT ![p] = free]
  /\ prev' = set([set(prev, next[p], prev[p]) EXCEPT ![p] = NULL], free, p)
  /\ free' = p
  /\ held' = held \ {p}
  /\ UNCHANGED <<created, pc>>

-------------------------------------------------------------------------------
(* mem_cleanup_pool: it walks both lists and gives every block back.           *)

mem_cleanup_pool ==
  /\ pc = "open"
  /\ pc' = "cleanup"
  /\ UNCHANGED <<next, prev, free, active, created, held>>

cleanup_active ==
  /\ pc = "cleanup"
  /\ active # NULL
  /\ active' = next[active]
  /\ created' = created \ {active}
  /\ UNCHANGED <<next, prev, free, held, pc>>

cleanup_free ==
  /\ pc = "cleanup"
  /\ active = NULL /\ free # NULL
  /\ free' = next[free]
  /\ created' = created \ {free}
  /\ UNCHANGED <<next, prev, active, held, pc>>

\* Mutant: the blocks on the free list are forgotten.
cleanup_return_early ==
  /\ pc = "cleanup"
  /\ active = NULL
  /\ pc' = "gone"
  /\ UNCHANGED <<next, prev, free, active, created, held>>

cleanup_return ==
  /\ pc = "cleanup"
  /\ active = NULL /\ free = NULL
  /\ pc' = "gone"
  /\ UNCHANGED <<next, prev, free, active, created, held>>

-------------------------------------------------------------------------------
\* mem_init_pool
Init ==
  /\ next = [b \in Blocks |-> NULL]
  /\ prev = [b \in Blocks |-> NULL]
  /\ free = NULL
  /\ active = NULL
  /\ created = {}
  /\ held = {}
  /\ pc = "open"

Terminated == pc = "gone" /\ UNCHANGED vars

Next ==
  \/ mem_alloc_reuse
  \/ \E p \in Blocks : mem_alloc_new(p)
  \/ \E p \in created : mem_free(p)
  \/ mem_cleanup_pool
  \/ cleanup_active
  \/ cleanup_free
  \/ cleanup_return
  \/ Terminated

Spec == Init /\ [][Next]_vars

-------------------------------------------------------------------------------
(* Properties *)

\* The type invariant of the pool.
TypeOK ==
  /\ next \in [Blocks -> Blocks \cup {NULL}]
  /\ prev \in [Blocks -> Blocks \cup {NULL}]
  /\ free \in Blocks \cup {NULL} /\ active \in Blocks \cup {NULL}
  /\ created \subseteq Blocks
  /\ held \subseteq Blocks
  /\ pc \in {"open", "cleanup", "gone"}

\* A set of blocks that no link leads out of.
Closed(S) == \A b \in S : next[b] \in S \cup {NULL}

\* The blocks of the list that starts at head: the least such set with the head in it.
Chain(head) ==
  {b \in Blocks : \A S \in SUBSET Blocks : head \in S \cup {NULL} /\ Closed(S) => b \in S}

\* Whatever is allocated and freed, in any order, also twice: the active list
\* holds the blocks that callers have, the free list all others, so that none is
\* lost and none is handed out while it is in use.
ListsPartitionBlocks ==
  pc = "open" => Chain(active) = held /\ Chain(free) = created \ held

\* The links of a list agree in both directions and stay within the list, and
\* nothing precedes the heads: what mem_free needs to unlink a block anywhere.
LinkedBothWays ==
  pc = "open" =>
    /\ held \subseteq created
    /\ \A b \in created :
         /\ next[b] # NULL => /\ next[b] \in created /\ prev[next[b]] = b
                              /\ (b \in held <=> next[b] \in held)
         /\ prev[b] # NULL => prev[b] \in created /\ next[prev[b]] = b
         /\ prev[b] = NULL => b \in {active, free}
    /\ active # NULL => active \in held /\ prev[active] = NULL
    /\ free # NULL => free \in created \ held /\ prev[free] = NULL

\* mem_cleanup_pool gives back no block twice: what it is about to free is still
\* allocated.
FreedOnce == {active, free} \subseteq created \cup {NULL}

\* mem_cleanup_pool gives back every block.
NothingLeaks == pc = "gone" => created = {}
===============================================================================
