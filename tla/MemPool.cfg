\* A pool that grows up to four blocks.
SPECIFICATION Spec
CONSTANTS
  Blocks = {b1, b2, b3, b4}
  NULL = NULL
INVARIANTS
  ListsPartitionBlocks
  LinkedBothWays
  FreedOnce
  NothingLeaks
