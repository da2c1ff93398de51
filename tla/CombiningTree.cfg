\* Leaves 4 to 8.  Threads 3 and 4 meet at node 3; the first of them carries both
\* calls up to node 1, where it meets thread 0.
CONSTANTS
  NUM_THREADS = 5
  Threads = {0, 3, 4}
  MaxCalls = 5
SPECIFICATION FairSpec
CHECK_DEADLOCK FALSE
INVARIANTS NoInvalidState ResultsInOrder QuietTree StackInBounds
PROPERTY CallsReturn
