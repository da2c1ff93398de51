# Formal models of the data structures

This directory models the concurrent data structures of `lockless/` and the
graphs, searches and memory counters of `graphs/` in TLA+. TLC checks small
instances of every model; TLAPS proves, for every size, all invariants and
refinements that the passing runs check, and leaves only liveness to TLC.
All paths below are relative to the repository's
root, except the names of modules, which are in this directory.

## 1. Inventory

### lockless/

**UnboundedQueue** (`lockless/queue/unbounded_lockless_queue.hpp`), the
Michael and Scott queue. State: atomic `head_` and `tail_`, and nodes with an
atomic `next`. Nodes are never freed. `enq` links at the tail and swings
`tail_`; `deq` swings `head_`, and throws on an empty queue. Both help a tail
that lags. Hard: every decision rests on loads made at different times.
Correct means: linearizable to a FIFO queue, never a null dereference,
lock-free.

**BoundedQueue** (`lockless/queue/bounded_queue.hpp`), a linked queue with a
mutex and a condition variable for each end and an atomic `size_` between
them. `deq` deletes nodes. Hard: the two ends communicate through `size_` and
`next` without a common lock; `size_` can be -1; each end notifies the other
under the *other* mutex, and only when it was the one to see the limit.
Correct means: FIFO, at most `capacity_` values, no use of a deleted node, no
lost wakeup, no deadlock.

**LockFreeExchanger, EliminationArray** (`lockless/stack/lockfree_exchanger.hpp`).
State: one 64-bit word per slot with an item and a two-bit state. `exchange`
proposes an item or answers a proposal, within a time limit. Hard: the timeout
races the answer; the slot is freed by a plain store; the sign bits of an item
overlap the state. Correct means: items are swapped in pairs or not at all.

**EliminationStack** (`lockless/stack/elemination_stack.hpp`), a Treiber stack
whose `push` and `pop` visit the elimination array whenever an exchange of
`top_` fails. Nodes that were in the stack are never freed, but the node of an
eliminated push is. Hard: reuse of such addresses; a push that meets a push.
Correct means: linearizable to a stack, lock-free.

**List** (`lockless/ordered_list/list.hpp`), the lock-free sorted list: pointer
and removed flag of a node are one word; `add`, `remove` (mark, then unlink)
and `contains`; `find` unlinks marked nodes on its way. Correct means:
linearizable to a set, sorted, lock-free. It is not always a set: see section 6.

**CombiningTree** (`lockless/combining_tree/combining_tree.hpp`), a counter. Each
node is a monitor with a state IDLE/FIRST/SECOND/RESULT/ROOT; a call goes up
(`precombine`), collects (`combine`), applies (`op`) and comes back down
(`distribute`). Hard: threads wait for each other across nodes, and a node must
be free for two new threads at the right moment. Correct means: the results are
those of a counter, no unexpected state, every call returns.

### graphs/

**GraphCSR** (`graphs/graph_compressed_sparse_row.hpp`). State: `row_ptrs_`,
`column_indices_`, `values_`. Operations: add/remove vertex and edge, save and
load, `bfs`, `bfs_bitmask`, and three threaded searches. Hard in the searches:
the list that all threads read is replaced at a barrier; two threads find the
same vertex in one round. Hard in the updates: positions kept in one array must
follow changes of another.

**GraphAdjacencyList**, **GraphEdgeList**: the same interface over a map of rows
and over a list of pairs. Hard: edges and vertices are entangled (a vertex of the
edge list exists because a pair names it; one of the lists makes the ends of a
new edge, the CSR form ignores it). Correct means, for all three: a call
changes the vertices and edges it names and no others.

**dfs**, **bfs** (`graphs/garph_algo.hpp`): sequential searches over any graph, each a
set of marks and a stack or a queue. Correct means: every vertex that can be
reached, once; in `bfs` the nearer ones first.

**Heap tracker** (`graphs/peak_mem.hpp`): `operator new` and `delete` keep the bytes in
use and their peak in two relaxed atomics; the size of a block is written in front
of it. Hard: two threads raise the peak at once, from old values. Correct means: the
count is that of the blocks in use, and the peak is exact when nobody is
inside `new`.

**RssPoller** (same file): a thread that samples the working set, keeps the largest
sample, and ends when the destructor sets a relaxed flag. Correct means: the
peak is the largest sample, and the destructor returns.

**benchmark_graph** (`graphs/benchmark_graph.cpp`): `main` loads the graph of an
earlier run from a file, or builds and saves it, and searches it with threads. Hard:
the file was written by a run that may have been killed. Correct means: the
graph that is searched is the one that was built.

**print_summary**, **strides_benchmark**, the tests: output and measurement, no state
that a property could be about. Not modelled.

### How the components interact

`EliminationStack` calls `EliminationArray::visit`, which calls
`LockFreeExchanger::exchange` on a random slot and returns its result; nothing
else is shared between the two. `GraphCSR` is made from a `GraphAdjacencyList`, or
loaded from a file that another process may have written. The searches call the
observer and read a graph that nobody changes meanwhile. The heap tracker serves all
threads of a program, the poller runs beside them; the two share no variable. All
other components stand alone. The tests start threads, let them call, and join
them; the tests of the graphs make the same calls on all three containers.

## 2. Modules

| module | what it is |
|---|---|
| `FifoQueue`, `LifoStack`, `Exchanger`, `SetObject`, `BreadthFirst`, `MultiGraph` | what a queue, a stack, an exchanger, a set, a breadth-first search and a graph promise |
| `UnboundedQueue` | enq, deq; implements `FifoQueue` |
| `BoundedQueue` | enq, deq, mutexes, condition variables; implements `FifoQueue` |
| `LockFreeExchanger` | exchange and visit; implements `Exchanger` |
| `EliminationStack` | push and pop over an instance of `Exchanger`; implements `LifoStack` |
| `OrderedList` | add, remove, contains, find |
| `OrderedListPhases` | the same list, first filled and then emptied; implements `SetObject` |
| `CombiningTree` | get_and_increment |
| `GraphAdjacencyList`, `GraphEdgeList`, `GraphCSR` | the three containers: one action per update, one operator per query |
| `GraphRows` | what the standard library does to a row of a graph: sort, erase, join |
| `GraphSearch` | dfs and bfs |
| `GraphArrays` | a `GraphCSR` as part of a larger system: its arrays and its instance |
| `GraphContainers` | composes the four: the same calls on all containers, and the searches over each; implements `MultiGraph` three times |
| `ParallelBfs` | bfs_threads, v2 and v3; implements `BreadthFirst` |
| `BenchmarkGraph` | composes `ParallelBfs` and, by `GraphArrays`, `GraphCSR` with the file: main, run after run |
| `HeapTracker`, `RssPoller` | the two halves of peak_mem.hpp |
| `PeakMem` | composes them: a program with several threads and a poller |
| `*_proofs` | theorems: `UnboundedQueue`, `BoundedQueue`, `LockFreeExchanger`, `EliminationStack`, `OrderedList` (with `OrderedListPhases`), `CombiningTree`, `PeakMem` (with its two halves), and `Graphs_proofs` for everything of `graphs/` but the memory counters |
| `MC*` | instances for TLC: fairness, workloads, bounds |

Conventions. `pc[t]` is the next access of thread `t`; the prefix of its value
names the function, and one action stands for one atomic access together with
the thread-local code up to the next. Locals are functions of the thread, named
as in the code, and are reset when a call returns. Variables commented
*history* are not in the code and no guard reads them. A definition whose
comment begins with *Mutant* is not part of the model: it is a plausible
mistake in the definition that follows, and shows which property would notice.

The four linearizable objects are refined in the same way. The abstract object
has a `phase` for each call: its beginning, the instant at which it takes
effect, and its return are separate steps. The detailed module defines
`callPhase` and the abstract contents from its own state, and the abstract
specification is a property. So a run checks more than the final contents: every
result must be explained by one instant of its call.

### UnboundedQueue

`next`, `value` and `heap` are the memory; `linked` is a history variable with
all nodes ever linked, in order. `EnqLoadTail` .. `EnqSwing` are lines 27-38,
`DeqLoadHead` .. `DeqReturn` lines 45-58. An enqueue takes effect at `EnqLink`,
a dequeue at `DeqSwing`, and one that throws at the load of a null `next`
(`SawEmpty`), which it may still forget if its second load of `head_` differs.

### BoundedQueue

Mutexes are variables with an owner. A wait is three steps: test the
predicate under the mutex (`EnqPred`), release it and sleep (`EnqSleep`), and,
after a notification or a spurious wakeup, take it again. `size` is signed and
`Full` compares it unsigned, as line 28 does. Deleted nodes leave `heap` and may
be allocated again. Line 51 reads a plain field that line 33 writes under the
other mutex. This is a data race; the models take the build of
`lockless/CMakeLists.txt`, which does not optimise, where the read of a word
gives its old or its new value.

### LockFreeExchanger

The word is an unsigned number of `BITS_POS + 3` bits, an item a signed number
of `T_BITS` bits; packing, masking, shifting and the conversion to `T` are
arithmetic on them. Each thread has a clock with three readings, before, at and
after `run_until`, because the loops compare with `<=` and `<`. Time passes in
steps of its own (`Tick`), between any two accesses.

### EliminationStack

`visit` is replaced by an instance of `Exchanger`: the variables `offer`,
`got` and `array` belong to it, `Meet` and `TimeOut` are its `Match` and `Miss`. That
is justified by the run `exchanger`. A push that has met a pop without
knowing it yet has already taken effect.

### OrderedList

`next_and_removed[n]` is a record. `FindAdvance` is what find does once it has
a node that is not removed: return it, and with it the decision of the caller, or
move on. `FindUnlink` compares with `pred_next`, which was loaded after `cur` and
`cur_next`, exactly as line 157 does. `logical` and `balance` are history.

### CombiningTree

The methods of a node hold its mutex, so a method is one step up to its wait,
and one after it. Heap order gives the tree its shape: `Parent`, `Leaf` and the
number of nodes are those of the constructor. `throw` is the `default` of the
three switches. `max_stack_depth` is the size of the array `stack`.

### Graphs

`GraphCSR` keeps the three arrays; positions count from 0 as in the code. An update
of a row moves the beginnings of the rows behind it (`Shifted`, lines 110-112, 129-131,
145-147). `Has` is the test `value_index(x) == size()`. `GraphEdgeList` has the pair
with `max` that stands for a vertex without edges. In `GraphAdjacencyList`,
`With` is what `operator[]` does, which makes an entry if there is none.

The searches of one thread are functions from rows to the final state of their
variables, round by round, because the graph is constant during a call: `Rounds` is the
loop, `Discover` the loop inside it, both recursive functions. `GraphRows` says what the library
calls of the containers give without a recursion of its own: an element of a
sorted row is at the place that the number of smaller ones determines (`Sorted`), the `k`th one left by
`std::erase` is the one with `k` kept positions up to it (`Kept`).

`GraphContainers` makes the calls that mean the same to all three containers.
They differ, and the differences are not errors: `add_vertex` of a vertex that is there
empties its row in the adjacency list, adds a pair to the edge list, and adds a
second entry to the CSR arrays (so `size()` is then not the number of vertices, as the
comment in lines 151-154 has it, and `vertices()` is right all the same, which is what the test
compares); `add_edge` makes missing ends in the lists and does nothing in the CSR form;
`remove_edge` removes all edges from x to y in the lists and one in the CSR form
(`RemovesAll`). After a `remove_vertex` that would have to move positions in other rows, the CSR graph
is made anew from the adjacency list; section 6 says why. The test for that, `NothingBehind`,
is not in the code: it chooses which calls of `remove_vertex` the model makes.

### ParallelBfs and BenchmarkGraph

`version` tells the three functions apart: who marks (`Mark`, `Fresh`) and how the
list is shared (`FirstIndex`, `Stride`, `EndIndex`). The bits of `visited` are a
set. The completion function runs in the last arrival while all others wait, so
it is one step (`ArriveLast`). A search is called (`Call`), ends when its threads
have been joined, and may be followed by another one.

`BenchmarkGraph` adds `main`: `Load`, `Build`, `Save`, `CallSearch`, `Join`. The file is
the sequence of words that `save_to_file` writes. `Run` starts the program again, after its
end or in the middle of anything but a search (a process killed while it searches
leaves the same file as one that has ended); killed while it saves, it leaves the
file cut at any of `Cuts`. `load_from_file` does not look at the state of the stream:
what a short file does not give is what the arrays held, or `Garbage` for a size.
When the arrays are then such that a search would read out of bounds, the state is
"undefined" and the model says nothing of what follows. `loaded_cut` is history.

### HeapTracker, RssPoller, PeakMem

Both use relaxed atomics. A load returns any value that coherence allows: `peaks` has
all values `g_peak_heap` ever had, and a thread never reads one older than the last it
read (`prev`). A read-modify-write acts on the latest. `top`, `peaks` and `largest`
are history. A `free` makes the address available to the next `malloc`; addresses are
reused without a bound. In `RssPoller`, a load of `stop_` may return false after the store
(`NotStopped`), though not for ever.

## 3. Runs

Numbers are distinct states.

| run | what it shows | states |
|---|---|---|
| `unbounded_queue` | linearizable to `FifoQueue`; `HeadTailOrder`, `NoNullDereference`; `NonBlocking`: a stopped thread holds nobody up | 416 k |
| `bounded_queue` | linearizable; `CapacityRespected` (with a signed size compared unsigned), `NoUseAfterFree`, `NoLostWakeup`; `Termination` | 249 k |
| `exchanger` | implements `Exchanger`; `SlotOwnership`; `NoInvalidState`; `VisitReturns` | 209 k |
| `elimination_stack` | implements `LifoStack`; `ChainShape`, `NoReuse`, `NonBlocking` | 776 k |
| `ordered_list` | `Sorted`, `RemovedFrozen`, `EveryRemoveHasItsAdd`, `NonBlocking` | 1.3 M |
| `ordered_list_adds_then_removes` | implements `SetObject` if no add overlaps or follows a remove | 471 k |
| `ordered_list_lost_add` | an add that has returned true is lost (expected violation, section 6) | |
| `combining_tree` | `ResultsInOrder`, `NoInvalidState`, `QuietTree`, `StackInBounds`, `CallsReturn` | 360 k |
| `graph_containers` | each container implements `MultiGraph`; `Shape` of the CSR arrays; `SearchesComplete` | 33 k |
| `graph_containers_stale` | `adjacent` after any `remove_vertex` (expected violation, section 6) | |
| `benchmark_graph` | the threaded searches implement `BreadthFirst`; `SharesAreCurrent`; `SearchesTheBuiltGraph`, as far as it was written if the run has loaded a file that was cut; `SearchEnds` with a complete result | 190 k |
| `peak_mem` | `PeakIsMax`, `Accounting`, `PeakIsLargestSample`, `DestructorReturns` | 1.1 M |

### Bounds, and why they are enough

* *Nodes* is finite. In `UnboundedQueue` and `OrderedList` nothing is freed, so it
  bounds the number of enqueues or adds of a behaviour, not the number of
  dequeues, removes and lookups. Two enqueues by three threads make both
  helping paths, a lagging tail and a drained and refilled queue happen; the
  theorems of section 4 are about any number. Two adds
  by two threads over two values make marked neighbours happen, and a node in
  front of a marked one. In `BoundedQueue` and `EliminationStack` addresses are
  reused without a bound.
* *Values*. A queue or stack never looks at a value. The unbounded queue never
  uses an address twice either, so its run hands addresses out in ascending order and gives
  every enqueue the address of its node as its value (`NumberedEnq`). In the `MC` modules of
  `BoundedQueue` and `EliminationStack` each producer, or each address, has a
  value of its own; exchanging values of two enqueues would then be visible.
* *bounded_queue* has the workload of `test_bounded_queue.cpp`: as many dequeues
  as enqueues, two producers and two consumers, one of each calling twice
  (`Twice`), at capacity one, where both ends wait; `MaxSpurious` bounds the
  spurious wakeups.
* *exchanger*: one slot is the worst case, since slots share nothing. A one-bit
  signed type has the items 0 and -1: the one whose packed word has no bit of its
  own, and the one whose sign fills the state bits.
* *combining_tree*: of five ids, 3 and 4 share the leaf parent 3, and the one of them that goes
  on meets 0 at node 1: that is the case of a thread that carries two calls up and
  becomes second. `MaxCalls` = 5 lets rounds follow each other at the same node.
  The run does not check deadlock, since the system stops when the calls are used up.
* *benchmark_graph*: three threads, so that a list of one or two vertices leaves
  threads without a share, and one of three gives each one; graphs of three layers,
  with loops, edges back, a double edge, and vertices that several threads find at
  once. The file is cut at its beginning, within the sizes, within `row_ptrs_` and within
  `column_indices_`. The positions of the vertices are the vertices, as in the benchmark.
* *graph_containers*: three vertices are enough for a removed one to have one in
  front and one behind it; `MaxCopies` = 2 gives double edges, on which `remove_edge`
  differs; loops are edges like others. `MaxEdges` = 3 bounds the rows.
* *peak_mem*: two threads and two addresses, so that both allocate at once, one frees
  what the other has allocated, and an address is reused; two sizes, so that the
  larger peak can come first or last. `Sizes` and `Addresses` bound the count.

### Fairness

`SurvivorSpec` (unbounded queue, exchanger, stack, list): only the threads in
`Survivors` are scheduled fairly, and only inside a call. The others may stop at
any access for ever. That is the claim of a lock-free structure, and no fairness
is taken from the code. In the exchanger time passes too; it does so
whatever the threads do. `WorkSpec`, `FairSpec` and `BenchmarkSpec`:
every thread that can run does, which any operating system's scheduler grants.
Waiting on a mutex, a condition variable or the barrier is a disabled action, and
weak fairness is enough: no run needs a mutex to be fair. Spurious wakeups are
allowed and never needed. `RssFairness`: the poller is scheduled, and a relaxed load that is
repeated for ever sees the store of `stop_` in the end (strong fairness of `Stopped`), which the
standard asks of implementations. Nothing is assumed of the threads that allocate.

Atomics are sequentially consistent, the default order, everywhere but in
`peak_mem.hpp`, whose relaxed order is modelled as said in section 2.

## 4. Proofs

The `*_proofs` modules are checked by tlapm to the last leaf, for any values of the
constants. They use the named assumptions of the modules only: `Null` is no node and
`NoValue`, `PopToken` and the like are no values, the values of the list are integers between
the sentinels, sizes and bounds are natural numbers, an item is no wider than what the state
bits of a word leave, the ids of the threads of a combining tree are below `NUM_THREADS`, there
is at least one thread in a search, and a graph has finitely many vertices. The properties of
section 3 say what must be true, and the inductive invariants below say why.

**UnboundedQueue.** `InvariantHolds`, `HeadTailOrderHolds`, `NoNullDereferenceHolds`.
That `next` is not null at line 55 is not inductive: it depends on how the four
loads of deq relate. `IInv` therefore says what each local remembers
(`EnqMemoryOf`, `DeqMemoryOf`), in terms of the order in which nodes were linked
(`Reaches`): `expected_head` was a head, `expected_tail` is at or after it and at
or before the present tail, and `next` is still the successor of `expected_head`,
unless it was null, which only one node could give. The lemmas show that `Reaches` is a linear
order that an append extends and nothing else changes. Each action then
disturbs only the conjuncts of its own thread.

`ImplementsFifoHolds`: the initial state maps to the initial state of `FifoQueue` and every
step to a step or a stutter. One lemma says how `contents` changes with `linked` and the head
(`AppendContents`, `TailContents`), then there is one lemma per action. The step that
needs `IInv` most is the exchange of the head: that the value returned is that of the
first node in line comes from `DeqMemory`.

**BoundedQueue.** `IInvHolds`, `CapacityRespectedHolds`, `NoUseAfterFreeHolds`,
`NoLostWakeupHolds`. The two ends share no lock, so neither sees the size as it
is. `SizeIsLength` says by how much it can be wrong, as a function of who is between a
link and its count (`Linking`) or a take and its count (`Taking`); with
`MutualExclusion` each end then knows a bound (`SizeSeenByEnq`,
`SizeSeenByDeq`): an enq sees no fewer values than there are, hence the capacity and
the unsigned comparison; a deq sees no more. `TestsHold` carries the test of a predicate to
the step that relies on it. `NoLostWakeup` is inductive once these are known: the
count that makes a waiter's condition true is the one that decides to notify. The
proof does not need that wakeups are not spurious.

`ImplementsFifoHolds`: an enqueue takes effect at its link and a dequeue when it moves the
head, so a value may leave before it has been counted.

**LockFreeExchanger.** `IInvHolds`, `SlotOwnershipHolds`, `NoInvalidStateHolds`,
`ImplementsExchangerHolds`. The first lemmas are about the layout of
a word: powers of two, the division by one, and from them that packing and unpacking
give back the item and the state, whatever the sign bits of the item (`WordOfItem`,
`WordStates`). `CallOK` then says what a thread between two accesses knows: after its proposal the
word of the slot is this proposal or an answer to it, for nobody else leaves the
state that the thread has put there. So a proposal that timed out either is taken back, or its answer
is in the word. In the refinement the answering exchange is the instant
of both calls, also of the one that has not looked yet; `Shown` relates the two.

**EliminationStack.** `IInvHolds`, `ChainShapeHolds`, `NoReuseHolds`. `IInv` adds to these two
properties who owns which node: that of a push is allocated, holds its value and
belongs to no other push (`CallOK`, `OneOwner`). What makes the exchange of `top_` by
a pop safe is `NoReuse`: the address it has read may have left the stack, but as such
nodes are never freed it has not been pushed again, and its successor is the one read.
`VisitOK` says what a call has in the elimination array.

`ImplementsStackHolds`: a pushed value is on the stack from the exchange of `top_` on. An
eliminated pair takes effect in one step, at its meeting (`PushAndPop`).

**OrderedList.** `InvariantHolds`, `SortedHolds`, `RemovedFrozenHolds`. The exchanges of find
and remove write successors that were read long before, so sortedness needs
an order on what threads hold: `InOrder` says that `pred` is below the argument
and below `cur`, and that `cur_next` is beyond `cur` wherever it will be written.
`InOrder` speaks of values of nodes only, which never change once the node
is in the list; so one lemma (`InOrderKept`) disposes of all other threads, and
one (`SortedAfterExchange`) of every exchange. `RemovedFrozen` needs moreover that no flag
is set at an address that is not allocated yet (`NewNodesOK`). `EveryRemoveHasItsAddHolds`
counts the nodes of a value that are not removed: the exchange of an add makes one, that of a remove
takes one, and no other changes their number. Note that these theorems
hold in spite of the lost add of section 6: the list stays well-formed and no two removes
take the same add, it just does not hold what it should.

`PhasesInvHolds`, `ImplementsSetHolds`: a list that is first filled and then emptied implements
`SetObject`. The reason is that `next` then skips no node in use (`NothingBetween`). While the list is being
filled no flag is set, hence nothing is unlinked; while it is being emptied nothing is linked, hence the
stale `pred_next` of section 6 cannot hide a new node. A call takes effect at the
access that decides its result.

**CombiningTree.** Five layers, each about the one below. `IInvHolds` (with `NoInvalidStateHolds`,
`QuietTreeHolds` and `StackInBoundsHolds`): there is a path for every thread, the nodes it
went up and has not come down again, and the state and the lock of a node are determined by
whose paths end at it or pass it (`NodeOK`). The path is quantified in the invariant, since the code
keeps only its upper part. So a node is never met by a third thread (`NoThirdThread`), and a
path is no longer than the tree is high, `ceil(log2(NUM_THREADS))` (`ChainHeight`,
`MaxStackDepth`). `SumsHold`: what a thread carries is one more than the sum of what it found below.
`PlacesHold`: every number given out at the root is in exactly one place, returned, owned by a thread, or
left at a node for the thread that waits there; hence no result is returned twice and none is missing.
`GroupsHold`: each thread on its way up speaks for a group of calls, as many as the amount it
carries. `FloorsHold`: the results a thread brings down are above the largest one that had been
returned when each of its calls began, since the count of the root, which is above every number returned, only grows.
`ResultsInOrderHolds` combines places and floors.

**ParallelBfs.** `SharesAreCurrentHolds`, `SearchInvHolds`, `ImplementsBreadthFirstHolds`, for any number of
threads, any rows, all three versions and any sequence of searches. `RoundInv` ties the position of each
thread to the list: a thread in a round has its share of this list, and one that has left has found
it empty. `SearchInv` says how far the round is: what has been observed are the
vertices within some distance, in order (`Levels`); what the threads have
found in the round is new, by `Marks` once in the versions where marks are shared; and what is next to the
part of a share that is done has been found or was known (`SeenBy`). The shares cover the list
(`SharesCover`), by division in one version and by remainders in the others, also if there are more threads
than vertices. What `sync_func` makes of the findings is a fold (`MergedFacts`,
`FreshFacts`), and the distances are a recursive function (`BallIs`, `BallEnds`): both are found by induction,
for the numbers of which a claim is false would have a least one.

**GraphAdjacencyList, GraphEdgeList, GraphCSR.** `AdjacencyListIsMultiGraph`, `EdgeListIsMultiGraph`,
`CSRIsMultiGraph`: after any calls, in any order and with no bound on vertices or edges, each of
the three is the multigraph that the calls describe. `ContainersShape`: the rows of `GraphCSR`
tile `column_indices_` and are sorted. They rest on `TAssumption`: vertices are integers and `max` is not one
of them. `CSRIsMultiGraph` and `SearchesOfContainers` are about `AlwaysInPlace` = FALSE, the use of `remove_vertex`
that does not leave stale positions (section 6). `Graphs_proofs` EXTENDS both `GraphContainers` and `BenchmarkGraph`,
which are two systems; the variables of `GraphArrays` belong to the one a theorem is about.

`AdjInv` says that every neighbor in the adjacency list is a vertex. `EdgeListInv` says which
pairs the list can hold, and that a vertex has its pair with `max`, so it does not go with its
last edge. For the arrays, `HasGraph` says that there is a function `R` from positions
to sorted rows, laid out one after the other in `column_indices` with their beginnings in `row_ptrs`
(`Laid`), over distinct values. `R` is quantified in the invariants (`CSRInv`, `CSRGraphInv`), since the
code has no such rows: an update of `R` at one position is, in the code, an insertion in the middle of
one array and a shift of a part of another, and one lemma for each kind of update says that
the arrays follow. `CSRInv`, which `Shape` needs, holds in spite of stale positions; `CSRGraphInv` says moreover that
every position in a row is one of the array (`InRange`), which `remove_vertex` keeps only where `NothingBehind` is true. The constructor from an adjacency list makes
such an `R` (`Joining`, `Sorted`).

The number of edges from x to y is a number of positions in a row, and that it is
unchanged by sorting, by a renaming of the vertices to positions and by everything that happens to
other rows is a bijection between positions.

**dfs, bfs.** `SearchesOfContainers`, for finitely many vertices: after any calls, from any vertex, the
searches of `garph_algo.hpp` over each container, and the bfs of `GraphCSR` over its
positions, end, and have observed what can be reached, once, bfs the nearer vertices first.
`SearchKeeps` is the invariant of the loop: what is marked has been observed or waits, once and not both, and can be reached;
what an observed vertex leads to is marked. It is indifferent to the end at which `to_visit` is taken, so it
serves the queue and the stack. No vertex is observed twice, so there are no more rounds than vertices. For
the order of bfs, `InOrder` is about the observed vertices followed by the queue: nothing is
in front of a vertex that is nearer.

**BenchmarkGraph.** `TheBuiltGraphIsSearched`: whatever graph the random edges have made, and
however often the program is killed and started again, what a run searches is what was built,
except in a run that loads a file that was cut (`loaded_cut`). A run that builds the graph and
fails to save it is included; so is one that loads what an earlier run has written in full. The
exception is the code's, not the proof's: in such a run the arrays need not be the graph
(section 7). `BenchmarkInv` says when the arrays are those of the graph (`BuiltCSR`), and the
proof is that `load_from_file` reads back what `save_to_file` wrote: sizes and arrays, three
times, one behind the other. The other half, `KeepsTheFile`, has no exception: the words of the
arrays begin with those of the file. `FileInv` adds that the file is a beginning of the words
of the graph. That is needed for the length: the sizes that were read leave room for all the
file holds (`LoadKeeps`). `BenchmarkSearches`: whatever the file holds, what `main` does to the
search is a call of `ParallelBfs` with rows of vertices that exist (`SearchedInv`), and the
rest of its steps leave the search alone; hence `BenchmarkImplementsBreadthFirst`.

**PeakMem.** `HeapInvHolds`, `PeakIsMaxHolds`: `HeapInv` adds to `PeakIsMax` that
nobody has read a value above the peak: a stale read can only make a thread try
once more. `AccountingHolds`: the count is the sum of the sizes of the blocks that are counted;
what `MapThenSumSet` computes is found by induction over the subsets of a finite set, and each step then
changes one summand. `CurIsNeverNegative` follows: the unsigned count never wraps, whoever frees
what and however late. `PeakIsLargestSampleHolds` is about the poller. `PeakMem` takes only steps of one
half that leave the other one alone, so the theorems are about the composition (`InvariantsHold`).

### What is only model-checked

* All liveness: `NonBlocking`, `Termination`, `VisitReturns`, `CallsReturn`, `SearchEnds`,
  `DestructorReturns`. It rests on fairness and on what is enabled, which is beyond the prover.
* `AdjacentMeansEdge` of the run `graph_containers_stale`, and the lost add of
  `ordered_list_lost_add`, are violated: there is nothing to prove (section 6).
* The theorems about `GraphCSR` do not cover a `remove_vertex` in place that
  leaves stale positions behind, except for `Shape`.

## 5. What the properties are aimed at

`PROJECT.json` lists every hazard with its line. The main ones are: decisions of
deq on loads of different times (`ImplementsFifo`, `NoNullDereference`); `size_`
between two locks (`NoLostWakeup`, `CapacityRespected`); deletion of a node that
`tail_` may still be (`NoUseAfterFree`); the timeout of an exchange against its
answer (`ImplementsExchanger`, `SlotOwnership`); a popped address pushed again
(`NoReuse`); stale successors in a list (`Sorted`, `RemovedFrozen`); waiting across the
tree (`CallsReturn`); replacing a list under its readers (`SharesAreCurrent`); positions
that must follow a change elsewhere (`AdjacentMeansEdge`); rows that move when
another grows (`Shape`, `CSRImplements`); a file that another run has written
or left unfinished (`SearchesTheBuiltGraph`); old values of a relaxed atomic (`PeakIsMax`, `DestructorReturns`).

## 6. Findings

*A successful add can be lost* (`lockless/ordered_list/list.hpp`, line 157). `find` loads
`pred_next` after it has loaded `cur`, and never compares the two. If another
thread links a node between `pred` and `cur` before that load, and `cur` is
removed, the exchange of `pred`'s word from `pred_next` to `cur_next` unlinks the new
node together with `cur`. The run `ordered_list_lost_add` shows it: after all calls have
returned, a value whose last successful operation was an add is not in the list.
`test_list.cpp` line 1005 says "Verify that each value's presence in the list
matches its logical state". If adds come first, nothing is lost and the list is
linearizable (`ordered_list_adds_then_removes`).

*`GraphCSR::remove_vertex` leaves stale positions behind*
(`graphs/graph_compressed_sparse_row.hpp`, line 102). It erases the row and the entry of
the vertex but looks at no other row. Edges that led to the removed vertex now lead to the
one behind it, and edges to later vertices to the one after, or beyond the end of `values_`. The run
`graph_containers_stale` shows it in a few calls: `adjacent` differs from what the same calls
give on an adjacency list. Line 66 says "Returns true if edge exists from x to y."
Where no other row leads to the vertex or beyond it, the call is right, and the run
`graph_containers` uses it there.

## 7. Limits

Observed while modelling, and outside of what the runs state:

* `load_from_file` returns true for a file that ends early (line 215), and `save_to_file` for a
  write that fails (line 185); lines 161 and 190 say "Returns true on success, false on
  failure." `load_from_file` asks whether the file is open and never how the reads ended. What
  was written is at its place then (`KeepsTheFile`); what is missing is zero, or, of the sizes,
  uninitialised. If only column indices are missing, `main` searches a graph with edges to
  position 0 in their place. With less, the search may have no defined outcome: the model ends
  in "undefined". No later run recovers, as the file is written again only after a load that
  returned false. So of a run that has loaded such a file `SearchesTheBuiltGraph` says only
  `KeepsTheFile`, and no property says that the run notices, since it does not.
* A search from a vertex that is not in the graph reads `values_` behind its end (line 305
  and its like). No caller does it.
* `dfs` marks a vertex when it is pushed, so the order is not always that of a
  recursive depth-first search; no comment promises one.

Not modelled: `add_random_edges` chooses one of a set of graphs, fixed for all runs as its seed
is; the benchmarks that `main` has commented out; timing and output; `random_backoff` of
the stack (never called); `print` of the list; `print_summary`; `strides_benchmark`; failure of
`malloc` is a step that changes nothing; sums of sizes and positions are far from the limits of
their types.

Worth doing next: a composition of `EliminationStack` with the detailed exchanger, and the
bfs of `GraphCSR` over arrays with two entries for a vertex.
