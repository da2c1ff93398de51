---------------------------- MODULE BoundedQueue ----------------------------
(***************************************************************************)
(* snake::BoundedQueue (lockless/queue/bounded_queue.hpp): a linked queue  *)
(* with one mutex for each end and an atomic size.                         *)
(*                                                                         *)
(* Grain.  A step is an access to memory that the other end also reads or  *)
(* writes: size_, the link tail_->next, the allocation and release of      *)
(* nodes, the mutexes and condition variables.  Unlocking is one step with *)
(* the access before it, and "lock, notify_all, unlock" is one step: only  *)
(* the lock can block, and only the notification is visible.               *)
(*                                                                         *)
(* The plain read of head_->next (line 51) and the plain write of          *)
(* tail_->next (line 33) touch the same field under different mutexes when *)
(* the queue is empty: a data race, but the build is unoptimised and the   *)
(* fields are words.  The read sees the old or the new value, and with the *)
(* new one the node that was filled in before it.                          *)
(***************************************************************************)
EXTENDS Integers, Sequences

CONSTANTS Threads,    \* the threads that call enq and deq
          Values,     \* the values enqueued
          Nodes,      \* the addresses operator new can return
          Capacity,   \* capacity_
          Null,       \* nullptr
          NoValue,    \* stands for SENTINEL and for an unset local
          Nobody      \* the owner of a free mutex

ASSUME CapacityAssumption == Capacity \in Nat
ASSUME NullAssumption == Null \notin Nodes
ASSUME NoValueAssumption == NoValue \notin Values
ASSUME NobodyAssumption == Nobody \notin Threads

VARIABLES
  head,               \* head_
  tail,               \* tail_
  size,               \* size_
  next,               \* next[n]: Node::next of n
  value,              \* value[n]: Node::value of n
  heap,               \* the addresses in use
  enq_mutex,          \* the owner of enq_mutex_
  deq_mutex,          \* the owner of deq_mutex_
  pc,                 \* the next step of each thread
  new_node,           \* enq: new_node
  val,                \* enq and deq: value
  must_wake_others,   \* enq and deq: must_wake_others
  chain               \* history: the nodes from head_ on, in order

memory == <<head, tail, size, next, value, heap, chain>>
mutexes == <<enq_mutex, deq_mutex>>
locals == <<new_node, val, must_wake_others>>
vars == <<memory, mutexes, locals, pc>>

\* The steps that hold enq_mutex_, and those that hold deq_mutex_.
EnqHeld == {"e_check", "e_pred", "e_sleep", "e_link", "e_tail", "e_size"}
DeqHeld == {"d_check", "d_pred", "d_sleep", "d_take", "d_size"}
EnqPcs == EnqHeld \cup {"e_lock", "e_wait", "e_relock", "e_notify"}
DeqPcs == DeqHeld \cup {"d_lock", "d_wait", "d_relock", "d_notify"}

\* The constructor: one node, the sentinel.
Init == /\ head \in Nodes
        /\ tail = head
        /\ size = 0
        /\ next = [n \in Nodes |-> Null]
        /\ value = [n \in Nodes |-> NoValue]
        /\ heap = {head}
        /\ chain = <<head>>
        /\ enq_mutex = Nobody
        /\ deq_mutex = Nobody
        /\ pc = [t \in Threads |-> "idle"]
        /\ new_node = [t \in Threads |-> Null]
        /\ val = [t \in Threads |-> NoValue]
        /\ must_wake_others = [t \in Threads |-> FALSE]

Goto(t, from, to) == /\ pc[t] = from
                     /\ pc' = [pc EXCEPT ![t] = to]

\* The call of t returns: its locals are gone.
ClearLocals(t) == /\ new_node' = [new_node EXCEPT ![t] = Null]
                  /\ val' = [val EXCEPT ![t] = NoValue]
                  /\ must_wake_others' = [must_wake_others EXCEPT ![t] = FALSE]

\* size_ >= capacity_ compares unsigned: a negative size counts as huge.
Full == size < 0 \/ size >= Capacity

----------------------------------------------------------------------------
(* enq *)

EnqBegin(t) == /\ Goto(t, "idle", "e_lock")
               /\ \E v \in Values : val' = [val EXCEPT ![t] = v]
               /\ UNCHANGED <<memory, mutexes, new_node, must_wake_others>>

\* The lock is taken on entry, and taken again by a wait that returns.
EnqLock(t) == /\ \/ Goto(t, "e_lock", "e_check")
                 \/ Goto(t, "e_relock", "e_pred")
              /\ enq_mutex = Nobody
              /\ enq_mutex' = t
              /\ UNCHANGED <<memory, deq_mutex, locals>>

EnqCheck(t) == /\ Goto(t, "e_check", IF Full THEN "e_pred" ELSE "e_link")
               /\ UNCHANGED <<memory, mutexes, locals>>

\* Mutant: whether a thread sleeps does not depend on the size, neither before
\* it has slept nor after it has been woken up.
EnqPredOnce(t) == /\ \/ Goto(t, "e_pred", "e_sleep")
                     \/ Goto(t, "e_pred", "e_link")
                  /\ UNCHANGED <<memory, mutexes, locals>>

\* The predicate of wait_not_full_.wait.
EnqPred(t) == /\ Goto(t, "e_pred", IF Full THEN "e_sleep" ELSE "e_link")
              /\ UNCHANGED <<memory, mutexes, locals>>

\* wait: release the mutex and block, atomically.
EnqSleep(t) == /\ Goto(t, "e_sleep", "e_wait")
               /\ enq_mutex' = Nobody
               /\ UNCHANGED <<memory, deq_mutex, locals>>

\* A wait may return without a notification.
EnqSpuriousWakeup(t) == /\ Goto(t, "e_wait", "e_relock")
                        /\ UNCHANGED <<memory, mutexes, locals>>

\* The new node is visible to deq from this step on.
EnqLink(t) == /\ Goto(t, "e_link", "e_tail")
              /\ \E n \in Nodes \ heap :
                   /\ heap' = heap \cup {n}
                   /\ value' = [value EXCEPT ![n] = val[t]]
                   /\ next' = [next EXCEPT ![n] = Null, ![tail] = n]
                   /\ new_node' = [new_node EXCEPT ![t] = n]
                   /\ chain' = Append(chain, n)
              /\ UNCHANGED <<head, tail, size, mutexes, val, must_wake_others>>

\* Mutant: the tail stays where it is.
EnqTailNot(t) == /\ Goto(t, "e_tail", "e_size")
                 /\ UNCHANGED <<memory, mutexes, locals>>

EnqTail(t) == /\ Goto(t, "e_tail", "e_size")
              /\ tail' = new_node[t]
              /\ UNCHANGED <<head, size, next, value, heap, chain, mutexes,
                             locals>>

\* size_.fetch_add, then the end of the scope of the lock.
EnqCount(t) == /\ pc[t] = "e_size"
               /\ size' = size + 1
               /\ enq_mutex' = Nobody
               /\ IF size = 0
                  THEN /\ Goto(t, "e_size", "e_notify")
                       /\ must_wake_others' =
                            [must_wake_others EXCEPT ![t] = TRUE]
                       /\ UNCHANGED <<new_node, val>>
                  ELSE /\ Goto(t, "e_size", "idle")
                       /\ ClearLocals(t)
               /\ UNCHANGED <<head, tail, next, value, heap, chain, deq_mutex>>

\* Mutant: notify_all is called without taking the mutex of the waiters.
EnqNotifyUnlocked(t) ==
  /\ pc[t] = "e_notify"
  /\ pc' = [u \in Threads |-> IF u = t THEN "idle"
                              ELSE IF pc[u] = "d_wait" THEN "d_relock"
                              ELSE pc[u]]
  /\ ClearLocals(t)
  /\ UNCHANGED <<memory, mutexes>>

\* Lock deq_mutex_, wake every waiter, unlock, return.
EnqNotify(t) ==
  /\ pc[t] = "e_notify"
  /\ deq_mutex = Nobody
  /\ pc' = [u \in Threads |-> IF u = t THEN "idle"
                              ELSE IF pc[u] = "d_wait" THEN "d_relock"
                              ELSE pc[u]]
  /\ ClearLocals(t)
  /\ UNCHANGED <<memory, mutexes>>

----------------------------------------------------------------------------
(* deq *)

DeqBegin(t) == /\ Goto(t, "idle", "d_lock")
               /\ UNCHANGED <<memory, mutexes, locals>>

DeqLock(t) == /\ \/ Goto(t, "d_lock", "d_check")
                 \/ Goto(t, "d_relock", "d_pred")
              /\ deq_mutex = Nobody
              /\ deq_mutex' = t
              /\ UNCHANGED <<memory, enq_mutex, locals>>

DeqCheck(t) == /\ Goto(t, "d_check",
                       IF next[head] = Null THEN "d_pred" ELSE "d_take")
               /\ UNCHANGED <<memory, mutexes, locals>>

\* The predicate of wait_not_empty_.wait.
DeqPred(t) == /\ Goto(t, "d_pred", IF size > 0 THEN "d_take" ELSE "d_sleep")
              /\ UNCHANGED <<memory, mutexes, locals>>

DeqSleep(t) == /\ Goto(t, "d_sleep", "d_wait")
               /\ deq_mutex' = Nobody
               /\ UNCHANGED <<memory, enq_mutex, locals>>

DeqSpuriousWakeup(t) == /\ Goto(t, "d_wait", "d_relock")
                        /\ UNCHANGED <<memory, mutexes, locals>>

\* Mutant: the value is read after the node has been made the sentinel.
DeqTakeCleared(t) == /\ Goto(t, "d_take", "d_size")
                     /\ next[head] # Null
                     /\ val' = [val EXCEPT ![t] = NoValue]
                     /\ value' = [value EXCEPT ![next[head]] = NoValue]
                     /\ heap' = heap \ {head}
                     /\ head' = next[head]
                     /\ chain' = Tail(chain)
                     /\ UNCHANGED <<tail, size, next, mutexes, new_node,
                                    must_wake_others>>

\* Take the value of the first node, make that node the new sentinel and
\* delete the old one.
DeqTake(t) == /\ Goto(t, "d_take", "d_size")
              /\ next[head] # Null
              /\ val' = [val EXCEPT ![t] = value[next[head]]]
              /\ value' = [value EXCEPT ![next[head]] = NoValue]
              /\ heap' = heap \ {head}
              /\ head' = next[head]
              /\ chain' = Tail(chain)
              /\ UNCHANGED <<tail, size, next, mutexes, new_node,
                             must_wake_others>>

\* Mutant: enqueuers are woken up when the size has dropped to the capacity.
DeqCountWakesLate(t) ==
  /\ pc[t] = "d_size"
  /\ size' = size - 1
  /\ deq_mutex' = Nobody
  /\ IF size - 1 = Capacity
     THEN /\ Goto(t, "d_size", "d_notify")
          /\ must_wake_others' = [must_wake_others EXCEPT ![t] = TRUE]
          /\ UNCHANGED <<new_node, val>>
     ELSE /\ Goto(t, "d_size", "idle")
          /\ ClearLocals(t)
  /\ UNCHANGED <<head, tail, next, value, heap, chain, enq_mutex>>

\* size_.fetch_sub, then the end of the scope of the lock.
DeqCount(t) == /\ pc[t] = "d_size"
               /\ size' = size - 1
               /\ deq_mutex' = Nobody
               /\ IF size = Capacity
                  THEN /\ Goto(t, "d_size", "d_notify")
                       /\ must_wake_others' =
                            [must_wake_others EXCEPT ![t] = TRUE]
                       /\ UNCHANGED <<new_node, val>>
                  ELSE /\ Goto(t, "d_size", "idle")
                       /\ ClearLocals(t)
               /\ UNCHANGED <<head, tail, next, value, heap, chain, enq_mutex>>

\* Lock enq_mutex_, wake every waiter, unlock, return.
DeqNotify(t) ==
  /\ pc[t] = "d_notify"
  /\ enq_mutex = Nobody
  /\ pc' = [u \in Threads |-> IF u = t THEN "idle"
                              ELSE IF pc[u] = "e_wait" THEN "e_relock"
                              ELSE pc[u]]
  /\ ClearLocals(t)
  /\ UNCHANGED <<memory, mutexes>>

----------------------------------------------------------------------------
EnqStep(t) == \/ EnqLock(t) \/ EnqCheck(t) \/ EnqPred(t) \/ EnqSleep(t)
              \/ EnqLink(t) \/ EnqTail(t) \/ EnqCount(t) \/ EnqNotify(t)

DeqStep(t) == \/ DeqLock(t) \/ DeqCheck(t) \/ DeqPred(t) \/ DeqSleep(t)
              \/ DeqTake(t) \/ DeqCount(t) \/ DeqNotify(t)

Step(t) == EnqStep(t) \/ DeqStep(t)

SpuriousWakeup(t) == EnqSpuriousWakeup(t) \/ DeqSpuriousWakeup(t)

Begin(t) == EnqBegin(t) \/ DeqBegin(t)

Next == \E t \in Threads : Begin(t) \/ Step(t) \/ SpuriousWakeup(t)

Spec == Init /\ [][Next]_vars

----------------------------------------------------------------------------
(* Properties *)

\* Every variable holds what its C++ type allows.
TypeOK ==
  /\ head \in Nodes /\ tail \in Nodes
  /\ size \in Int
  /\ next \in [Nodes -> Nodes \cup {Null}]
  /\ value \in [Nodes -> Values \cup {NoValue}]
  /\ heap \subseteq Nodes
  /\ chain \in Seq(Nodes)
  /\ enq_mutex \in Threads \cup {Nobody}
  /\ deq_mutex \in Threads \cup {Nobody}
  /\ pc \in [Threads -> {"idle"} \cup EnqPcs \cup DeqPcs]
  /\ new_node \in [Threads -> Nodes \cup {Null}]
  /\ val \in [Threads -> Values \cup {NoValue}]
  /\ must_wake_others \in [Threads -> BOOLEAN]

\* The threads inside the critical section of one end: at most one each.
MutualExclusion ==
  \A t \in Threads : /\ pc[t] \in EnqHeld <=> enq_mutex = t
                     /\ pc[t] \in DeqHeld <=> deq_mutex = t

\* Some enq has linked a node that it has not counted yet; some deq has taken
\* one that it has not discounted yet.
Linking == \E t \in Threads : pc[t] \in {"e_tail", "e_size"}
Taking == \E t \in Threads : pc[t] = "d_size"

\* size_ is the number of values in the queue, but for those two.  It can be
\* -1: a deq may take a node before the enq that linked it has counted it.
SizeIsLength == size = Len(chain) - 1 - (IF Linking THEN 1 ELSE 0)
                                      + (IF Taking THEN 1 ELSE 0)

\* An enq that compares size_ with capacity_, unsigned, never sees a negative
\* size, which would count as a full queue; nor does one that sleeps.
EnqSeesNoNegativeSize ==
  \A t \in Threads : pc[t] \in {"e_check", "e_pred", "e_sleep"} => size >= 0

WithinCapacity == Len(chain) - 1 <= Capacity

\* There are never more values in the queue than its capacity, and never so
\* few that the queue counts as full: size_ is below zero only while no enq
\* looks at it.
CapacityRespected == WithinCapacity /\ EnqSeesNoNegativeSize

\* The nodes in use are the nodes of the queue: each is followed by the next
\* one and the last by null.
ChainShape ==
  /\ Len(chain) >= 1
  /\ head = chain[1]
  /\ heap = {chain[i] : i \in 1 .. Len(chain)}
  /\ \A i, j \in 1 .. Len(chain) : chain[i] = chain[j] => i = j
  /\ \A i \in 1 .. Len(chain) :
       next[chain[i]] = IF i = Len(chain) THEN Null ELSE chain[i + 1]
  /\ \A i \in 2 .. Len(chain) : value[chain[i]] \in Values

\* While no enq is between its link and its tail assignment, tail_ is the last
\* node; otherwise that enq has it.
TailIsLast ==
  /\ \A t \in Threads : pc[t] = "e_tail" => new_node[t] = chain[Len(chain)]
  /\ (\A t \in Threads : pc[t] # "e_tail") => tail = chain[Len(chain)]

\* enq writes through tail_ and deq reads through head_->next: neither is a
\* node that a deq has deleted, although deq frees nodes that tail_ may still
\* point to.
NoUseAfterFree ==
  \A t \in Threads : /\ pc[t] = "e_link" => tail \in heap
                     /\ pc[t] = "d_check" => head \in heap
                     /\ pc[t] = "d_take" => {head, next[head]} \subseteq heap

\* No wakeup is lost: if a thread waits for a value, or has found that it
\* must, and there is one, somebody is on the way to wake it up; and the same
\* for a thread that waits for room.
NoLostWakeup ==
  /\ size > 0 /\ (\E t \in Threads : pc[t] \in {"d_sleep", "d_wait"})
       => \E u \in Threads : pc[u] = "e_notify"
  /\ size < Capacity /\ (\E t \in Threads : pc[t] \in {"e_sleep", "e_wait"})
       => \E u \in Threads : pc[u] = "d_notify"

\* What a thread has tested under its mutex still holds when it acts on it:
\* there is room when it links, and a value when it takes one.
TestsHold == \A t \in Threads : /\ pc[t] = "e_link" => size < Capacity
                                /\ pc[t] = "d_take" => Len(chain) >= 2

\* A thread inside enq has a value to enqueue.
ArgOK == \A t \in Threads : pc[t] \in EnqPcs => val[t] \in Values

\* The inductive invariant.
IInv == /\ TypeOK
        /\ ArgOK
        /\ MutualExclusion
        /\ ChainShape
        /\ TailIsLast
        /\ SizeIsLength
        /\ TestsHold
        /\ WithinCapacity
        /\ NoLostWakeup

----------------------------------------------------------------------------
(* The queue implements FifoQueue: a value is in the queue from the link of *)
(* its node on, and out of it once deq has moved the head.                  *)

contents == [i \in 1 .. Len(chain) - 1 |-> value[chain[i + 1]]]

callPhase == [t \in Threads |->
                CASE pc[t] = "idle"                            -> "idle"
                  [] pc[t] \in {"e_tail", "e_size", "e_notify"} -> "enqDone"
                  [] pc[t] \in {"d_size", "d_notify"}           -> "deqDone"
                  [] pc[t] \in DeqPcs \ {"d_size", "d_notify"}  -> "deq"
                  [] OTHER                                      -> "enq"]

Fifo == INSTANCE FifoQueue WITH queue <- contents, phase <- callPhase,
                                data <- val

\* Linearizability of enq and deq.
ImplementsFifo == Fifo!Spec

=============================================================================
