------------------------- MODULE BoundedQueue_proofs -------------------------
(***************************************************************************)
(* The safety of BoundedQueue for every number of threads, every capacity  *)
(* and every heap: IInv is inductive, and gives CapacityRespected,         *)
(* NoUseAfterFree and NoLostWakeup; and then that the queue implements     *)
(* FifoQueue: it is linearizable.                                          *)
(***************************************************************************)
EXTENDS BoundedQueue, TLAPS, SequenceTheorems

LEMMA Lengths ==
  \A l \in Nat : /\ l >= 2 => 2 \in 1 .. l /\ l # 1 /\ 1 + 1 = 2
                 /\ l >= 1 /\ l # 1 => l >= 2
OBVIOUS

LEMMA Initial == Init => IInv
<1> SUFFICES ASSUME Init PROVE IInv
  OBVIOUS
<1>1. chain \in Seq(Nodes) /\ Len(chain) = 1 /\ chain[1] = head
  BY DEF Init
<1>2. TypeOK /\ ArgOK
  BY <1>1 DEF Init, TypeOK, ArgOK, EnqPcs, DeqPcs, EnqHeld, DeqHeld
<1>3. MutualExclusion
  BY NobodyAssumption DEF Init, MutualExclusion, EnqHeld, DeqHeld
<1>4. ChainShape
  BY <1>1 DEF Init, ChainShape
<1>5. TailIsLast /\ TestsHold /\ NoLostWakeup
  BY <1>1 DEF Init, TailIsLast, TestsHold, NoLostWakeup
<1>6. SizeIsLength /\ WithinCapacity
  BY <1>1, CapacityAssumption
  DEF Init, SizeIsLength, Linking, Taking, WithinCapacity
<1> QED
  BY <1>2, <1>3, <1>4, <1>5, <1>6 DEF IInv

(***************************************************************************)
(* What IInv says to a reader of the queue.                                *)
(***************************************************************************)

\* One thread at most is in the critical section of each end.
LEMMA OneInside ==
  ASSUME IInv, NEW t \in Threads, NEW u \in Threads
  PROVE  /\ pc[t] \in EnqHeld /\ pc[u] \in EnqHeld => t = u
         /\ pc[t] \in DeqHeld /\ pc[u] \in DeqHeld => t = u
BY DEF IInv, MutualExclusion

\* While a thread holds enq_mutex_ and has not linked, no other one has, so the
\* size counts every value but for the one that may be on its way out.
LEMMA SizeSeenByEnq ==
  ASSUME IInv, NEW t \in Threads,
         pc[t] \in {"e_check", "e_pred", "e_sleep", "e_link"}
  PROVE  ~Linking /\ size \in Int /\ size >= Len(chain) - 1 /\ size >= 0
<1>1. ~Linking
  BY OneInside DEF Linking, EnqHeld
<1>2. Len(chain) \in Nat /\ Len(chain) >= 1 /\ size \in Int
  BY DEF IInv, TypeOK, ChainShape
<1> QED
  BY <1>1, <1>2 DEF IInv, SizeIsLength

\* Nobody sees the same of the other end: a thread that holds deq_mutex_ and
\* has not taken a node sees no more than there is.
LEMMA SizeSeenByDeq ==
  ASSUME IInv, NEW t \in Threads,
         pc[t] \in {"d_check", "d_pred", "d_sleep", "d_take"}
  PROVE  ~Taking /\ size \in Int /\ size <= Len(chain) - 1
<1>1. ~Taking
  BY OneInside DEF Taking, DeqHeld
<1>2. Len(chain) \in Nat /\ Len(chain) >= 1 /\ size \in Int
  BY DEF IInv, TypeOK, ChainShape
<1> QED
  BY <1>1, <1>2 DEF IInv, SizeIsLength

LEMMA TailInHeap ==
  ASSUME IInv, NEW t \in Threads, pc[t] \in {"e_check", "e_pred", "e_link"}
  PROVE  tail = chain[Len(chain)] /\ tail \in heap
<1>1. \A u \in Threads : pc[u] # "e_tail"
  BY OneInside DEF EnqHeld
<1>2. Len(chain) \in 1 .. Len(chain)
  BY DEF IInv, ChainShape, TypeOK
<1> QED
  BY <1>1, <1>2 DEF IInv, TailIsLast, ChainShape

LEMMA IInvImplies == IInv => CapacityRespected /\ NoUseAfterFree /\ NoLostWakeup
<1> SUFFICES ASSUME IInv PROVE CapacityRespected /\ NoUseAfterFree
  BY DEF IInv
<1>1. CapacityRespected
  BY SizeSeenByEnq DEF IInv, CapacityRespected, EnqSeesNoNegativeSize
<1>2. Len(chain) \in Nat /\ 1 \in 1 .. Len(chain)
  BY DEF IInv, ChainShape, TypeOK
<1>3. ASSUME NEW t \in Threads, pc[t] = "d_take"
      PROVE  {head, next[head]} \subseteq heap
  <2>1. Len(chain) >= 2
    BY <1>3 DEF IInv, TestsHold
  <2>2. 2 \in 1 .. Len(chain) /\ Len(chain) # 1 /\ 1 + 1 = 2
    BY <1>2, <2>1, Lengths
  <2>3. next[chain[1]] = chain[2]
    BY <1>2, <2>2 DEF IInv, ChainShape
  <2> QED
    BY <1>2, <2>2, <2>3 DEF IInv, ChainShape
<1>4. head \in heap
  BY <1>2 DEF IInv, ChainShape
<1> QED
  BY <1>1, <1>3, <1>4, TailInHeap DEF NoUseAfterFree

(***************************************************************************)
(* The steps.  Most of them leave the memory alone.                        *)
(***************************************************************************)

\* A step that leaves the memory alone keeps what IInv says of the memory if it
\* neither starts nor ends a link, a tail assignment or a take.
LEMMA MemoryUntouched ==
  ASSUME IInv, UNCHANGED memory,
         \A u \in Threads : /\ pc'[u] = "e_tail" <=> pc[u] = "e_tail"
                            /\ pc'[u] = "e_size" <=> pc[u] = "e_size"
                            /\ pc'[u] = "d_size" <=> pc[u] = "d_size"
                            /\ pc[u] = "e_tail" => new_node'[u] = new_node[u],
         TypeOK', ArgOK', MutualExclusion', TestsHold', NoLostWakeup'
  PROVE  IInv'
<1>1. ChainShape' /\ WithinCapacity'
  BY DEF IInv, ChainShape, WithinCapacity, memory
<1>2. TailIsLast'
  BY DEF IInv, TailIsLast, memory
<1>3. (Linking' <=> Linking) /\ (Taking' <=> Taking)
  BY DEF Linking, Taking
<1>4. SizeIsLength'
  BY <1>3 DEF IInv, SizeIsLength, memory
<1> QED
  BY <1>1, <1>2, <1>4 DEF IInv

LEMMA BeginStep ==
  ASSUME IInv, NEW t \in Threads, Begin(t)
  PROVE  IInv'
<1>1. /\ pc[t] = "idle" /\ pc' \in {[pc EXCEPT ![t] = "e_lock"],
                                   [pc EXCEPT ![t] = "d_lock"]}
      /\ UNCHANGED <<memory, mutexes, new_node, must_wake_others>>
  BY DEF Begin, EnqBegin, DeqBegin, Goto, locals
<1>2. TypeOK'
  BY <1>1 DEF IInv, TypeOK, Begin, EnqBegin, DeqBegin, memory, mutexes, locals,
              EnqPcs, DeqPcs
<1>3. ArgOK'
  BY DEF IInv, ArgOK, TypeOK, Begin, EnqBegin, DeqBegin, Goto, locals, EnqPcs, EnqHeld
<1>4. MutualExclusion'
  BY <1>1 DEF IInv, TypeOK, MutualExclusion, mutexes, EnqHeld, DeqHeld
<1>5. TestsHold' /\ NoLostWakeup'
  BY <1>1 DEF IInv, TypeOK, TestsHold, NoLostWakeup, memory
<1> QED
  BY <1>1, <1>2, <1>3, <1>4, <1>5, MemoryUntouched DEF IInv, TypeOK

LEMMA LockStep ==
  ASSUME IInv, NEW t \in Threads, EnqLock(t) \/ DeqLock(t)
  PROVE  IInv'
<1>1. UNCHANGED <<memory, locals>>
  BY DEF EnqLock, DeqLock
<1>2. TypeOK' /\ ArgOK'
  BY <1>1 DEF IInv, TypeOK, ArgOK, EnqLock, DeqLock, Goto, memory, locals, EnqPcs,
              DeqPcs, EnqHeld, DeqHeld
<1>3. MutualExclusion'
  BY NobodyAssumption
  DEF IInv, TypeOK, MutualExclusion, EnqLock, DeqLock, Goto, EnqHeld, DeqHeld
<1>4. TestsHold' /\ NoLostWakeup'
  BY <1>1 DEF IInv, TypeOK, TestsHold, NoLostWakeup, EnqLock, DeqLock, Goto, memory
<1>5. \A u \in Threads : /\ pc'[u] = "e_tail" <=> pc[u] = "e_tail"
                         /\ pc'[u] = "e_size" <=> pc[u] = "e_size"
                         /\ pc'[u] = "d_size" <=> pc[u] = "d_size"
  BY DEF IInv, TypeOK, EnqLock, DeqLock, Goto
<1> QED
  BY <1>1, <1>2, <1>3, <1>4, <1>5, MemoryUntouched DEF locals

\* A test under the mutex: it finds room only if there is, and makes a thread
\* sleep only if the queue is full.
LEMMA EnqTestStep ==
  ASSUME IInv, NEW t \in Threads, EnqCheck(t) \/ EnqPred(t)
  PROVE  IInv'
<1>1. /\ pc[t] \in {"e_check", "e_pred"}
      /\ pc' \in {[pc EXCEPT ![t] = "e_pred"], [pc EXCEPT ![t] = "e_link"],
                  [pc EXCEPT ![t] = "e_sleep"]}
      /\ pc'[t] = "e_link" => size < Capacity
      /\ pc'[t] = "e_sleep" => ~(size < Capacity)
      /\ UNCHANGED <<memory, mutexes, locals>>
  BY SizeSeenByEnq, CapacityAssumption DEF IInv, TypeOK, EnqCheck, EnqPred, Goto, Full
<1>2. TypeOK' /\ ArgOK'
  BY <1>1 DEF IInv, TypeOK, ArgOK, memory, mutexes, locals, EnqPcs, EnqHeld
<1>3. MutualExclusion'
  BY <1>1 DEF IInv, TypeOK, MutualExclusion, mutexes, EnqHeld, DeqHeld
<1>4. TestsHold' /\ NoLostWakeup'
  BY <1>1 DEF IInv, TypeOK, TestsHold, NoLostWakeup, memory
<1>5. \A u \in Threads : /\ pc'[u] = "e_tail" <=> pc[u] = "e_tail"
                         /\ pc'[u] = "e_size" <=> pc[u] = "e_size"
                         /\ pc'[u] = "d_size" <=> pc[u] = "d_size"
  BY <1>1 DEF IInv, TypeOK
<1> QED
  BY <1>1, <1>2, <1>3, <1>4, <1>5, MemoryUntouched DEF locals

\* A test under the other mutex: it finds a value only if there is one.
LEMMA DeqTestStep ==
  ASSUME IInv, NEW t \in Threads, DeqCheck(t) \/ DeqPred(t)
  PROVE  IInv'
<1>1. /\ pc[t] \in {"d_check", "d_pred"}
      /\ pc' \in {[pc EXCEPT ![t] = "d_pred"], [pc EXCEPT ![t] = "d_take"],
                  [pc EXCEPT ![t] = "d_sleep"]}
      /\ pc'[t] = "d_sleep" => ~(size > 0)
      /\ UNCHANGED <<memory, mutexes, locals>>
  BY DEF IInv, TypeOK, DeqCheck, DeqPred, Goto
<1>2. pc'[t] = "d_take" => Len(chain) >= 2
  <2>1. Len(chain) \in Nat /\ Len(chain) >= 1
    BY DEF IInv, TypeOK, ChainShape
  <2>2. CASE DeqCheck(t) /\ next[head] # Null
    <3>1. 1 \in 1 .. Len(chain)
      BY <2>1
    <3>2. Len(chain) # 1
      BY <2>2, <3>1 DEF IInv, ChainShape
    <3> QED
      BY <2>1, <3>2, Lengths
  <2>3. CASE DeqPred(t) /\ size > 0
    BY <1>1, <2>1, <2>3, SizeSeenByDeq
  <2> QED
    BY <1>1, <2>2, <2>3 DEF IInv, TypeOK, DeqCheck, DeqPred, Goto
<1>3. TypeOK' /\ ArgOK'
  BY <1>1 DEF IInv, TypeOK, ArgOK, memory, mutexes, locals, EnqPcs, DeqPcs, EnqHeld,
              DeqHeld
<1>4. MutualExclusion'
  BY <1>1 DEF IInv, TypeOK, MutualExclusion, mutexes, EnqHeld, DeqHeld
<1>5. TestsHold' /\ NoLostWakeup'
  BY <1>1, <1>2 DEF IInv, TypeOK, TestsHold, NoLostWakeup, memory
<1>6. \A u \in Threads : /\ pc'[u] = "e_tail" <=> pc[u] = "e_tail"
                         /\ pc'[u] = "e_size" <=> pc[u] = "e_size"
                         /\ pc'[u] = "d_size" <=> pc[u] = "d_size"
  BY <1>1 DEF IInv, TypeOK
<1> QED
  BY <1>1, <1>3, <1>4, <1>5, <1>6, MemoryUntouched DEF locals

LEMMA SleepStep ==
  ASSUME IInv, NEW t \in Threads, EnqSleep(t) \/ DeqSleep(t)
  PROVE  IInv'
<1>1. UNCHANGED <<memory, locals>>
  BY DEF EnqSleep, DeqSleep
<1>2. TypeOK' /\ ArgOK'
  BY <1>1 DEF IInv, TypeOK, ArgOK, EnqSleep, DeqSleep, Goto, memory, locals, EnqPcs,
              DeqPcs, EnqHeld, DeqHeld
<1>3. MutualExclusion'
  BY NobodyAssumption
  DEF IInv, TypeOK, MutualExclusion, EnqSleep, DeqSleep, Goto, EnqHeld, DeqHeld
<1>4. TestsHold' /\ NoLostWakeup'
  BY <1>1 DEF IInv, TypeOK, TestsHold, NoLostWakeup, EnqSleep, DeqSleep, Goto, memory
<1>5. \A u \in Threads : /\ pc'[u] = "e_tail" <=> pc[u] = "e_tail"
                         /\ pc'[u] = "e_size" <=> pc[u] = "e_size"
                         /\ pc'[u] = "d_size" <=> pc[u] = "d_size"
  BY DEF IInv, TypeOK, EnqSleep, DeqSleep, Goto
<1> QED
  BY <1>1, <1>2, <1>3, <1>4, <1>5, MemoryUntouched DEF locals

LEMMA SpuriousStep ==
  ASSUME IInv, NEW t \in Threads, SpuriousWakeup(t)
  PROVE  IInv'
<1>1. /\ \/ pc[t] = "e_wait" /\ pc' = [pc EXCEPT ![t] = "e_relock"]
         \/ pc[t] = "d_wait" /\ pc' = [pc EXCEPT ![t] = "d_relock"]
      /\ UNCHANGED <<memory, mutexes, locals>>
  BY DEF SpuriousWakeup, EnqSpuriousWakeup, DeqSpuriousWakeup, Goto
<1>2. TypeOK' /\ ArgOK'
  BY <1>1 DEF IInv, TypeOK, ArgOK, memory, mutexes, locals, EnqPcs, DeqPcs, EnqHeld,
              DeqHeld
<1>3. MutualExclusion'
  BY <1>1 DEF IInv, TypeOK, MutualExclusion, mutexes, EnqHeld, DeqHeld
<1>4. TestsHold' /\ NoLostWakeup'
  BY <1>1 DEF IInv, TypeOK, TestsHold, NoLostWakeup, memory
<1>5. \A u \in Threads : /\ pc'[u] = "e_tail" <=> pc[u] = "e_tail"
                         /\ pc'[u] = "e_size" <=> pc[u] = "e_size"
                         /\ pc'[u] = "d_size" <=> pc[u] = "d_size"
  BY <1>1 DEF IInv, TypeOK
<1> QED
  BY <1>1, <1>2, <1>3, <1>4, <1>5, MemoryUntouched DEF locals

\* Nobody is between its test and its sleep when the waiters are woken up, as
\* the mutex they test under is free: whoever has tested waits already.
LEMMA NotifyStep ==
  ASSUME IInv, NEW t \in Threads, EnqNotify(t) \/ DeqNotify(t)
  PROVE  IInv'
<1>1. UNCHANGED <<memory, mutexes>> /\ ClearLocals(t)
  BY DEF EnqNotify, DeqNotify
<1>2. pc \in [Threads -> {"idle"} \cup EnqPcs \cup DeqPcs]
  BY DEF IInv, TypeOK
<1>3. /\ pc[t] \in {"e_notify", "d_notify"} /\ pc'[t] = "idle"
      /\ \A u \in Threads \ {t} :
           \/ pc'[u] = pc[u]
           \/ pc[u] = "d_wait" /\ pc'[u] = "d_relock"
           \/ pc[u] = "e_wait" /\ pc'[u] = "e_relock"
      /\ pc' \in [Threads -> {"idle"} \cup EnqPcs \cup DeqPcs]
  BY <1>2 DEF EnqNotify, DeqNotify, EnqPcs, DeqPcs
<1>4. TypeOK'
  BY <1>1, <1>3 DEF IInv, TypeOK, ClearLocals, memory, mutexes
<1>5. ArgOK'
  BY <1>1, <1>3 DEF IInv, TypeOK, ArgOK, ClearLocals, EnqPcs, EnqHeld
<1>6. MutualExclusion'
  BY <1>1, <1>3 DEF IInv, MutualExclusion, mutexes, EnqHeld, DeqHeld
<1>7. TestsHold'
  BY <1>1, <1>3 DEF IInv, TestsHold, memory
<1>8. NoLostWakeup'
  <2>1. CASE EnqNotify(t)
    <3>1. \A u \in Threads : pc'[u] \notin {"d_sleep", "d_wait"}
      BY <1>2, <2>1, NobodyAssumption
      DEF EnqNotify, IInv, TypeOK, MutualExclusion, DeqHeld
    <3> QED
      BY <1>1, <1>2, <2>1, <3>1 DEF EnqNotify, IInv, NoLostWakeup, memory
  <2>2. CASE DeqNotify(t)
    <3>1. \A u \in Threads : pc'[u] \notin {"e_sleep", "e_wait"}
      BY <1>2, <2>2, NobodyAssumption
      DEF DeqNotify, IInv, TypeOK, MutualExclusion, EnqHeld
    <3> QED
      BY <1>1, <1>2, <2>2, <3>1 DEF DeqNotify, IInv, NoLostWakeup, memory
  <2> QED
    BY <2>1, <2>2
<1>9. \A u \in Threads : /\ pc'[u] = "e_tail" <=> pc[u] = "e_tail"
                         /\ pc'[u] = "e_size" <=> pc[u] = "e_size"
                         /\ pc'[u] = "d_size" <=> pc[u] = "d_size"
                         /\ pc[u] = "e_tail" => u # t
  BY <1>3
<1> QED
  BY <1>1, <1>4, <1>5, <1>6, <1>7, <1>8, <1>9, MemoryUntouched
  DEF ClearLocals, IInv, TypeOK

(***************************************************************************)
(* The steps that change the memory.                                       *)
(***************************************************************************)

LEMMA EnqLinkStep ==
  ASSUME IInv, NEW t \in Threads, EnqLink(t)
  PROVE  IInv'
<1>1. PICK n \in Nodes \ heap :
        /\ heap' = heap \cup {n}
        /\ value' = [value EXCEPT ![n] = val[t]]
        /\ next' = [next EXCEPT ![n] = Null, ![tail] = n]
        /\ new_node' = [new_node EXCEPT ![t] = n]
        /\ chain' = Append(chain, n)
  BY DEF EnqLink
<1>2. /\ pc[t] = "e_link" /\ pc' = [pc EXCEPT ![t] = "e_tail"]
      /\ UNCHANGED <<head, tail, size, mutexes, val, must_wake_others>>
  BY DEF EnqLink, Goto
<1>3. pc \in [Threads -> {"idle"} \cup EnqPcs \cup DeqPcs] /\ val[t] \in Values
  BY <1>2 DEF IInv, TypeOK, ArgOK, EnqPcs, EnqHeld
<1>4. /\ chain \in Seq(Nodes) /\ chain' \in Seq(Nodes)
      /\ Len(chain) \in Nat /\ Len(chain) >= 1 /\ Len(chain') = Len(chain) + 1
      /\ \A i \in 1 .. Len(chain) : chain'[i] = chain[i]
      /\ chain'[Len(chain) + 1] = n
  BY <1>1, AppendProperties DEF IInv, TypeOK, ChainShape
<1>5. /\ tail = chain[Len(chain)] /\ tail \in heap /\ tail # n /\ tail \in Nodes
      /\ heap \subseteq Nodes
  BY <1>2, TailInHeap DEF IInv, TypeOK
<1>6. /\ \A m \in Nodes : m # n => value'[m] = value[m]
      /\ value'[n] \in Values
      /\ \A m \in Nodes : m \notin {n, tail} => next'[m] = next[m]
      /\ next'[n] = Null /\ next'[tail] = n
  BY <1>1, <1>3, <1>5 DEF IInv, TypeOK
<1>7. TypeOK' /\ ArgOK'
  BY <1>1, <1>2, <1>3, <1>4, <1>5
  DEF IInv, TypeOK, ArgOK, mutexes, EnqPcs, DeqPcs, EnqHeld, DeqHeld
<1>8. MutualExclusion'
  BY <1>2, <1>3 DEF IInv, MutualExclusion, mutexes, EnqHeld, DeqHeld
<1>9. ChainShape'
  <2>1. \A i \in 1 .. Len(chain) : chain[i] \in heap /\ chain[i] \in Nodes
    BY <1>5 DEF IInv, ChainShape
  <2>2. 1 .. Len(chain') = (1 .. Len(chain)) \cup {Len(chain) + 1}
    BY <1>4
  <2>3. Len(chain') >= 1 /\ head' = chain'[1]
    BY <1>2, <1>4 DEF IInv, ChainShape
  <2>4. heap' = {chain'[i] : i \in 1 .. Len(chain')}
    BY <1>1, <1>4, <2>2 DEF IInv, ChainShape
  <2>5. \A i, j \in 1 .. Len(chain') : chain'[i] = chain'[j] => i = j
    BY <1>4, <2>1, <2>2 DEF IInv, ChainShape
  <2>6. ASSUME NEW i \in 1 .. Len(chain')
        PROVE  next'[chain'[i]] = IF i = Len(chain') THEN Null ELSE chain'[i + 1]
    <3>1. CASE i = Len(chain) + 1
      BY <3>1, <1>4, <1>6
    <3>2. CASE i = Len(chain)
      BY <3>2, <1>4, <1>5, <1>6
    <3>3. CASE i \in 1 .. Len(chain) /\ i # Len(chain)
      <4>1. i + 1 \in 1 .. Len(chain) /\ i # Len(chain')
        BY <3>3, <1>4
      <4>2. Len(chain) \in 1 .. Len(chain)
        BY <1>4
      <4>3. chain[i] # tail /\ chain[i] # n
        BY <3>3, <4>2, <1>5, <2>1 DEF IInv, ChainShape
      <4>4. next'[chain[i]] = chain[i + 1]
        BY <3>3, <4>3, <1>6, <2>1 DEF IInv, ChainShape
      <4> QED
        BY <3>3, <4>1, <4>4, <1>4
    <3> QED
      BY <2>2, <3>1, <3>2, <3>3
  <2>7. ASSUME NEW i \in 2 .. Len(chain')
        PROVE  value'[chain'[i]] \in Values
    <3>1. CASE i = Len(chain) + 1
      BY <3>1, <1>4, <1>6
    <3>2. CASE i \in 2 .. Len(chain)
      <4>1. i \in 1 .. Len(chain)
        BY <3>2, <1>4
      <4> QED
        BY <3>2, <4>1, <1>4, <1>6, <2>1 DEF IInv, ChainShape
    <3> QED
      BY <3>1, <3>2, <1>4
  <2> QED
    BY <2>3, <2>4, <2>5, <2>6, <2>7 DEF ChainShape
<1>10. TailIsLast'
  <2>1. \A u \in Threads : pc'[u] = "e_tail" <=> u = t
    BY <1>2, <1>3, OneInside DEF EnqHeld
  <2>2. new_node'[t] = n
    BY <1>1 DEF IInv, TypeOK
  <2> QED
    BY <2>1, <2>2, <1>4 DEF TailIsLast
<1>11. SizeIsLength' /\ WithinCapacity'
  <2>1. ~Linking /\ size \in Int /\ size >= Len(chain) - 1
    BY <1>2, SizeSeenByEnq
  <2>2. Linking' /\ (Taking' <=> Taking)
    BY <1>2, <1>3 DEF Linking, Taking
  <2>3. size < Capacity
    BY <1>2 DEF IInv, TestsHold
  <2>4. SizeIsLength'
    BY <1>2, <1>4, <2>1, <2>2 DEF IInv, SizeIsLength
  <2>5. WithinCapacity'
    BY <1>4, <2>1, <2>3, CapacityAssumption DEF WithinCapacity
  <2> QED
    BY <2>4, <2>5
<1>12. TestsHold' /\ NoLostWakeup'
  BY <1>2, <1>3, <1>4 DEF IInv, TestsHold, NoLostWakeup
<1> QED
  BY <1>7, <1>8, <1>9, <1>10, <1>11, <1>12 DEF IInv

LEMMA EnqTailStep ==
  ASSUME IInv, NEW t \in Threads, EnqTail(t)
  PROVE  IInv'
<1>1. /\ pc[t] = "e_tail" /\ pc' = [pc EXCEPT ![t] = "e_size"]
      /\ tail' = new_node[t]
      /\ UNCHANGED <<head, size, next, value, heap, chain, mutexes, locals>>
  BY DEF EnqTail, Goto
<1>2. /\ pc \in [Threads -> {"idle"} \cup EnqPcs \cup DeqPcs]
      /\ chain \in Seq(Nodes) /\ Len(chain) \in Nat /\ Len(chain) >= 1
      /\ new_node[t] = chain[Len(chain)]
  BY <1>1 DEF IInv, TypeOK, ChainShape, TailIsLast
<1>3. TypeOK' /\ ArgOK'
  <2>1. chain[Len(chain)] \in Nodes
    BY <1>2, ElementOfSeq
  <2> QED
    BY <1>1, <1>2, <2>1 DEF IInv, TypeOK, ArgOK, mutexes, locals, EnqPcs, EnqHeld
<1>4. MutualExclusion'
  BY <1>1, <1>2 DEF IInv, MutualExclusion, mutexes, EnqHeld, DeqHeld
<1>5. ChainShape' /\ WithinCapacity'
  BY <1>1 DEF IInv, ChainShape, WithinCapacity
<1>6. TailIsLast'
  <2>1. \A u \in Threads : pc'[u] # "e_tail"
    BY <1>1, <1>2, OneInside DEF EnqHeld
  <2> QED
    BY <1>1, <1>2, <2>1 DEF TailIsLast
<1>7. SizeIsLength'
  <2>1. Linking /\ Linking' /\ (Taking' <=> Taking)
    BY <1>1, <1>2 DEF Linking, Taking
  <2> QED
    BY <1>1, <2>1 DEF IInv, SizeIsLength
<1>8. TestsHold' /\ NoLostWakeup'
  BY <1>1, <1>2 DEF IInv, TestsHold, NoLostWakeup
<1> QED
  BY <1>3, <1>4, <1>5, <1>6, <1>7, <1>8 DEF IInv

\* The first value counted calls for a wakeup; while there are more, the call
\* is already on its way.
LEMMA EnqCountStep ==
  ASSUME IInv, NEW t \in Threads, EnqCount(t)
  PROVE  IInv'
<1>1. /\ pc[t] = "e_size" /\ size' = size + 1 /\ enq_mutex' = Nobody
      /\ UNCHANGED <<head, tail, next, value, heap, chain, deq_mutex>>
      /\ pc' = [pc EXCEPT ![t] = IF size = 0 THEN "e_notify" ELSE "idle"]
  BY DEF EnqCount, Goto
<1>2. /\ pc \in [Threads -> {"idle"} \cup EnqPcs \cup DeqPcs]
      /\ size \in Int /\ Len(chain) \in Nat
  BY DEF IInv, TypeOK
<1>3. /\ \A u \in Threads \ {t} : pc'[u] = pc[u] /\ pc[u] \notin EnqHeld
      /\ \A u \in Threads \ {t} : val'[u] = val[u]
      /\ pc'[t] \in {"idle", "e_notify"}
      /\ pc'[t] = "e_notify" => val' = val
  <2>1. \A u \in Threads \ {t} : pc[u] \notin EnqHeld
    BY <1>1, OneInside DEF EnqHeld
  <2> QED
    BY <1>1, <1>2, <2>1 DEF EnqCount, ClearLocals, IInv, TypeOK
<1>4. TypeOK'
  <2>1. pc' \in [Threads -> {"idle"} \cup EnqPcs \cup DeqPcs]
    BY <1>1, <1>2 DEF EnqPcs
  <2>2. size' \in Int
    BY <1>1, <1>2
  <2>3. /\ new_node' \in [Threads -> Nodes \cup {Null}]
        /\ val' \in [Threads -> Values \cup {NoValue}]
        /\ must_wake_others' \in [Threads -> BOOLEAN]
    BY DEF IInv, TypeOK, EnqCount, ClearLocals
  <2> QED
    BY <1>1, <2>1, <2>2, <2>3 DEF IInv, TypeOK
<1>5. ArgOK'
  BY <1>1, <1>3 DEF IInv, ArgOK, EnqPcs, EnqHeld
<1>6. MutualExclusion'
  BY <1>1, <1>2, <1>3, NobodyAssumption DEF IInv, MutualExclusion, EnqHeld, DeqHeld
<1>7. ChainShape' /\ WithinCapacity'
  BY <1>1 DEF IInv, ChainShape, WithinCapacity
<1>8. TailIsLast'
  BY <1>1, <1>3 DEF IInv, TailIsLast, EnqHeld
<1>9. SizeIsLength'
  <2>1. Linking /\ ~Linking' /\ (Taking' <=> Taking)
    BY <1>1, <1>3 DEF Linking, Taking, EnqHeld
  <2> QED
    BY <1>1, <1>2, <2>1 DEF IInv, SizeIsLength
<1>10. TestsHold'
  BY <1>1, <1>3 DEF IInv, TestsHold, EnqHeld
<1>11. NoLostWakeup'
  <2>1. CASE size = 0
    <3>1. pc'[t] = "e_notify" /\ size' = 1
      BY <1>1, <1>2, <2>1
    <3>2. size' < Capacity => size < Capacity
      BY <2>1, <3>1, CapacityAssumption
    <3> QED
      BY <1>1, <1>3, <3>1, <3>2 DEF IInv, NoLostWakeup
  <2>2. CASE size # 0
    <3>1. (size' > 0 => size > 0) /\ (size' < Capacity => size < Capacity)
      BY <1>1, <1>2, <2>2, CapacityAssumption
    <3> QED
      BY <1>1, <1>3, <3>1 DEF IInv, NoLostWakeup
  <2> QED
    BY <2>1, <2>2
<1> QED
  BY <1>4, <1>5, <1>6, <1>7, <1>8, <1>9, <1>10, <1>11 DEF IInv

LEMMA DeqTakeStep ==
  ASSUME IInv, NEW t \in Threads, DeqTake(t)
  PROVE  IInv'
<1>1. /\ pc[t] = "d_take" /\ pc' = [pc EXCEPT ![t] = "d_size"]
      /\ val' = [val EXCEPT ![t] = value[next[head]]]
      /\ value' = [value EXCEPT ![next[head]] = NoValue]
      /\ heap' = heap \ {head} /\ head' = next[head] /\ chain' = Tail(chain)
      /\ UNCHANGED <<tail, size, next, mutexes, new_node, must_wake_others>>
  BY DEF DeqTake, Goto
<1>2. /\ pc \in [Threads -> {"idle"} \cup EnqPcs \cup DeqPcs]
      /\ chain \in Seq(Nodes) /\ Len(chain) \in Nat /\ Len(chain) >= 2
      /\ chain # <<>>
  BY <1>1 DEF IInv, TypeOK, TestsHold
<1>3. /\ chain' \in Seq(Nodes) /\ Len(chain') = Len(chain) - 1
      /\ \A i \in 1 .. Len(chain') : chain'[i] = chain[i + 1]
  BY <1>1, <1>2, HeadTailProperties
<1>4. /\ 1 \in 1 .. Len(chain) /\ 2 \in 1 .. Len(chain) /\ 2 \in 2 .. Len(chain)
      /\ Len(chain) # 1 /\ 1 + 1 = 2
      /\ \A i \in 1 .. Len(chain') :
           i + 1 \in 1 .. Len(chain) /\ i + 1 # 1 /\ i + 1 \in 2 .. Len(chain)
  BY <1>2, <1>3
<1>5. next[head] = chain[2] /\ chain[2] \in Nodes /\ value[chain[2]] \in Values
  BY <1>2, <1>4 DEF IInv, ChainShape
<1>6. TypeOK'
  <2>1. pc' \in [Threads -> {"idle"} \cup EnqPcs \cup DeqPcs]
    BY <1>1, <1>2 DEF DeqPcs, DeqHeld
  <2> QED
    BY <1>1, <1>3, <1>5, <2>1 DEF IInv, TypeOK, mutexes
<1>7. ArgOK'
  BY <1>1, <1>2 DEF IInv, TypeOK, ArgOK, EnqPcs, EnqHeld
<1>8. MutualExclusion'
  BY <1>1, <1>2 DEF IInv, MutualExclusion, mutexes, EnqHeld, DeqHeld
<1>9. ChainShape'
  <2>1. Len(chain') >= 1 /\ head' = chain'[1]
    <3>1. 1 \in 1 .. Len(chain')
      BY <1>2, <1>3
    <3> QED
      BY <1>1, <1>2, <1>3, <1>4, <1>5, <3>1
  <2>2. heap' = {chain'[i] : i \in 1 .. Len(chain')}
    <3>1. \A i \in 1 .. Len(chain) : i # 1 => i - 1 \in 1 .. Len(chain')
                                           /\ (i - 1) + 1 = i
      BY <1>2, <1>3
    <3>2. \A i \in 1 .. Len(chain) : i # 1 => chain[i] = chain'[i - 1]
      BY <1>3, <3>1
    <3>3. \A i \in 1 .. Len(chain) : chain[i] = head => i = 1
      BY <1>4 DEF IInv, ChainShape
    <3>4. \A n \in heap' : \E i \in 1 .. Len(chain') : n = chain'[i]
      <4> TAKE n \in heap'
      <4>1. PICK i \in 1 .. Len(chain) : n = chain[i]
        BY <1>1 DEF IInv, ChainShape
      <4>2. i # 1
        BY <1>1, <4>1 DEF IInv, ChainShape
      <4> QED
        BY <4>1, <4>2, <3>1, <3>2
    <3>5. \A i \in 1 .. Len(chain') : chain'[i] \in heap'
      BY <1>1, <1>3, <1>4, <3>3 DEF IInv, ChainShape
    <3> QED
      BY <3>4, <3>5
  <2>3. \A i, j \in 1 .. Len(chain') : chain'[i] = chain'[j] => i = j
    <3> TAKE i \in 1 .. Len(chain'), j \in 1 .. Len(chain')
    <3>1. chain[i + 1] = chain[j + 1] => i + 1 = j + 1
      BY <1>4 DEF IInv, ChainShape
    <3> QED
      BY <1>3, <3>1
  <2>4. ASSUME NEW i \in 1 .. Len(chain')
        PROVE  next'[chain'[i]] = IF i = Len(chain') THEN Null ELSE chain'[i + 1]
    <3>1. next[chain[i + 1]] = IF i + 1 = Len(chain) THEN Null
                                                  ELSE chain[(i + 1) + 1]
      BY <1>4 DEF IInv, ChainShape
    <3>2. i + 1 = Len(chain) <=> i = Len(chain')
      BY <1>2, <1>3
    <3>3. i # Len(chain') => i + 1 \in 1 .. Len(chain')
      BY <1>2, <1>3
    <3> QED
      BY <1>1, <1>3, <3>1, <3>2, <3>3
  <2>5. ASSUME NEW i \in 2 .. Len(chain')
        PROVE  value'[chain'[i]] \in Values
    <3>1. /\ i \in 1 .. Len(chain') /\ i + 1 \in 2 .. Len(chain)
          /\ i + 1 \in 1 .. Len(chain) /\ i + 1 # 2
      BY <1>2, <1>3
    <3>2. chain'[i] = chain[i + 1] /\ chain[i + 1] # chain[2]
      BY <1>3, <1>4, <3>1 DEF IInv, ChainShape
    <3>3. chain[i + 1] \in Nodes
      BY <1>2, <3>1, ElementOfSeq
    <3> QED
      BY <1>1, <1>5, <3>1, <3>2, <3>3 DEF IInv, TypeOK, ChainShape
  <2> QED
    BY <2>1, <2>2, <2>3, <2>4, <2>5 DEF ChainShape
<1>10. TailIsLast'
  <2>1. chain'[Len(chain')] = chain[Len(chain)]
    <3>1. Len(chain') \in 1 .. Len(chain') /\ Len(chain') + 1 = Len(chain)
      BY <1>2, <1>3
    <3> QED
      BY <1>3, <3>1
  <2>2. \A u \in Threads : pc'[u] = "e_tail" <=> pc[u] = "e_tail"
    BY <1>1, <1>2
  <2> QED
    BY <1>1, <2>1, <2>2 DEF IInv, TailIsLast
<1>11. SizeIsLength' /\ WithinCapacity'
  <2>1. ~Taking
    BY <1>1, SizeSeenByDeq
  <2>2. Taking' /\ (Linking' <=> Linking)
    BY <1>1, <1>2 DEF Taking, Linking
  <2>3. size \in Int
    BY DEF IInv, TypeOK
  <2>4. SizeIsLength'
    <3>1. size' = size /\ Len(chain') = Len(chain) - 1
      BY <1>1, <1>3
    <3>2. CASE Linking
      BY <1>2, <2>1, <2>2, <2>3, <3>1, <3>2 DEF IInv, SizeIsLength
    <3>3. CASE ~Linking
      BY <1>2, <2>1, <2>2, <2>3, <3>1, <3>3 DEF IInv, SizeIsLength
    <3> QED
      BY <3>2, <3>3
  <2>5. WithinCapacity'
    BY <1>2, <1>3, CapacityAssumption DEF IInv, WithinCapacity
  <2> QED
    BY <2>4, <2>5
<1>12. TestsHold'
  <2>1. \A u \in Threads : pc'[u] # "d_take"
    BY <1>1, <1>2, OneInside DEF DeqHeld
  <2> QED
    BY <1>1, <1>2, <2>1 DEF IInv, TestsHold
<1>13. NoLostWakeup'
  BY <1>1, <1>2 DEF IInv, NoLostWakeup
<1> QED
  BY <1>6, <1>7, <1>8, <1>9, <1>10, <1>11, <1>12, <1>13 DEF IInv

\* Leaving the capacity calls for a wakeup.
LEMMA DeqCountStep ==
  ASSUME IInv, NEW t \in Threads, DeqCount(t)
  PROVE  IInv'
<1>1. /\ pc[t] = "d_size" /\ size' = size - 1 /\ deq_mutex' = Nobody
      /\ UNCHANGED <<head, tail, next, value, heap, chain, enq_mutex>>
      /\ pc' = [pc EXCEPT ![t] = IF size = Capacity THEN "d_notify" ELSE "idle"]
  BY DEF DeqCount, Goto
<1>2. /\ pc \in [Threads -> {"idle"} \cup EnqPcs \cup DeqPcs]
      /\ size \in Int /\ Len(chain) \in Nat
  BY DEF IInv, TypeOK
<1>3. /\ \A u \in Threads \ {t} : pc'[u] = pc[u] /\ pc[u] \notin DeqHeld
      /\ \A u \in Threads \ {t} : val'[u] = val[u] /\ new_node'[u] = new_node[u]
      /\ pc'[t] \in {"idle", "d_notify"}
  <2>1. \A u \in Threads \ {t} : pc[u] \notin DeqHeld
    BY <1>1, OneInside DEF DeqHeld
  <2> QED
    BY <1>1, <1>2, <2>1 DEF DeqCount, ClearLocals, IInv, TypeOK
<1>4. TypeOK'
  <2>1. pc' \in [Threads -> {"idle"} \cup EnqPcs \cup DeqPcs]
    BY <1>1, <1>2 DEF DeqPcs
  <2>2. size' \in Int
    BY <1>1, <1>2
  <2>3. /\ new_node' \in [Threads -> Nodes \cup {Null}]
        /\ val' \in [Threads -> Values \cup {NoValue}]
        /\ must_wake_others' \in [Threads -> BOOLEAN]
    BY DEF IInv, TypeOK, DeqCount, ClearLocals
  <2> QED
    BY <1>1, <2>1, <2>2, <2>3 DEF IInv, TypeOK
<1>5. ArgOK'
  BY <1>1, <1>3 DEF IInv, ArgOK, EnqPcs, EnqHeld
<1>6. MutualExclusion'
  BY <1>1, <1>2, <1>3, NobodyAssumption DEF IInv, MutualExclusion, EnqHeld, DeqHeld
<1>7. ChainShape' /\ WithinCapacity'
  BY <1>1 DEF IInv, ChainShape, WithinCapacity
<1>8. TailIsLast'
  BY <1>1, <1>3 DEF IInv, TailIsLast
<1>9. SizeIsLength'
  <2>1. Taking /\ ~Taking' /\ (Linking' <=> Linking)
    BY <1>1, <1>3 DEF Linking, Taking, DeqHeld
  <2> QED
    BY <1>1, <1>2, <2>1 DEF IInv, SizeIsLength
<1>10. TestsHold'
  <2>1. size < Capacity => size' < Capacity
    BY <1>1, <1>2, CapacityAssumption
  <2> QED
    BY <1>1, <1>3, <2>1 DEF IInv, TestsHold, DeqHeld
<1>11. NoLostWakeup'
  <2>1. size' > 0 => size > 0
    BY <1>1, <1>2
  <2>2. CASE size = Capacity
    <3>1. pc'[t] = "d_notify"
      BY <1>1, <1>2, <2>2
    <3> QED
      BY <1>1, <1>3, <2>1, <3>1 DEF IInv, NoLostWakeup
  <2>3. CASE size # Capacity
    <3>1. size' < Capacity => size < Capacity
      BY <1>1, <1>2, <2>3, CapacityAssumption
    <3> QED
      BY <1>1, <1>3, <2>1, <3>1 DEF IInv, NoLostWakeup
  <2> QED
    BY <2>2, <2>3
<1> QED
  BY <1>4, <1>5, <1>6, <1>7, <1>8, <1>9, <1>10, <1>11 DEF IInv

LEMMA NextStep == IInv /\ [Next]_vars => IInv'
<1> SUFFICES ASSUME IInv, [Next]_vars PROVE IInv'
  OBVIOUS
<1>1. CASE UNCHANGED vars
  <2>1. TypeOK' /\ ArgOK' /\ MutualExclusion' /\ TestsHold' /\ NoLostWakeup'
    BY <1>1 DEF vars, memory, mutexes, locals, IInv, TypeOK, ArgOK,
                MutualExclusion, TestsHold, NoLostWakeup
  <2> QED
    BY <1>1, <2>1, MemoryUntouched DEF vars, locals
<1>2. ASSUME NEW t \in Threads, Begin(t) \/ Step(t) \/ SpuriousWakeup(t)
      PROVE  IInv'
  BY <1>2, BeginStep, LockStep, EnqTestStep, DeqTestStep, SleepStep, SpuriousStep,
     NotifyStep, EnqLinkStep, EnqTailStep, EnqCountStep, DeqTakeStep, DeqCountStep
  DEF Step, EnqStep, DeqStep
<1> QED
  BY <1>1, <1>2 DEF Next

(***************************************************************************)
(* The theorems.                                                           *)
(***************************************************************************)

\* IInv is inductive: the two locks, the list and the counter agree in every
\* state, up to the one value that each end may be about to count.
THEOREM IInvHolds == Spec => []IInv
BY Initial, NextStep, PTL DEF Spec

\* There are never more values than the capacity, and no enq ever takes a
\* size below zero for a full queue.
THEOREM CapacityRespectedHolds == Spec => []CapacityRespected
BY IInvHolds, IInvImplies, PTL

\* enq and deq never touch a node that a deq has freed.
THEOREM NoUseAfterFreeHolds == Spec => []NoUseAfterFree
BY IInvHolds, IInvImplies, PTL

\* A thread sleeps only while its condition is false or a wakeup is under way,
\* although the condition is changed under the other mutex.
THEOREM NoLostWakeupHolds == Spec => []NoLostWakeup
BY IInvHolds, IInvImplies, PTL

----------------------------------------------------------------------------
(* The abstract queue *)

\* What the definition of contents comes to.
ContentsOK ==
  /\ contents \in Seq(Values)
  /\ Len(contents) = Len(chain) - 1 /\ Len(chain) - 1 \in Nat
  /\ \A k \in 1 .. Len(chain) - 1 : contents[k] = value[chain[k + 1]]

LEMMA ContentsHold == IInv => ContentsOK
<1> SUFFICES ASSUME IInv PROVE ContentsOK
  OBVIOUS
<1>1. Len(chain) - 1 \in Nat
  BY DEF IInv, TypeOK, ChainShape
<1>2. \A k \in 1 .. Len(chain) - 1 : k + 1 \in 2 .. Len(chain)
  BY <1>1
<1>3. \A k \in 1 .. Len(chain) - 1 : value[chain[k + 1]] \in Values
  BY <1>2 DEF IInv, ChainShape
<1>4. contents \in Seq(Values) /\ Len(contents) = Len(chain) - 1
  BY <1>1, <1>3 DEF contents
<1> QED
  BY <1>1, <1>4 DEF ContentsOK, contents

LEMMA SameContents == UNCHANGED <<chain, value>> => contents' = contents
BY DEF contents

\* The chain has grown by a node n.
LEMMA AppendContents ==
  ASSUME ContentsOK, ContentsOK', NEW n, NEW v \in Values,
         chain \in Seq(Nodes), Len(chain') = Len(chain) + 1,
         \A i \in 1 .. Len(chain) : chain'[i] = chain[i],
         chain'[Len(chain) + 1] = n,
         \A i \in 1 .. Len(chain) : value'[chain[i]] = value[chain[i]],
         value'[n] = v
  PROVE  contents' = Append(contents, v)
<1> DEFINE more == Append(contents, v)
<1>1. /\ more \in Seq(Values) /\ Len(more) = Len(contents) + 1
      /\ \A k \in 1 .. Len(contents) : more[k] = contents[k]
      /\ more[Len(contents) + 1] = v
  BY AppendProperties DEF ContentsOK
<1>2. Len(contents') = Len(more) /\ Len(contents) \in Nat
      /\ Len(contents) + 1 = Len(chain) /\ Len(chain) \in Nat
  BY <1>1 DEF ContentsOK
<1>3. ASSUME NEW k \in 1 .. Len(contents')
      PROVE  contents'[k] = more[k]
  <2>1. contents'[k] = value'[chain'[k + 1]]
    BY DEF ContentsOK
  <2>2. CASE k \in 1 .. Len(contents)
    <3>1. k + 1 \in 1 .. Len(chain) /\ k \in 1 .. Len(chain) - 1
      BY <1>2, <2>2
    <3> QED
      BY <1>1, <2>1, <2>2, <3>1 DEF ContentsOK
  <2>3. CASE k = Len(contents) + 1
    BY <1>1, <1>2, <2>1, <2>3
  <2>4. k \in 1 .. Len(contents) \/ k = Len(contents) + 1
    BY <1>1, <1>2
  <2> QED
    BY <2>2, <2>3, <2>4
<1>4. contents' \in Seq(Values)
  BY DEF ContentsOK
<1> HIDE DEF more
<1>5. contents' = more
  BY <1>1, <1>2, <1>3, <1>4, SeqEqual
<1> QED
  BY <1>5 DEF more

\* The chain has lost its first node.
LEMMA TailContents ==
  ASSUME ContentsOK, ContentsOK', Len(chain) >= 2, Len(chain') = Len(chain) - 1,
         \A i \in 1 .. Len(chain') : chain'[i] = chain[i + 1],
         \A i \in 2 .. Len(chain') : value'[chain'[i]] = value[chain'[i]]
  PROVE  /\ contents # <<>> /\ Head(contents) = value[chain[2]]
         /\ contents' = Tail(contents)
<1>1. Len(contents) \in Nat /\ Len(contents) >= 1 /\ Len(contents) + 1 = Len(chain)
      /\ Len(contents') + 1 = Len(contents) /\ Len(contents') \in Nat
  BY DEF ContentsOK
<1>2. contents # <<>> /\ Head(contents) = contents[1]
  BY <1>1, HeadTailProperties DEF ContentsOK
<1>3. contents[1] = value[chain[2]]
  <2>1. 1 \in 1 .. Len(chain) - 1 /\ 1 + 1 = 2
    BY <1>1
  <2> QED
    BY <2>1 DEF ContentsOK
<1> DEFINE rest == Tail(contents)
<1>4. /\ rest \in Seq(Values) /\ Len(rest) = Len(contents) - 1
      /\ \A k \in 1 .. Len(rest) : rest[k] = contents[k + 1]
  BY <1>2, HeadTailProperties DEF ContentsOK
<1>5. ASSUME NEW k \in 1 .. Len(contents')
      PROVE  contents'[k] = rest[k]
  <2>1. /\ k + 1 \in 2 .. Len(chain') /\ k + 1 \in 1 .. Len(chain')
        /\ k + 1 \in 1 .. Len(chain) - 1 /\ k \in 1 .. Len(rest)
        /\ k \in 1 .. Len(chain') - 1
    BY <1>1, <1>4
  <2>2. contents'[k] = value[chain'[k + 1]]
    BY <2>1 DEF ContentsOK
  <2> QED
    BY <1>4, <2>1, <2>2 DEF ContentsOK
<1>6. contents' \in Seq(Values) /\ Len(contents') = Len(rest)
  BY <1>1, <1>4 DEF ContentsOK
<1> HIDE DEF rest
<1>7. contents' = rest
  BY <1>4, <1>5, <1>6, SeqEqual
<1> QED
  BY <1>2, <1>3, <1>7 DEF rest

----------------------------------------------------------------------------
(* The steps *)

\* What the definition of callPhase comes to.
PhasesOK ==
  /\ callPhase = [t \in Threads |-> callPhase[t]]
  /\ \A t \in Threads :
       /\ pc[t] = "idle" => callPhase[t] = "idle"
       /\ pc[t] \in {"e_tail", "e_size", "e_notify"} => callPhase[t] = "enqDone"
       /\ pc[t] \in {"d_size", "d_notify"} => callPhase[t] = "deqDone"
       /\ pc[t] \in DeqPcs \ {"d_size", "d_notify"} => callPhase[t] = "deq"
       /\ pc[t] \in EnqPcs \ {"e_tail", "e_size", "e_notify"} =>
            callPhase[t] = "enq"

LEMMA PhasesHold == PhasesOK
<1>1. callPhase = [t \in Threads |-> callPhase[t]]
  BY DEF callPhase
<1>2. ASSUME NEW t \in Threads
      PROVE  /\ pc[t] = "idle" => callPhase[t] = "idle"
             /\ pc[t] \in {"e_tail", "e_size", "e_notify"} =>
                  callPhase[t] = "enqDone"
             /\ pc[t] \in {"d_size", "d_notify"} => callPhase[t] = "deqDone"
             /\ pc[t] \in DeqPcs \ {"d_size", "d_notify"} => callPhase[t] = "deq"
             /\ pc[t] \in EnqPcs \ {"e_tail", "e_size", "e_notify"} =>
                  callPhase[t] = "enq"
  BY DEF callPhase, EnqPcs, DeqPcs, EnqHeld, DeqHeld
<1> QED
  BY <1>1, <1>2 DEF PhasesOK

\* A step that only moves the call of t on.
LEMMA PhaseMoves ==
  ASSUME PhasesOK, PhasesOK', NEW t \in Threads,
         \A u \in Threads \ {t} : callPhase'[u] = callPhase[u]
  PROVE  callPhase' = [callPhase EXCEPT ![t] = callPhase'[t]]
BY DEF PhasesOK

\* A step of which FifoQueue sees no more than that each call is as far as it
\* was is invisible.
LEMMA Unseen ==
  ASSUME PhasesOK, PhasesOK', \A u \in Threads : callPhase'[u] = callPhase[u],
         UNCHANGED <<chain, value, val>>
  PROVE  UNCHANGED Fifo!vars
<1>1. callPhase' = callPhase
  BY DEF PhasesOK
<1> QED
  BY <1>1, SameContents DEF Fifo!vars

\* The last step of a call, of which pc, val and the locals of t are cleared.
LEMMA CallEnds ==
  ASSUME PhasesOK, PhasesOK', NEW t \in Threads, UNCHANGED <<chain, value>>,
         ClearLocals(t), \A u \in Threads \ {t} : callPhase'[u] = callPhase[u],
         callPhase'[t] = "idle", callPhase[t] \in {"enqDone", "deqDone"}
  PROVE  Fifo!EndEnq(t) \/ Fifo!EndDeq(t)
BY PhaseMoves, SameContents DEF ClearLocals, Fifo!EndEnq, Fifo!EndDeq, Fifo!Move

LEMMA BeginFifo ==
  ASSUME IInv, PhasesOK, PhasesOK', NEW t \in Threads, Begin(t)
  PROVE  Fifo!BeginEnq(t) \/ Fifo!BeginDeq(t)
<1>1. contents' = contents
  <2>1. UNCHANGED <<chain, value>>
    BY DEF Begin, EnqBegin, DeqBegin, memory
  <2> QED
    BY <2>1, SameContents
<1>2. callPhase[t] = "idle" /\ \A u \in Threads \ {t} : callPhase'[u] = callPhase[u]
  BY DEF IInv, TypeOK, Begin, EnqBegin, DeqBegin, Goto, PhasesOK, EnqPcs, DeqPcs, EnqHeld, DeqHeld
<1>3. CASE EnqBegin(t)
  <2>1. callPhase'[t] = "enq"
    BY <1>3 DEF IInv, TypeOK, EnqBegin, Goto, PhasesOK, EnqPcs, DeqPcs, EnqHeld, DeqHeld
  <2> QED
    BY <1>1, <1>2, <1>3, <2>1, PhaseMoves DEF EnqBegin, Fifo!BeginEnq, Fifo!Move
<1>4. CASE DeqBegin(t)
  <2>1. callPhase'[t] = "deq"
    BY <1>4 DEF IInv, TypeOK, DeqBegin, Goto, PhasesOK, EnqPcs, DeqPcs, EnqHeld, DeqHeld
  <2> QED
    BY <1>1, <1>2, <1>4, <2>1, PhaseMoves
    DEF DeqBegin, locals, Fifo!BeginDeq, Fifo!Move
<1> QED
  BY <1>3, <1>4 DEF Begin

\* Locks, tests, sleeps, wakeups and the tail assignment.
LEMMA UnseenFifo ==
  ASSUME IInv, PhasesOK, PhasesOK', NEW t \in Threads,
         \/ EnqLock(t) \/ EnqCheck(t) \/ EnqPred(t) \/ EnqSleep(t) \/ EnqTail(t)
         \/ DeqLock(t) \/ DeqCheck(t) \/ DeqPred(t) \/ DeqSleep(t)
         \/ SpuriousWakeup(t)
  PROVE  UNCHANGED Fifo!vars
<1>1. UNCHANGED <<chain, value, val>>
  BY DEF EnqLock, EnqCheck, EnqPred, EnqSleep, EnqTail, DeqLock, DeqCheck, DeqPred,
         DeqSleep, SpuriousWakeup, EnqSpuriousWakeup, DeqSpuriousWakeup, memory, locals
<1>2. PICK from, to \in EnqPcs \cup DeqPcs :
        /\ pc[t] = from /\ pc' = [pc EXCEPT ![t] = to]
        /\ \/ {from, to} \subseteq EnqPcs \ {"e_tail", "e_size", "e_notify"}
           \/ {from, to} \subseteq {"e_tail", "e_size"}
           \/ {from, to} \subseteq DeqPcs \ {"d_size", "d_notify"}
  <2>1. CASE \/ EnqLock(t) \/ EnqCheck(t) \/ EnqPred(t) \/ EnqSleep(t)
             \/ EnqSpuriousWakeup(t)
    BY <2>1 DEF EnqLock, EnqCheck, EnqPred, EnqSleep, EnqSpuriousWakeup, Goto, EnqPcs,
                EnqHeld
  <2>2. CASE EnqTail(t)
    BY <2>2 DEF EnqTail, Goto, EnqPcs, EnqHeld
  <2>3. CASE \/ DeqLock(t) \/ DeqCheck(t) \/ DeqPred(t) \/ DeqSleep(t)
             \/ DeqSpuriousWakeup(t)
    BY <2>3 DEF DeqLock, DeqCheck, DeqPred, DeqSleep, DeqSpuriousWakeup, Goto, DeqPcs,
                DeqHeld
  <2> QED
    BY <2>1, <2>2, <2>3 DEF SpuriousWakeup
<1>3. \A u \in Threads : callPhase'[u] = callPhase[u]
  BY <1>2 DEF IInv, TypeOK, PhasesOK, EnqPcs, DeqPcs, EnqHeld, DeqHeld
<1> QED
  BY <1>1, <1>3, Unseen

LEMMA EnqLinkFifo ==
  ASSUME IInv, PhasesOK, PhasesOK', ContentsOK, ContentsOK', NEW t \in Threads, EnqLink(t)
  PROVE  Fifo!TakeEffectEnq(t)
<1>1. PICK n \in Nodes \ heap :
        /\ value' = [value EXCEPT ![n] = val[t]]
        /\ chain' = Append(chain, n)
  BY DEF EnqLink
<1>2. pc[t] = "e_link" /\ pc' = [pc EXCEPT ![t] = "e_tail"] /\ UNCHANGED val
  BY DEF EnqLink, Goto
<1>3. val[t] \in Values /\ chain \in Seq(Nodes)
  BY <1>2 DEF IInv, ArgOK, TypeOK, EnqPcs, EnqHeld
<1>4. \A i \in 1 .. Len(chain) : chain[i] \in heap
  BY DEF IInv, ChainShape
<1>5. contents' = Append(contents, val[t])
  <2>1. /\ Len(chain') = Len(chain) + 1 /\ chain'[Len(chain) + 1] = n
        /\ \A i \in 1 .. Len(chain) : chain'[i] = chain[i]
    BY <1>1, <1>3, AppendProperties
  <2>2. value'[n] = val[t]
        /\ \A i \in 1 .. Len(chain) : value'[chain[i]] = value[chain[i]]
    BY <1>1, <1>4 DEF IInv, TypeOK
  <2> QED
    BY <1>3, <2>1, <2>2, AppendContents
<1>6. /\ callPhase[t] = "enq" /\ callPhase'[t] = "enqDone"
      /\ \A u \in Threads \ {t} : callPhase'[u] = callPhase[u]
  BY <1>2 DEF IInv, TypeOK, PhasesOK, EnqPcs, DeqPcs, EnqHeld, DeqHeld
<1> QED
  BY <1>2, <1>5, <1>6, PhaseMoves DEF Fifo!TakeEffectEnq, Fifo!Move

LEMMA DeqTakeFifo ==
  ASSUME IInv, IInv', PhasesOK, PhasesOK', ContentsOK, ContentsOK', NEW t \in Threads, DeqTake(t)
  PROVE  Fifo!TakeEffectDeq(t)
<1>1. /\ pc[t] = "d_take" /\ pc' = [pc EXCEPT ![t] = "d_size"]
      /\ val' = [val EXCEPT ![t] = value[next[head]]]
      /\ value' = [value EXCEPT ![next[head]] = NoValue]
      /\ head' = next[head] /\ chain' = Tail(chain)
  BY DEF DeqTake, Goto
<1>2. /\ chain \in Seq(Nodes) /\ Len(chain) \in Nat /\ Len(chain) >= 2 /\ chain # <<>>
  BY <1>1 DEF IInv, TypeOK, TestsHold
<1>3. /\ Len(chain') = Len(chain) - 1
      /\ \A i \in 1 .. Len(chain') : chain'[i] = chain[i + 1]
  BY <1>1, <1>2, HeadTailProperties
<1>4. next[head] = chain[2]
  <2>1. 1 \in 1 .. Len(chain) /\ Len(chain) # 1 /\ 1 + 1 = 2
    BY <1>2
  <2> QED
    BY <2>1 DEF IInv, ChainShape
<1>5. \A i \in 2 .. Len(chain') : value'[chain'[i]] = value[chain'[i]]
  <2> TAKE i \in 2 .. Len(chain')
  <2>1. /\ i \in 1 .. Len(chain') /\ 1 \in 1 .. Len(chain') /\ i # 1
        /\ Len(chain') \in Nat
    BY <1>2, <1>3
  <2>2. chain'[i] # head' /\ chain'[i] \in Nodes
    BY <2>1 DEF IInv, TypeOK, ChainShape
  <2> QED
    BY <1>1, <2>2 DEF IInv, TypeOK
<1>6. /\ contents # <<>> /\ Head(contents) = value[chain[2]]
      /\ contents' = Tail(contents)
  BY <1>2, <1>3, <1>5, TailContents
<1>7. /\ callPhase[t] = "deq" /\ callPhase'[t] = "deqDone"
      /\ \A u \in Threads \ {t} : callPhase'[u] = callPhase[u]
  <2>1. /\ pc'[t] = "d_size" /\ \A u \in Threads \ {t} : pc'[u] = pc[u]
        /\ pc \in [Threads -> {"idle"} \cup EnqPcs \cup DeqPcs]
    BY <1>1 DEF IInv, TypeOK
  <2>2. callPhase[t] = "deq" /\ callPhase'[t] = "deqDone"
    BY <1>1, <2>1 DEF PhasesOK, DeqPcs, DeqHeld
  <2> QED
    BY <2>1, <2>2 DEF PhasesOK
<1> QED
  BY <1>1, <1>4, <1>6, <1>7, PhaseMoves DEF Fifo!TakeEffectDeq, Fifo!Move

LEMMA CountFifo ==
  ASSUME IInv, PhasesOK, PhasesOK', NEW t \in Threads, EnqCount(t) \/ DeqCount(t)
  PROVE  Fifo!EndEnq(t) \/ Fifo!EndDeq(t) \/ UNCHANGED Fifo!vars
<1>1. /\ UNCHANGED <<chain, value>>
      /\ callPhase[t] \in {"enqDone", "deqDone"}
      /\ \A u \in Threads \ {t} : callPhase'[u] = callPhase[u]
  BY DEF IInv, TypeOK, EnqCount, DeqCount, Goto, PhasesOK, EnqPcs, DeqPcs, EnqHeld, DeqHeld
<1>2. CASE pc'[t] = "idle"
  <2>1. ClearLocals(t) /\ callPhase'[t] = "idle"
    BY <1>2 DEF IInv, TypeOK, EnqCount, DeqCount, Goto, PhasesOK, EnqPcs, DeqPcs, EnqHeld, DeqHeld
  <2> QED
    BY <1>1, <2>1, CallEnds
<1>3. CASE pc'[t] # "idle"
  <2>1. callPhase'[t] = callPhase[t] /\ UNCHANGED val
    BY <1>3 DEF IInv, TypeOK, EnqCount, DeqCount, Goto, PhasesOK, EnqPcs, DeqPcs, EnqHeld, DeqHeld
  <2> QED
    BY <1>1, <2>1, Unseen
<1> QED
  BY <1>2, <1>3

LEMMA NotifyFifo ==
  ASSUME IInv, PhasesOK, PhasesOK', NEW t \in Threads, EnqNotify(t) \/ DeqNotify(t)
  PROVE  Fifo!EndEnq(t) \/ Fifo!EndDeq(t)
<1>1. /\ UNCHANGED <<chain, value>> /\ ClearLocals(t)
      /\ pc[t] \in {"e_notify", "d_notify"} /\ pc'[t] = "idle"
      /\ \A u \in Threads \ {t} :
           \/ pc'[u] = pc[u]
           \/ pc[u] = "d_wait" /\ pc'[u] = "d_relock"
           \/ pc[u] = "e_wait" /\ pc'[u] = "e_relock"
  BY DEF EnqNotify, DeqNotify, memory
<1>2. callPhase[t] \in {"enqDone", "deqDone"} /\ callPhase'[t] = "idle"
  BY <1>1 DEF PhasesOK
<1>3. \A u \in Threads \ {t} : callPhase'[u] = callPhase[u]
  BY <1>1 DEF IInv, TypeOK, PhasesOK, EnqPcs, DeqPcs, EnqHeld, DeqHeld
<1> QED
  BY <1>1, <1>2, <1>3, CallEnds

----------------------------------------------------------------------------
(* The theorem *)

LEMMA InitFifo == Init => Fifo!Init
<1> SUFFICES ASSUME Init PROVE Fifo!Init
  OBVIOUS
<1>1. ContentsOK /\ Len(chain) = 1
  BY Initial, ContentsHold DEF Init
<1>2. contents = <<>>
  <2>1. Len(contents) = 0
    BY <1>1 DEF ContentsOK
  <2> QED
    BY <1>1, <2>1, EmptySeq DEF ContentsOK
<1>3. callPhase = [t \in Threads |-> "idle"]
  BY PhasesHold DEF Init, PhasesOK
<1> QED
  BY <1>2, <1>3 DEF Init, Fifo!Init

LEMMA NextFifo ==
  IInv /\ IInv' /\ PhasesOK /\ PhasesOK' /\ ContentsOK /\ ContentsOK' /\ [Next]_vars
    => [Fifo!Next]_(Fifo!vars)
<1> SUFFICES ASSUME IInv, IInv', PhasesOK, PhasesOK', ContentsOK,
                    ContentsOK', [Next]_vars
             PROVE  [Fifo!Next]_(Fifo!vars)
  OBVIOUS
<1>1. CASE UNCHANGED vars
  BY <1>1, SameContents DEF vars, memory, locals, Fifo!vars, callPhase
<1>2. ASSUME NEW t \in Threads, Begin(t) \/ Step(t) \/ SpuriousWakeup(t)
      PROVE  \/ Fifo!BeginEnq(t) \/ Fifo!TakeEffectEnq(t) \/ Fifo!EndEnq(t)
             \/ Fifo!BeginDeq(t) \/ Fifo!TakeEffectDeq(t) \/ Fifo!EndDeq(t)
             \/ UNCHANGED Fifo!vars
  BY <1>2, BeginFifo, UnseenFifo, EnqLinkFifo, DeqTakeFifo, CountFifo, NotifyFifo
  DEF Step, EnqStep, DeqStep
<1> QED
  BY <1>1, <1>2 DEF Next, Fifo!Next

\* The queue is linearizable: each enq appends its value, and each deq takes
\* the oldest one, at one instant between its call and its return, although
\* the two ends are never locked together.
THEOREM ImplementsFifoHolds == Spec => ImplementsFifo
BY IInvHolds, ContentsHold, PhasesHold, InitFifo, NextFifo, PTL
DEF Spec, ImplementsFifo, Fifo!Spec

=============================================================================
