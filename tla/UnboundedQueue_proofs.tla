----------------------- MODULE UnboundedQueue_proofs -----------------------
(***************************************************************************)
(* Proofs about UnboundedQueue, for any sets of threads, values and nodes: *)
(* the inductive invariant IInv and what follows from it, and then that    *)
(* the queue implements FifoQueue: it is linearizable.                     *)
(***************************************************************************)
EXTENDS UnboundedQueue, TLAPS, SequenceTheorems

----------------------------------------------------------------------------
(* The list *)

\* A node that reaches another is reached in its turn by no later node: on
\* the list, Reaches is a linear order.
LEMMA ReachesOrder ==
  ASSUME ListShape, linked \in Seq(Nodes)
  PROVE  /\ \A p : InList(p) => Reaches(p, p)
         /\ \A p, q : Reaches(p, q) => InList(p) /\ InList(q)
         /\ \A p, q, r : Reaches(p, q) /\ Reaches(q, r) => Reaches(p, r)
         /\ \A p, q : Reaches(p, q) /\ Reaches(q, p) => p = q
<1>1. Last \in Nat
  BY DEF Last
<1>2. \A p : InList(p) => Reaches(p, p)
  BY <1>1 DEF InList, Reaches
<1>3. \A p, q : Reaches(p, q) => InList(p) /\ InList(q)
  BY DEF InList, Reaches
<1>4. ASSUME NEW p, NEW q, NEW r, Reaches(p, q), Reaches(q, r)
      PROVE  Reaches(p, r)
  <2>1. PICK i, j \in 1 .. Last : i <= j /\ linked[i] = p /\ linked[j] = q
    BY <1>4 DEF Reaches
  <2>2. PICK k, l \in 1 .. Last : k <= l /\ linked[k] = q /\ linked[l] = r
    BY <1>4 DEF Reaches
  <2>3. j = k
    BY <2>1, <2>2 DEF ListShape
  <2> QED
    BY <1>1, <2>1, <2>2, <2>3 DEF Reaches
<1>5. ASSUME NEW p, NEW q, Reaches(p, q), Reaches(q, p)
      PROVE  p = q
  <2>1. PICK i, j \in 1 .. Last : i <= j /\ linked[i] = p /\ linked[j] = q
    BY <1>5 DEF Reaches
  <2>2. PICK k, l \in 1 .. Last : k <= l /\ linked[k] = q /\ linked[l] = p
    BY <1>5 DEF Reaches
  <2>3. j = k /\ i = l
    BY <2>1, <2>2 DEF ListShape
  <2> QED
    BY <1>1, <2>1, <2>2, <2>3
<1> QED
  BY <1>2, <1>3, <1>4, <1>5

\* Following next from a node of the list: the next node is on the list and
\* reached by it, and whatever else the node reaches is reached by way of it.
LEMMA ReachesNext ==
  ASSUME ListShape, linked \in Seq(Nodes), Null \notin Nodes
  PROVE  /\ \A p : InList(p) => p \in Nodes /\ p \in heap
         /\ \A p : InList(p) /\ next[p] # Null =>
              /\ Reaches(p, next[p])
              /\ next[p] \in Nodes
              /\ next[p] # p
         /\ \A p, q : Reaches(p, q) /\ p # q =>
              /\ next[p] # Null
              /\ Reaches(next[p], q)
<1>1. Last \in Nat /\ \A i \in 1 .. Last : linked[i] \in Nodes
  BY DEF Last
<1>2. \A p : InList(p) => p \in Nodes /\ p \in heap
  BY <1>1 DEF InList, ListShape
<1>3. ASSUME NEW p, InList(p), next[p] # Null
      PROVE  Reaches(p, next[p]) /\ next[p] \in Nodes /\ next[p] # p
  <2>1. PICK i \in 1 .. Last : linked[i] = p
    BY <1>3 DEF InList
  <2>2. i < Last /\ next[p] = linked[i + 1]
    BY <1>1, <1>3, <2>1 DEF ListShape
  <2>3. i + 1 \in 1 .. Last
    BY <1>1, <2>2
  <2> QED
    BY <1>1, <2>1, <2>2, <2>3 DEF Reaches, ListShape
<1>4. ASSUME NEW p, NEW q, Reaches(p, q), p # q
      PROVE  next[p] # Null /\ Reaches(next[p], q)
  <2>1. PICK i, j \in 1 .. Last : i <= j /\ linked[i] = p /\ linked[j] = q
    BY <1>4 DEF Reaches
  <2>2. i < j /\ i + 1 \in 1 .. Last /\ i + 1 <= j
    BY <1>1, <1>4, <2>1
  <2>3. next[p] = linked[i + 1]
    BY <1>1, <2>1, <2>2 DEF ListShape
  <2> QED
    BY <1>1, <2>1, <2>2, <2>3 DEF Reaches
<1> QED
  BY <1>2, <1>3, <1>4

\* What the list looks like after a step that leaves linked alone.
LEMMA ReachesUnchanged ==
  ASSUME linked' = linked
  PROVE  /\ \A p, q : Reaches(p, q)' <=> Reaches(p, q)
         /\ \A p : InList(p)' <=> InList(p)
BY DEF Reaches, InList, Last

\* What it looks like after one more node has been linked in.
LEMMA ReachesAppend ==
  ASSUME linked \in Seq(Nodes), NEW n \in Nodes, linked' = Append(linked, n)
  PROVE  /\ \A p, q : Reaches(p, q) => Reaches(p, q)'
         /\ \A p : InList(p)' <=> InList(p) \/ p = n
<1>1. /\ Last \in Nat /\ Last' = Last + 1
      /\ \A i \in 1 .. Last : linked'[i] = linked[i]
      /\ linked'[Last + 1] = n
  BY DEF Last
<1>2. 1 .. Last' = (1 .. Last) \cup {Last + 1}
  BY <1>1
<1>3. ASSUME NEW p, NEW q, Reaches(p, q) PROVE Reaches(p, q)'
  <2>1. PICK i, j \in 1 .. Last : i <= j /\ linked[i] = p /\ linked[j] = q
    BY <1>3 DEF Reaches
  <2>2. /\ i \in 1 .. Last' /\ j \in 1 .. Last'
        /\ linked'[i] = p /\ linked'[j] = q
    BY <1>1, <1>2, <2>1
  <2> QED
    BY <2>1, <2>2 DEF Reaches
<1>4. ASSUME NEW p PROVE InList(p)' <=> InList(p) \/ p = n
  <2>1. InList(p)' <=> \E i \in 1 .. Last' : linked'[i] = p
    BY DEF InList
  <2>2. InList(p) <=> \E i \in 1 .. Last : linked'[i] = p
    BY <1>1 DEF InList
  <2> QED
    BY <1>1, <1>2, <2>1, <2>2
<1> QED
  BY <1>3, <1>4

----------------------------------------------------------------------------
(* The inductive invariant *)

LEMMA InitIInv == Init => IInv
<1> SUFFICES ASSUME Init PROVE IInv
  OBVIOUS
<1> USE DEF Init
<1>1. TypeOK
  BY DEF TypeOK
<1>2. Last = 1 /\ linked[1] = head
  BY DEF Last
<1>3. ListShape
  BY <1>2 DEF ListShape
<1>4. HeadTailOrder
  BY <1>2 DEF HeadTailOrder, Reaches
<1>5. NewNodes /\ EnqMemory /\ DeqMemory
  BY DEF NewNodes, EnqMemory, DeqMemory, NewNodeOf, EnqMemoryOf, DeqMemoryOf,
         EnqPcs, DeqPcs
<1>6. LinkedValues
  BY <1>2 DEF LinkedValues
<1> QED
  BY <1>1, <1>3, <1>4, <1>5, <1>6 DEF IInv

\* A step of t that changes no node, and moves head_ and tail_ one node on at
\* most: what has to be shown for it is what t itself remembers.
LEMMA PointerStep ==
  ASSUME IInv, NEW t \in Threads, TypeOK',
         UNCHANGED <<next, value, heap, linked>>,
         tail' = tail \/ (next[tail] # Null /\ tail' = next[tail]),
         head' = head \/ (head # tail /\ head' = next[head]),
         \A u \in Threads \ {t} :
            /\ pc'[u] = pc[u] /\ new_node'[u] = new_node[u]
            /\ expected_head'[u] = expected_head[u]
            /\ expected_tail'[u] = expected_tail[u]
            /\ nxt'[u] = nxt[u] /\ val'[u] = val[u],
         pc'[t] \in EnqPcs => /\ pc[t] \in EnqPcs \ {"e_swing"}
                              /\ new_node'[t] = new_node[t],
         EnqMemoryOf(t)', DeqMemoryOf(t)'
  PROVE  IInv'
<1>1. ListShape /\ linked \in Seq(Nodes) /\ HeadTailOrder
  BY DEF IInv, TypeOK
<1>2. /\ \A p, q : Reaches(p, q)' <=> Reaches(p, q)
      /\ \A p : InList(p)' <=> InList(p)
  BY ReachesUnchanged
<1>a. \A p : Reaches(p, tail) => Reaches(p, tail')
  BY <1>1, ReachesOrder, ReachesNext, NullAssumption
<1>b. \A p : Reaches(p, head) => Reaches(p, head')
  BY <1>1, ReachesOrder, ReachesNext, NullAssumption DEF HeadTailOrder
<1>c. Reaches(head', tail)
  BY <1>1, ReachesNext, NullAssumption DEF HeadTailOrder
<1>3. ListShape'
  BY <1>1 DEF ListShape, Last
<1>4. HeadTailOrder'
  BY <1>1, <1>2, <1>a, <1>c DEF HeadTailOrder
<1>5. NewNodes'
  <2> SUFFICES ASSUME NEW u \in Threads PROVE NewNodeOf(u)'
    BY DEF NewNodes
  <2>1. NewNodeOf(u)
    BY DEF IInv, NewNodes
  <2>2. pc'[u] \in EnqPcs => pc[u] \in EnqPcs /\ new_node'[u] = new_node[u]
    OBVIOUS
  <2>3. pc'[u] \in EnqPcs \ {"e_swing"} => pc[u] \in EnqPcs \ {"e_swing"}
    OBVIOUS
  <2>4. \A w \in Threads : pc'[w] \in EnqPcs =>
                             pc[w] \in EnqPcs /\ new_node'[w] = new_node[w]
    OBVIOUS
  <2> QED
    BY <1>2, <2>1, <2>2, <2>3, <2>4 DEF NewNodeOf
<1>6. ASSUME NEW u \in Threads PROVE EnqMemoryOf(u)' /\ DeqMemoryOf(u)'
  <2>1. CASE u = t
    BY <2>1
  <2>2. CASE u # t
    <3>1. EnqMemoryOf(u) /\ DeqMemoryOf(u)
      BY DEF IInv, EnqMemory, DeqMemory
    <3> QED
      BY <1>2, <1>a, <1>b, <2>2, <3>1 DEF EnqMemoryOf, DeqMemoryOf
  <2> QED
    BY <2>1, <2>2
<1>7. LinkedValues'
  BY DEF IInv, LinkedValues, Last
<1> QED
  BY <1>3, <1>4, <1>5, <1>6, <1>7 DEF IInv, EnqMemory, DeqMemory

\* The steps that load head_, tail_ or a next pointer into a local.
LEMMA EnqLoadTailIInv ==
  ASSUME IInv, NEW t \in Threads, EnqLoadTail(t) PROVE IInv'
<1> USE DEF EnqLoadTail, Goto, Return, shared, locals, EnqPcs, DeqPcs
<1>1. UNCHANGED shared /\ TypeOK'
  BY DEF IInv, TypeOK
<1>2. EnqMemoryOf(t)'
  BY ReachesUnchanged, ReachesOrder
  DEF IInv, TypeOK, HeadTailOrder, EnqMemory, EnqMemoryOf
<1>3. DeqMemoryOf(t)'
  BY ReachesUnchanged, ReachesOrder, ReachesNext, NullAssumption
  DEF IInv, TypeOK, HeadTailOrder, DeqMemory, DeqMemoryOf
<1> QED
  BY <1>1, <1>2, <1>3, PointerStep DEF IInv, TypeOK

LEMMA EnqLoadNextIInv ==
  ASSUME IInv, NEW t \in Threads, EnqLoadNext(t) PROVE IInv'
<1> USE DEF EnqLoadNext, Goto, Return, shared, locals, EnqPcs, DeqPcs
<1>0. expected_tail[t] \in Nodes
  BY ReachesOrder, ReachesNext, NullAssumption
  DEF IInv, TypeOK, EnqMemory, EnqMemoryOf
<1>1. UNCHANGED shared /\ TypeOK'
  BY <1>0 DEF IInv, TypeOK
<1>2. EnqMemoryOf(t)'
  BY ReachesUnchanged, ReachesOrder
  DEF IInv, TypeOK, HeadTailOrder, EnqMemory, EnqMemoryOf
<1>3. DeqMemoryOf(t)'
  BY ReachesUnchanged, ReachesOrder, ReachesNext, NullAssumption
  DEF IInv, TypeOK, HeadTailOrder, DeqMemory, DeqMemoryOf
<1> QED
  BY <1>1, <1>2, <1>3, PointerStep DEF IInv, TypeOK

LEMMA EnqCheckIInv ==
  ASSUME IInv, NEW t \in Threads, EnqCheck(t) PROVE IInv'
<1> USE DEF EnqCheck, Goto, Return, shared, locals, EnqPcs, DeqPcs
<1>1. UNCHANGED shared /\ TypeOK'
  BY DEF IInv, TypeOK
<1>2. EnqMemoryOf(t)'
  BY ReachesUnchanged, ReachesOrder
  DEF IInv, TypeOK, HeadTailOrder, EnqMemory, EnqMemoryOf
<1>3. DeqMemoryOf(t)'
  BY ReachesUnchanged, ReachesOrder, ReachesNext, NullAssumption
  DEF IInv, TypeOK, HeadTailOrder, DeqMemory, DeqMemoryOf
<1> QED
  BY <1>1, <1>2, <1>3, PointerStep DEF IInv, TypeOK

LEMMA DeqBeginIInv ==
  ASSUME IInv, NEW t \in Threads, DeqBegin(t) PROVE IInv'
<1> USE DEF DeqBegin, Goto, Return, shared, locals, EnqPcs, DeqPcs
<1>1. UNCHANGED shared /\ TypeOK'
  BY DEF IInv, TypeOK
<1>2. EnqMemoryOf(t)'
  BY ReachesUnchanged, ReachesOrder
  DEF IInv, TypeOK, HeadTailOrder, EnqMemory, EnqMemoryOf
<1>3. DeqMemoryOf(t)'
  BY ReachesUnchanged, ReachesOrder, ReachesNext, NullAssumption
  DEF IInv, TypeOK, HeadTailOrder, DeqMemory, DeqMemoryOf
<1> QED
  BY <1>1, <1>2, <1>3, PointerStep DEF IInv, TypeOK

LEMMA DeqLoadHeadIInv ==
  ASSUME IInv, NEW t \in Threads, DeqLoadHead(t) PROVE IInv'
<1> USE DEF DeqLoadHead, Goto, Return, shared, locals, EnqPcs, DeqPcs
<1>1. UNCHANGED shared /\ TypeOK'
  BY DEF IInv, TypeOK
<1>2. EnqMemoryOf(t)'
  BY ReachesUnchanged, ReachesOrder
  DEF IInv, TypeOK, HeadTailOrder, EnqMemory, EnqMemoryOf
<1>3. DeqMemoryOf(t)'
  BY ReachesUnchanged, ReachesOrder, ReachesNext, NullAssumption
  DEF IInv, TypeOK, HeadTailOrder, DeqMemory, DeqMemoryOf
<1> QED
  BY <1>1, <1>2, <1>3, PointerStep DEF IInv, TypeOK

LEMMA DeqLoadTailIInv ==
  ASSUME IInv, NEW t \in Threads, DeqLoadTail(t) PROVE IInv'
<1> USE DEF DeqLoadTail, Goto, Return, shared, locals, EnqPcs, DeqPcs
<1>1. UNCHANGED shared /\ TypeOK'
  BY DEF IInv, TypeOK
<1>2. EnqMemoryOf(t)'
  BY ReachesUnchanged, ReachesOrder
  DEF IInv, TypeOK, HeadTailOrder, EnqMemory, EnqMemoryOf
<1>3. DeqMemoryOf(t)'
  BY ReachesUnchanged, ReachesOrder, ReachesNext, NullAssumption
  DEF IInv, TypeOK, HeadTailOrder, DeqMemory, DeqMemoryOf
<1> QED
  BY <1>1, <1>2, <1>3, PointerStep DEF IInv, TypeOK

LEMMA DeqLoadNextIInv ==
  ASSUME IInv, NEW t \in Threads, DeqLoadNext(t) PROVE IInv'
<1> USE DEF DeqLoadNext, Goto, Return, shared, locals, EnqPcs, DeqPcs
<1>0. expected_head[t] \in Nodes
  BY ReachesOrder, ReachesNext, NullAssumption
  DEF IInv, TypeOK, DeqMemory, DeqMemoryOf
<1>1. UNCHANGED shared /\ TypeOK'
  BY <1>0 DEF IInv, TypeOK
<1>2. EnqMemoryOf(t)'
  BY ReachesUnchanged, ReachesOrder
  DEF IInv, TypeOK, HeadTailOrder, EnqMemory, EnqMemoryOf
<1>3. DeqMemoryOf(t)'
  BY ReachesUnchanged, ReachesOrder, ReachesNext, NullAssumption
  DEF IInv, TypeOK, HeadTailOrder, DeqMemory, DeqMemoryOf
<1> QED
  BY <1>1, <1>2, <1>3, PointerStep DEF IInv, TypeOK

LEMMA DeqCheckIInv ==
  ASSUME IInv, NEW t \in Threads, DeqCheck(t) PROVE IInv'
<1> USE DEF DeqCheck, Goto, Return, shared, locals, EnqPcs, DeqPcs
<1>1. UNCHANGED shared /\ TypeOK'
  BY DEF IInv, TypeOK
<1>2. EnqMemoryOf(t)'
  BY ReachesUnchanged, ReachesOrder
  DEF IInv, TypeOK, HeadTailOrder, EnqMemory, EnqMemoryOf
<1>3. DeqMemoryOf(t)'
  BY ReachesUnchanged, ReachesOrder, ReachesNext, NullAssumption
  DEF IInv, TypeOK, HeadTailOrder, DeqMemory, DeqMemoryOf
<1> QED
  BY <1>1, <1>2, <1>3, PointerStep DEF IInv, TypeOK

LEMMA DeqReadValueIInv ==
  ASSUME IInv, NEW t \in Threads, DeqReadValue(t) PROVE IInv'
<1> USE DEF DeqReadValue, Goto, Return, shared, locals, EnqPcs, DeqPcs
<1>1. UNCHANGED shared /\ TypeOK'
  BY DEF IInv, TypeOK
<1>2. EnqMemoryOf(t)'
  BY ReachesUnchanged, ReachesOrder
  DEF IInv, TypeOK, HeadTailOrder, EnqMemory, EnqMemoryOf
<1>3. DeqMemoryOf(t)'
  BY ReachesUnchanged, ReachesOrder, ReachesNext, NullAssumption
  DEF IInv, TypeOK, HeadTailOrder, DeqMemory, DeqMemoryOf
<1> QED
  BY <1>1, <1>2, <1>3, PointerStep DEF IInv, TypeOK

LEMMA DeqReturnIInv ==
  ASSUME IInv, NEW t \in Threads, DeqReturn(t) PROVE IInv'
<1> USE DEF DeqReturn, Goto, Return, shared, locals, EnqPcs, DeqPcs
<1>1. UNCHANGED shared /\ TypeOK'
  BY DEF IInv, TypeOK
<1>2. EnqMemoryOf(t)'
  BY ReachesUnchanged, ReachesOrder
  DEF IInv, TypeOK, HeadTailOrder, EnqMemory, EnqMemoryOf
<1>3. DeqMemoryOf(t)'
  BY ReachesUnchanged, ReachesOrder, ReachesNext, NullAssumption
  DEF IInv, TypeOK, HeadTailOrder, DeqMemory, DeqMemoryOf
<1> QED
  BY <1>1, <1>2, <1>3, PointerStep DEF IInv, TypeOK

\* The steps that move tail_ and head_.
LEMMA EnqHelpIInv ==
  ASSUME IInv, NEW t \in Threads, EnqHelp(t) PROVE IInv'
<1> USE DEF EnqHelp, Goto, locals
<1>1. nxt[t] # Null /\ nxt[t] = next[expected_tail[t]]
  BY DEF IInv, EnqMemory, EnqMemoryOf
<1>2. TypeOK'
  BY <1>1 DEF IInv, TypeOK, EnqPcs
<1>3. EnqMemoryOf(t)' /\ DeqMemoryOf(t)'
  BY DEF IInv, TypeOK, EnqMemoryOf, DeqMemoryOf, DeqPcs
<1> QED
  BY <1>1, <1>2, <1>3, PointerStep DEF IInv, TypeOK, EnqPcs

LEMMA EnqSwingIInv ==
  ASSUME IInv, NEW t \in Threads, EnqSwing(t) PROVE IInv'
<1> USE DEF EnqSwing, Return
<1>1. /\ new_node[t] = next[expected_tail[t]]
      /\ new_node[t] \in Nodes
  BY DEF IInv, EnqMemory, EnqMemoryOf, NewNodes, NewNodeOf, EnqPcs, TypeOK
<1>2. TypeOK'
  BY <1>1 DEF IInv, TypeOK
<1>3. EnqMemoryOf(t)' /\ DeqMemoryOf(t)'
  BY DEF IInv, TypeOK, EnqMemoryOf, DeqMemoryOf, EnqPcs, DeqPcs
<1> QED
  BY <1>1, <1>2, <1>3, PointerStep, NullAssumption
  DEF IInv, TypeOK, EnqPcs

LEMMA DeqHelpIInv ==
  ASSUME IInv, NEW t \in Threads, DeqHelp(t) PROVE IInv'
<1> USE DEF DeqHelp, Goto, locals
<1>1. nxt[t] # Null /\ nxt[t] = next[expected_tail[t]]
  BY DEF IInv, DeqMemory, DeqMemoryOf
<1>2. TypeOK'
  BY <1>1 DEF IInv, TypeOK, DeqPcs
<1>3. EnqMemoryOf(t)' /\ DeqMemoryOf(t)'
  BY DEF IInv, TypeOK, EnqMemoryOf, DeqMemoryOf, EnqPcs, DeqPcs
<1> QED
  BY <1>1, <1>2, <1>3, PointerStep DEF IInv, TypeOK, EnqPcs

LEMMA DeqSwingIInv ==
  ASSUME IInv, NEW t \in Threads, DeqSwing(t) PROVE IInv'
<1> USE DEF DeqSwing, Goto, locals
<1>1. /\ nxt[t] # Null /\ nxt[t] = next[expected_head[t]]
      /\ Reaches(expected_head[t], expected_tail[t])
      /\ Reaches(expected_tail[t], tail)
      /\ expected_head[t] # expected_tail[t]
  BY DEF IInv, DeqMemory, DeqMemoryOf, DeqPcs
<1>2. expected_head[t] # tail
  BY <1>1, ReachesOrder DEF IInv, TypeOK
<1>3. TypeOK'
  BY <1>1 DEF IInv, TypeOK, DeqPcs
<1>4. EnqMemoryOf(t)' /\ DeqMemoryOf(t)'
  BY DEF IInv, TypeOK, EnqMemoryOf, DeqMemoryOf, EnqPcs, DeqPcs
<1> QED
  BY <1>1, <1>2, <1>3, <1>4, PointerStep DEF IInv, TypeOK, EnqPcs

\* The allocation of a node: the address is new to everybody.
LEMMA EnqBeginIInv ==
  ASSUME IInv, NEW t \in Threads, EnqBegin(t) PROVE IInv'
<1>1. /\ ListShape /\ linked \in Seq(Nodes) /\ HeadTailOrder
      /\ NewNodes /\ EnqMemory /\ DeqMemory /\ LinkedValues /\ TypeOK
  BY DEF IInv, TypeOK
<1>2. PICK n \in Nodes \ heap, v \in Values :
         /\ heap' = heap \cup {n}
         /\ value' = [value EXCEPT ![n] = v]
         /\ next' = [next EXCEPT ![n] = Null]
         /\ new_node' = [new_node EXCEPT ![t] = n]
  BY DEF EnqBegin
<1>3. /\ pc[t] = "idle" /\ pc' = [pc EXCEPT ![t] = "e_tail"]
      /\ UNCHANGED <<head, tail, linked, expected_head, expected_tail, nxt, val>>
  BY DEF EnqBegin, Goto
<1>4. /\ \A p, q : Reaches(p, q)' <=> Reaches(p, q)
      /\ \A p : InList(p)' <=> InList(p)
  BY <1>3, ReachesUnchanged
<1>5. \A p : InList(p) => /\ p \in Nodes /\ p # n /\ next'[p] = next[p]
                          /\ value'[p] = value[p]
                          /\ next[p] # Null => InList(next[p])
  BY <1>1, <1>2, ReachesNext, ReachesOrder, NullAssumption DEF TypeOK
<1>6. TypeOK'
  BY <1>1, <1>2, <1>3 DEF TypeOK, EnqPcs
<1>7. ListShape'
  <2>1. \A i \in 1 .. Last : linked[i] \in heap /\ next'[linked[i]] = next[linked[i]]
    BY <1>1, <1>5 DEF ListShape, InList
  <2> QED
    BY <1>1, <1>2, <1>3, <2>1 DEF ListShape, Last
<1>8. HeadTailOrder'
  BY <1>1, <1>3, <1>4, <1>5, ReachesOrder DEF HeadTailOrder
<1>9. ASSUME NEW u \in Threads PROVE NewNodeOf(u)'
  <2>1. /\ \A w \in Threads \ {t} : pc'[w] = pc[w] /\ new_node'[w] = new_node[w]
        /\ pc'[t] = "e_tail" /\ new_node'[t] = n
    BY <1>1, <1>2, <1>3 DEF TypeOK
  <2>2. \A w \in Threads : pc[w] \in EnqPcs => new_node[w] \in heap
    BY <1>1 DEF NewNodes, NewNodeOf
  <2>3. \A p \in heap : next'[p] = next[p] /\ value'[p] = value[p]
    BY <1>1, <1>2 DEF TypeOK
  <2>4. next'[n] = Null /\ value'[n] = v /\ ~InList(n)
    BY <1>1, <1>2, <1>5 DEF TypeOK
  <2>5. CASE u = t
    BY <1>2, <1>4, <2>1, <2>2, <2>4, <2>5 DEF NewNodeOf
  <2>6. CASE u # t
    <3>1. NewNodeOf(u)
      BY <1>1 DEF NewNodes
    <3> QED
      BY <1>2, <1>4, <2>1, <2>2, <2>3, <2>6, <3>1 DEF NewNodeOf
  <2> QED
    BY <2>5, <2>6
<1>10. ASSUME NEW u \in Threads PROVE EnqMemoryOf(u)' /\ DeqMemoryOf(u)'
  <2>1. CASE u = t
    BY <1>1, <1>3, <2>1 DEF TypeOK, EnqMemoryOf, DeqMemoryOf, EnqPcs, DeqPcs
  <2>2. CASE u # t
    <3>1. EnqMemoryOf(u) /\ DeqMemoryOf(u)
      BY <1>1 DEF EnqMemory, DeqMemory
    <3>2. pc'[u] = pc[u] /\ new_node'[u] = new_node[u]
      BY <1>1, <1>2, <1>3, <2>2 DEF TypeOK
    <3>3. EnqMemoryOf(u)'
      BY <1>1, <1>3, <1>4, <1>5, <3>1, <3>2, ReachesOrder
      DEF EnqMemoryOf, EnqPcs
    <3>4. DeqMemoryOf(u)'
      BY <1>1, <1>3, <1>4, <1>5, <3>1, <3>2, ReachesOrder
      DEF DeqMemoryOf, DeqPcs
    <3> QED
      BY <3>3, <3>4
  <2> QED
    BY <2>1, <2>2
<1>11. LinkedValues'
  BY <1>1, <1>3, <1>5 DEF LinkedValues, InList, Last
<1> QED
  BY <1>6, <1>7, <1>8, <1>9, <1>10, <1>11
  DEF IInv, NewNodes, EnqMemory, DeqMemory

\* The link: only the last node has a null next, and it is the tail.
LEMMA EnqLinkIInv ==
  ASSUME IInv, NEW t \in Threads, EnqLink(t) PROVE IInv'
<1>1. /\ ListShape /\ linked \in Seq(Nodes) /\ HeadTailOrder
      /\ NewNodes /\ EnqMemory /\ DeqMemory /\ LinkedValues /\ TypeOK
  BY DEF IInv, TypeOK
<1>2. CASE next[expected_tail[t]] # Null
  <2> USE DEF EnqLink, Goto, locals
  <2>1. TypeOK'
    BY <1>1, <1>2 DEF TypeOK, EnqPcs
  <2>2. EnqMemoryOf(t)' /\ DeqMemoryOf(t)'
    BY <1>1, <1>2 DEF TypeOK, EnqMemoryOf, DeqMemoryOf, DeqPcs
  <2> QED
    BY <1>1, <1>2, <2>1, <2>2, PointerStep DEF TypeOK, EnqPcs
<1>3. CASE next[expected_tail[t]] = Null
  <2> DEFINE n == new_node[t]
  <2>1. /\ pc[t] = "e_link" /\ pc' = [pc EXCEPT ![t] = "e_swing"]
        /\ next' = [next EXCEPT ![expected_tail[t]] = n]
        /\ linked' = Append(linked, n)
        /\ UNCHANGED <<head, tail, value, heap, new_node, expected_head,
                       expected_tail, nxt, val>>
    BY <1>3 DEF EnqLink, Goto, locals
  <2>2. Reaches(expected_tail[t], tail)
    BY <1>1, <2>1 DEF EnqMemory, EnqMemoryOf, EnqPcs
  <2>3. expected_tail[t] = tail /\ next[tail] = Null /\ tail \in Nodes
    BY <1>1, <1>3, <2>2, ReachesNext, NullAssumption DEF TypeOK
  <2>4. /\ n \in Nodes /\ n \in heap /\ value[n] \in Values
        /\ ~InList(n) /\ next[n] = Null
        /\ \A u \in Threads \ {t} : pc[u] \in EnqPcs => new_node[u] # n
    BY <1>1, <2>1 DEF NewNodes, NewNodeOf, EnqPcs, TypeOK
  <2>5. n # tail
    BY <1>1, <2>2, <2>4, ReachesOrder
  <2>6. next' = [next EXCEPT ![tail] = n] /\ next'[tail] = n /\ next'[n] = Null
    BY <1>1, <2>1, <2>3, <2>4, <2>5 DEF TypeOK
  <2>7. TypeOK'
    <3>1. linked' \in Seq(Nodes)
      BY <1>1, <2>1, <2>4
    <3>2. next' \in [Nodes -> Nodes \cup {Null}]
      BY <1>1, <2>1, <2>4 DEF TypeOK
    <3> QED
      BY <1>1, <2>1, <3>1, <3>2 DEF TypeOK, EnqPcs
  <2>8. /\ \A p, q : Reaches(p, q) => Reaches(p, q)'
        /\ \A p : InList(p)' <=> InList(p) \/ p = n
    BY <1>1, <2>1, <2>4, ReachesAppend
  <2>9. linked[Last] = tail /\ Last \in Nat /\ Last >= 1
    <3>1. PICK i \in 1 .. Last : linked[i] = tail
      BY <2>2 DEF Reaches
    <3> QED
      BY <1>1, <2>3, <3>1, NullAssumption DEF ListShape, Last
  <2>10. /\ Last' = Last + 1
         /\ linked'[Last + 1] = n
         /\ \A i \in 1 .. Last : linked'[i] = linked[i]
    BY <1>1, <2>1, <2>4 DEF Last
  <2>11. ListShape'
    <3>1. \A i \in 1 .. Last : linked[i] # n
      BY <2>4 DEF InList
    <3>2. \A i \in 1 .. Last : i < Last => linked[i] # tail
      BY <1>1, <2>9 DEF ListShape
    <3>3. \A i \in 1 .. Last : i < Last => next'[linked[i]] = linked'[i + 1]
      <4> SUFFICES ASSUME NEW i \in 1 .. Last, i < Last
                   PROVE  next'[linked[i]] = linked'[i + 1]
        OBVIOUS
      <4>1. next[linked[i]] = linked[i + 1] /\ linked[i] # tail
            /\ i + 1 \in 1 .. Last /\ linked[i] \in Nodes
        BY <1>1, <2>9, <3>2 DEF ListShape, Last
      <4> QED
        BY <1>1, <2>6, <2>10, <4>1 DEF TypeOK
    <3>4. next'[linked'[Last]] = linked'[Last + 1]
      BY <2>6, <2>9, <2>10
    <3>5. \A i \in 1 .. Last' : linked'[i] \in heap'
      <4>1. \A i \in 1 .. Last : linked'[i] \in heap'
        BY <1>1, <2>1, <2>10 DEF ListShape
      <4>2. linked'[Last + 1] \in heap'
        BY <2>1, <2>4, <2>10
      <4> QED
        BY <2>9, <2>10, <4>1, <4>2
    <3>6. \A i \in 1 .. Last' : i < Last' => next'[linked'[i]] = linked'[i + 1]
      BY <2>9, <2>10, <3>3, <3>4
    <3>7. next'[linked'[Last']] = Null
      BY <2>6, <2>10
    <3>8. \A i, j \in 1 .. Last' : linked'[i] = linked'[j] => i = j
      BY <1>1, <2>9, <2>10, <3>1 DEF ListShape
    <3> QED
      BY <2>9, <2>10, <3>5, <3>6, <3>7, <3>8 DEF ListShape
  <2>12. HeadTailOrder'
    BY <1>1, <2>1, <2>6, <2>8 DEF HeadTailOrder
  <2>13. \A p : p # tail => next'[p] = next[p]
    BY <1>1, <2>6 DEF TypeOK
  <2>14. ASSUME NEW u \in Threads PROVE NewNodeOf(u)'
    <3>1. NewNodeOf(u)
      BY <1>1 DEF NewNodes
    <3>2. \A w \in Threads \ {t} : pc'[w] = pc[w]
      BY <1>1, <2>1 DEF TypeOK
    <3>3. pc'[t] = "e_swing" /\ pc[t] \in EnqPcs
      BY <1>1, <2>1 DEF TypeOK, EnqPcs
    <3>4. CASE u = t
      BY <2>1, <2>4, <3>3, <3>4 DEF NewNodeOf
    <3>5. CASE u # t
      <4>1. pc[u] \in EnqPcs \ {"e_swing"} => new_node[u] # tail
        BY <1>1, <2>2, <3>1, ReachesOrder DEF NewNodeOf
      <4> QED
        BY <2>1, <2>4, <2>8, <2>13, <3>1, <3>2, <3>3, <3>5, <4>1 DEF NewNodeOf
    <3> QED
      BY <3>4, <3>5
  <2>15. ASSUME NEW u \in Threads PROVE EnqMemoryOf(u)' /\ DeqMemoryOf(u)'
    <3>1. EnqMemoryOf(u) /\ DeqMemoryOf(u)
      BY <1>1 DEF EnqMemory, DeqMemory
    <3>2. CASE u = t
      <4>1. pc'[u] = "e_swing"
        BY <1>1, <2>1, <3>2 DEF TypeOK
      <4> QED
        BY <2>1, <2>2, <2>3, <2>6, <2>8, <3>2, <4>1
        DEF EnqMemoryOf, DeqMemoryOf, EnqPcs, DeqPcs
    <3>3. CASE u # t
      <4>1. pc'[u] = pc[u]
        BY <1>1, <2>1, <3>3 DEF TypeOK
      <4>2. \A p : next[p] # Null => next'[p] = next[p]
        BY <2>3, <2>13
      <4>3. pc[u] = "e_swing" => new_node[u] # Null
        BY <1>1, NullAssumption DEF NewNodes, NewNodeOf, TypeOK, EnqPcs
      <4>4. EnqMemoryOf(u)'
        BY <2>1, <2>8, <3>1, <4>1, <4>2, <4>3 DEF EnqMemoryOf
      <4>5. DeqMemoryOf(u)'
        BY <2>1, <2>8, <3>1, <4>1, <4>2 DEF DeqMemoryOf
      <4> QED
        BY <4>4, <4>5
    <3> QED
      BY <3>2, <3>3
  <2>16. LinkedValues'
    <3>1. ASSUME NEW i \in 2 .. Last PROVE value'[linked'[i]] \in Values
      <4>1. i \in 1 .. Last /\ linked'[i] = linked[i]
        BY <2>9, <2>10
      <4>2. value[linked[i]] \in Values
        BY <1>1 DEF LinkedValues
      <4> QED
        BY <2>1, <4>1, <4>2
    <3>2. value'[linked'[Last + 1]] \in Values
      BY <2>1, <2>4, <2>10
    <3>3. ASSUME NEW i \in 2 .. Last' PROVE value'[linked'[i]] \in Values
      <4>1. i \in 2 .. Last \/ i = Last + 1
        BY <2>9, <2>10
      <4> QED
        BY <3>1, <3>2, <4>1
    <3> QED
      BY <3>3 DEF LinkedValues
  <2> QED
    BY <2>7, <2>11, <2>12, <2>14, <2>15, <2>16
    DEF IInv, NewNodes, EnqMemory, DeqMemory
<1> QED
  BY <1>2, <1>3

----------------------------------------------------------------------------
(* The theorems *)

LEMMA NextIInv == IInv /\ [Next]_vars => IInv'
<1> SUFFICES ASSUME IInv, [Next]_vars PROVE IInv'
  OBVIOUS
<1>1. CASE UNCHANGED vars
  BY <1>1 DEF vars, shared, locals, IInv, TypeOK, ListShape, HeadTailOrder,
     NewNodes, NewNodeOf, EnqMemory, EnqMemoryOf, DeqMemory, DeqMemoryOf,
     LinkedValues, InList, Reaches, Last
<1>2. ASSUME NEW t \in Threads, EnqStep(t) PROVE IInv'
  BY <1>2, EnqLoadTailIInv, EnqLoadNextIInv, EnqCheckIInv, EnqLinkIInv,
     EnqHelpIInv, EnqSwingIInv DEF EnqStep
<1>3. ASSUME NEW t \in Threads, DeqStep(t) PROVE IInv'
  BY <1>3, DeqLoadHeadIInv, DeqLoadTailIInv, DeqLoadNextIInv, DeqCheckIInv,
     DeqHelpIInv, DeqReadValueIInv, DeqSwingIInv, DeqReturnIInv DEF DeqStep
<1> QED
  BY <1>1, <1>2, <1>3, EnqBeginIInv, DeqBeginIInv DEF Next, Step

\* The inductive invariant holds in every reachable state: the list keeps its
\* shape, the head never passes the tail, the tail lags by one node at most,
\* and every local pointer still means what it meant when it was read.
THEOREM InvariantHolds == Spec => []IInv
  BY InitIInv, NextIInv, PTL DEF Spec

\* tail_ never lags more than a node behind the end, head_ never passes it.
THEOREM HeadTailOrderHolds == Spec => []HeadTailOrder
<1>1. IInv => HeadTailOrder
  BY DEF IInv
<1> QED
  BY <1>1, InvariantHolds, PTL

\* deq never reads a value through a null pointer (line 55).
THEOREM NoNullDereferenceHolds == Spec => []NoNullDereference
<1>1. IInv => NoNullDereference
  BY DEF IInv, DeqMemory, DeqMemoryOf, NoNullDereference
<1> QED
  BY <1>1, InvariantHolds, PTL

----------------------------------------------------------------------------
(* The abstract queue *)

Cells == Values \cup {NoValue}

\* What the definitions of HeadPosition and contents come to.
HeadAndContents ==
  /\ HeadPosition \in 1 .. Last /\ linked[HeadPosition] = head
  /\ \A h \in 1 .. Last : linked[h] = head => HeadPosition = h
  /\ Last \in Nat /\ Last - HeadPosition \in Nat
  /\ contents \in Seq(Cells)
  /\ Len(contents) = Last - HeadPosition
  /\ \A k \in 1 .. Last - HeadPosition :
       /\ HeadPosition + k \in 1 .. Last
       /\ contents[k] = value[linked[HeadPosition + k]]

LEMMA HeadAndContentsHold == IInv => HeadAndContents
<1> SUFFICES ASSUME IInv PROVE HeadAndContents
  OBVIOUS
<1>1. InList(head)
  BY ReachesOrder DEF IInv, TypeOK, HeadTailOrder
<1>2. \E h \in 1 .. Last : linked[h] = head
  BY <1>1 DEF InList
<1>3. HeadPosition \in 1 .. Last /\ linked[HeadPosition] = head
  BY <1>2 DEF HeadPosition
<1>4. \A h \in 1 .. Last : linked[h] = head => HeadPosition = h
  BY <1>3 DEF IInv, ListShape
<1>5. Last \in Nat
  BY DEF Last, IInv, TypeOK
<1>6. Last - HeadPosition \in Nat
  BY <1>3, <1>5
<1>7. \A k \in 1 .. Last - HeadPosition : HeadPosition + k \in 1 .. Last
  BY <1>3, <1>5
<1>8. \A k \in 1 .. Last - HeadPosition : value[linked[HeadPosition + k]] \in Cells
  BY <1>7 DEF IInv, TypeOK, Last, Cells
<1>9. contents \in Seq(Cells) /\ Len(contents) = Last - HeadPosition
  BY <1>6, <1>8 DEF contents
<1> QED
  BY <1>3, <1>4, <1>5, <1>6, <1>7, <1>9 DEF HeadAndContents, contents

\* The queue stays as it is when head_, the list and the values on it do.
LEMMA SameContents ==
  ASSUME HeadAndContents, HeadAndContents', UNCHANGED <<head, linked>>,
         \A p : InList(p) => value'[p] = value[p]
  PROVE  contents' = contents
<1>1. Last' = Last
  BY DEF Last
<1>2. HeadPosition' = HeadPosition
  BY <1>1 DEF HeadAndContents
<1>3. ASSUME NEW k \in 1 .. Last - HeadPosition
      PROVE  contents'[k] = contents[k]
  <2>1. InList(linked[HeadPosition + k])
    BY DEF HeadAndContents, InList
  <2> QED
    BY <1>1, <1>2, <2>1 DEF HeadAndContents
<1> QED
  BY <1>1, <1>2, <1>3, SeqEqual DEF HeadAndContents

\* A head without a next node has no value behind it.
LEMMA EmptyContents ==
  ASSUME IInv, HeadAndContents, next[head] = Null
  PROVE  contents = <<>>
<1>1. HeadPosition < Last => /\ next[head] = linked[HeadPosition + 1]
                             /\ HeadPosition + 1 \in 1 .. Last
  BY DEF HeadAndContents, IInv, ListShape
<1>2. \A k \in 1 .. Last : linked[k] \in Nodes
  BY DEF IInv, TypeOK, Last
<1>3. Len(contents) = 0
  BY <1>1, <1>2, NullAssumption DEF HeadAndContents
<1> QED
  BY <1>3, EmptySeq DEF HeadAndContents

\* The list has grown by a node n.
LEMMA AppendContents ==
  ASSUME HeadAndContents, HeadAndContents', linked \in Seq(Nodes), NEW n \in Nodes,
         linked' = Append(linked, n), head' = head, value' = value,
         value[n] \in Cells
  PROVE  contents' = Append(contents, value[n])
<1>1. /\ Last' = Last + 1 /\ linked'[Last + 1] = n
      /\ \A k \in 1 .. Last : linked'[k] = linked[k]
  BY DEF Last
<1>2. HeadPosition \in 1 .. Last /\ linked[HeadPosition] = head /\ Last \in Nat
  BY DEF HeadAndContents
<1>3. HeadPosition' = HeadPosition
  <2>1. HeadPosition \in 1 .. Last'
    BY <1>1, <1>2
  <2>2. linked'[HeadPosition] = head'
    BY <1>1, <1>2
  <2> QED
    BY <2>1, <2>2 DEF HeadAndContents
<1> DEFINE more == Append(contents, value[n])
<1>4. /\ more \in Seq(Cells)
      /\ Len(more) = Len(contents) + 1
      /\ \A k \in 1 .. Len(contents) : more[k] = contents[k]
      /\ more[Len(contents) + 1] = value[n]
  BY AppendProperties DEF HeadAndContents
<1>5. Len(contents') = Len(more)
  BY <1>1, <1>3, <1>4 DEF HeadAndContents
<1>6. ASSUME NEW k \in 1 .. Len(contents') PROVE contents'[k] = more[k]
  <2>1. contents'[k] = value[linked'[HeadPosition + k]]
    BY <1>1, <1>3 DEF HeadAndContents
  <2>2. CASE k \in 1 .. Len(contents)
    BY <1>1, <1>4, <2>1, <2>2 DEF HeadAndContents
  <2>3. CASE k = Len(contents) + 1
    <3>1. HeadPosition + k = Last + 1
      BY <2>3 DEF HeadAndContents
    <3> QED
      BY <1>1, <1>4, <2>1, <2>3, <3>1
  <2>4. Len(contents) \in Nat /\ Len(contents') = Len(contents) + 1
    BY <1>4, <1>5 DEF HeadAndContents
  <2>5. k \in 1 .. Len(contents) \/ k = Len(contents) + 1
    BY <2>4
  <2> QED
    BY <2>2, <2>3, <2>5
<1> HIDE DEF more
<1>7. contents' = more
  BY <1>4, <1>5, <1>6, SeqEqual DEF HeadAndContents
<1> QED
  BY <1>7 DEF more

\* The head has moved to the next node.
LEMMA TailContents ==
  ASSUME IInv, HeadAndContents, HeadAndContents', next[head] # Null,
         head' = next[head], linked' = linked, value' = value
  PROVE  /\ contents # <<>>
         /\ Head(contents) = value[next[head]]
         /\ contents' = Tail(contents)
<1>1. Last' = Last
  BY DEF Last
<1>2. /\ HeadPosition < Last /\ linked[HeadPosition + 1] = next[head]
      /\ HeadPosition + 1 \in 1 .. Last
  BY DEF HeadAndContents, IInv, ListShape
<1>3. HeadPosition' = HeadPosition + 1
  BY <1>1, <1>2 DEF HeadAndContents
<1>4. Len(contents) \in Nat /\ Len(contents) >= 1 /\ contents # <<>>
  BY <1>2, EmptySeq DEF HeadAndContents
<1>5. contents[1] = value[linked[HeadPosition + 1]]
  BY <1>4 DEF HeadAndContents
<1>6. Head(contents) = contents[1]
  BY <1>4 DEF HeadAndContents
<1>7. /\ Tail(contents) \in Seq(Cells)
      /\ Len(Tail(contents)) = Len(contents) - 1
      /\ \A k \in 1 .. Len(contents) - 1 : Tail(contents)[k] = contents[k + 1]
  BY <1>4, HeadTailProperties DEF HeadAndContents
<1>8. Len(contents') = Len(contents) - 1
  BY <1>1, <1>3, <1>4 DEF HeadAndContents
<1>9. ASSUME NEW k \in 1 .. Len(contents) - 1 PROVE contents'[k] = contents[k + 1]
  <2>1. contents'[k] = value[linked[HeadPosition + 1 + k]]
    BY <1>1, <1>3, <1>8 DEF HeadAndContents
  <2>2. k + 1 \in 1 .. Len(contents) /\ HeadPosition + (k + 1) = HeadPosition + 1 + k
    BY <1>4 DEF HeadAndContents
  <2>3. contents[k + 1] = value[linked[HeadPosition + (k + 1)]]
    BY <2>2 DEF HeadAndContents
  <2> QED
    BY <2>1, <2>2, <2>3
<1>10. contents' = Tail(contents)
  <2>1. contents' \in Seq(Cells) /\ Len(contents') = Len(Tail(contents))
    BY <1>7, <1>8 DEF HeadAndContents
  <2>2. \A k \in 1 .. Len(contents') : contents'[k] = Tail(contents)[k]
    BY <1>7, <1>8, <1>9
  <2> QED
    BY <1>7, <2>1, <2>2, SeqEqual
<1> QED
  BY <1>2, <1>4, <1>5, <1>6, <1>10

----------------------------------------------------------------------------
(* The abstract calls *)

\* Nobody but t notices anything.
OnlyCallOf(t) ==
  \A u \in Threads \ {t} :
    /\ pc'[u] = pc[u] /\ new_node'[u] = new_node[u] /\ nxt'[u] = nxt[u]
    /\ expected_head'[u] = expected_head[u]
    /\ expected_tail'[u] = expected_tail[u]
    /\ val'[u] = val[u]
    /\ pc[u] \in EnqPcs => value'[new_node[u]] = value[new_node[u]]

\* The call of t goes from phase p with datum d to phase q with datum e.
MovesOn(t, p, d, q, e) ==
  /\ callPhase[t] = p /\ callPhase' = [callPhase EXCEPT ![t] = q]
  /\ callData[t] = d /\ callData' = [callData EXCEPT ![t] = e]

LEMMA CallMovesOn ==
  ASSUME NEW t \in Threads, OnlyCallOf(t)
  PROVE  MovesOn(t, callPhase[t], callData[t], callPhase'[t], callData'[t])
<1>1. \A u \in Threads \ {t} : callPhase'[u] = callPhase[u] /\ callData'[u] = callData[u]
  BY DEF callPhase, callData, OnlyCallOf, SawEmpty
<1>2. callPhase = [u \in Threads |-> callPhase[u]] /\ callData = [u \in Threads |-> callData[u]]
  BY DEF callPhase, callData
<1>3. callPhase' = [u \in Threads |-> callPhase'[u]] /\ callData' = [u \in Threads |-> callData'[u]]
  BY DEF callPhase, callData
<1> QED
  BY <1>1, <1>2, <1>3 DEF MovesOn

\* A step of t that no caller and no other call sees.
LEMMA Unseen ==
  ASSUME NEW t \in Threads, OnlyCallOf(t), contents' = contents,
         callPhase'[t] = callPhase[t], callData'[t] = callData[t]
  PROVE  UNCHANGED Fifo!vars
<1>1. MovesOn(t, callPhase[t], callData[t], callPhase[t], callData[t])
  BY CallMovesOn
<1>2. callPhase' = callPhase /\ callData' = callData
  BY <1>1 DEF MovesOn, callPhase, callData
<1> QED
  BY <1>2 DEF Fifo!vars

----------------------------------------------------------------------------
(* The steps of enq *)

LEMMA EnqLoadTailFifo ==
  ASSUME IInv, HeadAndContents, HeadAndContents', NEW t \in Threads, EnqLoadTail(t)
  PROVE  UNCHANGED Fifo!vars
<1> USE DEF EnqLoadTail, Goto, shared, locals
<1>1. OnlyCallOf(t)
  BY DEF IInv, TypeOK, OnlyCallOf
<1>2. contents' = contents
  BY SameContents
<1>3. callPhase'[t] = callPhase[t] /\ callData'[t] = callData[t]
  BY DEF IInv, TypeOK, callPhase, callData, SawEmpty, EnqPcs, DeqPcs
<1> QED
  BY <1>1, <1>2, <1>3, Unseen

LEMMA EnqLoadNextFifo ==
  ASSUME IInv, HeadAndContents, HeadAndContents', NEW t \in Threads, EnqLoadNext(t)
  PROVE  UNCHANGED Fifo!vars
<1> USE DEF EnqLoadNext, Goto, shared, locals
<1>1. OnlyCallOf(t)
  BY DEF IInv, TypeOK, OnlyCallOf
<1>2. contents' = contents
  BY SameContents
<1>3. callPhase'[t] = callPhase[t] /\ callData'[t] = callData[t]
  BY DEF IInv, TypeOK, callPhase, callData, SawEmpty, EnqPcs, DeqPcs
<1> QED
  BY <1>1, <1>2, <1>3, Unseen

LEMMA EnqCheckFifo ==
  ASSUME IInv, HeadAndContents, HeadAndContents', NEW t \in Threads, EnqCheck(t)
  PROVE  UNCHANGED Fifo!vars
<1> USE DEF EnqCheck, Goto, shared, locals
<1>1. OnlyCallOf(t)
  BY DEF IInv, TypeOK, OnlyCallOf
<1>2. contents' = contents
  BY SameContents
<1>3. callPhase'[t] = callPhase[t] /\ callData'[t] = callData[t]
  BY DEF IInv, TypeOK, callPhase, callData, SawEmpty, EnqPcs, DeqPcs
<1> QED
  BY <1>1, <1>2, <1>3, Unseen

LEMMA EnqHelpFifo ==
  ASSUME IInv, HeadAndContents, HeadAndContents', NEW t \in Threads, EnqHelp(t)
  PROVE  UNCHANGED Fifo!vars
<1> USE DEF EnqHelp, Goto, shared, locals
<1>1. OnlyCallOf(t)
  BY DEF IInv, TypeOK, OnlyCallOf
<1>2. contents' = contents
  BY SameContents
<1>3. callPhase'[t] = callPhase[t] /\ callData'[t] = callData[t]
  BY DEF IInv, TypeOK, callPhase, callData, SawEmpty, EnqPcs, DeqPcs
<1> QED
  BY <1>1, <1>2, <1>3, Unseen

LEMMA EnqBeginFifo ==
  ASSUME IInv, HeadAndContents, HeadAndContents', NEW t \in Threads, EnqBegin(t)
  PROVE  Fifo!BeginEnq(t)
<1>1. PICK n \in Nodes \ heap, v \in Values :
         /\ value' = [value EXCEPT ![n] = v]
         /\ new_node' = [new_node EXCEPT ![t] = n]
  BY DEF EnqBegin
<1>2. /\ pc[t] = "idle" /\ pc' = [pc EXCEPT ![t] = "e_tail"]
      /\ UNCHANGED <<head, linked, expected_head, expected_tail, nxt, val>>
  BY DEF EnqBegin, Goto
<1>3. OnlyCallOf(t)
  BY <1>1, <1>2 DEF IInv, TypeOK, OnlyCallOf, NewNodes, NewNodeOf
<1>4. contents' = contents
  <2>1. \A p : InList(p) => value'[p] = value[p]
    BY <1>1 DEF InList, IInv, TypeOK, ListShape, Last
  <2> QED
    BY <1>2, <2>1, SameContents
<1>5. /\ callPhase[t] = "idle" /\ callPhase'[t] = "enq"
      /\ callData[t] = NoValue /\ callData'[t] = v
  BY <1>1, <1>2 DEF IInv, TypeOK, callPhase, callData, SawEmpty, EnqPcs
<1>6. MovesOn(t, "idle", NoValue, "enq", v)
  BY <1>3, <1>5, CallMovesOn
<1> QED
  BY <1>4, <1>6 DEF MovesOn, Fifo!BeginEnq, Fifo!Move

LEMMA EnqLinkFifo ==
  ASSUME IInv, IInv', HeadAndContents, HeadAndContents', NEW t \in Threads, EnqLink(t)
  PROVE  Fifo!TakeEffectEnq(t) \/ UNCHANGED Fifo!vars
<1>1. pc[t] = "e_link" /\ UNCHANGED <<head, tail, value, heap, locals>>
  BY DEF EnqLink
<1>2. CASE next[expected_tail[t]] # Null
  <2>1. pc' = [pc EXCEPT ![t] = "e_tail"] /\ linked' = linked
    BY <1>2 DEF EnqLink, Goto
  <2>2. OnlyCallOf(t)
    BY <1>1, <2>1 DEF IInv, TypeOK, OnlyCallOf, locals
  <2>3. callPhase'[t] = callPhase[t] /\ callData'[t] = callData[t]
    BY <1>1, <2>1 DEF IInv, TypeOK, callPhase, callData, SawEmpty, EnqPcs, locals
  <2> QED
    BY <1>1, <2>1, <2>2, <2>3, SameContents, Unseen
<1>3. CASE next[expected_tail[t]] = Null
  <2>1. pc' = [pc EXCEPT ![t] = "e_swing"] /\ linked' = Append(linked, new_node[t])
    BY <1>3 DEF EnqLink, Goto
  <2>2. new_node[t] \in Nodes /\ value[new_node[t]] \in Values
    BY <1>1 DEF IInv, NewNodes, NewNodeOf, EnqPcs, TypeOK
  <2>3. contents' = Append(contents, value[new_node[t]])
    BY <1>1, <2>1, <2>2, AppendContents DEF IInv, TypeOK, Cells
  <2>4. OnlyCallOf(t)
    BY <1>1, <2>1 DEF IInv, TypeOK, OnlyCallOf, locals
  <2>5. /\ callPhase[t] = "enq" /\ callPhase'[t] = "enqDone"
        /\ callData[t] = value[new_node[t]] /\ callData'[t] = callData[t]
    BY <1>1, <2>1 DEF IInv, TypeOK, callPhase, callData, SawEmpty, EnqPcs, locals
  <2>6. MovesOn(t, "enq", callData[t], "enqDone", callData[t])
    BY <2>4, <2>5, CallMovesOn
  <2>7. UNCHANGED callData
    BY <2>6 DEF MovesOn, callData
  <2> QED
    BY <2>3, <2>5, <2>6, <2>7 DEF MovesOn, Fifo!TakeEffectEnq, Fifo!Move
<1> QED
  BY <1>2, <1>3

LEMMA EnqSwingFifo ==
  ASSUME IInv, HeadAndContents, HeadAndContents', NEW t \in Threads, EnqSwing(t)
  PROVE  Fifo!EndEnq(t)
<1> USE DEF EnqSwing, Return
<1>1. OnlyCallOf(t)
  BY DEF IInv, TypeOK, OnlyCallOf
<1>2. contents' = contents
  BY SameContents
<1>3. /\ callPhase[t] = "enqDone" /\ callPhase'[t] = "idle" /\ callData'[t] = NoValue
  BY DEF IInv, TypeOK, callPhase, callData, SawEmpty, EnqPcs
<1>4. MovesOn(t, "enqDone", callData[t], "idle", NoValue)
  BY <1>1, <1>3, CallMovesOn
<1> QED
  BY <1>2, <1>4 DEF MovesOn, Fifo!EndEnq, Fifo!Move

----------------------------------------------------------------------------
(* The steps of deq *)

LEMMA DeqLoadHeadFifo ==
  ASSUME IInv, HeadAndContents, HeadAndContents', NEW t \in Threads, DeqLoadHead(t)
  PROVE  UNCHANGED Fifo!vars
<1> USE DEF DeqLoadHead, Goto, shared, locals
<1>1. OnlyCallOf(t)
  BY DEF IInv, TypeOK, OnlyCallOf
<1>2. contents' = contents
  BY SameContents
<1>3. callPhase'[t] = callPhase[t] /\ callData'[t] = callData[t]
  BY DEF IInv, TypeOK, callPhase, callData, SawEmpty, EnqPcs, DeqPcs
<1> QED
  BY <1>1, <1>2, <1>3, Unseen

LEMMA DeqLoadTailFifo ==
  ASSUME IInv, HeadAndContents, HeadAndContents', NEW t \in Threads, DeqLoadTail(t)
  PROVE  UNCHANGED Fifo!vars
<1> USE DEF DeqLoadTail, Goto, shared, locals
<1>1. OnlyCallOf(t)
  BY DEF IInv, TypeOK, OnlyCallOf
<1>2. contents' = contents
  BY SameContents
<1>3. callPhase'[t] = callPhase[t] /\ callData'[t] = callData[t]
  BY DEF IInv, TypeOK, callPhase, callData, SawEmpty, EnqPcs, DeqPcs, DeqMemory, DeqMemoryOf
<1> QED
  BY <1>1, <1>2, <1>3, Unseen

LEMMA DeqHelpFifo ==
  ASSUME IInv, HeadAndContents, HeadAndContents', NEW t \in Threads, DeqHelp(t)
  PROVE  UNCHANGED Fifo!vars
<1> USE DEF DeqHelp, Goto, shared, locals
<1>1. OnlyCallOf(t)
  BY DEF IInv, TypeOK, OnlyCallOf
<1>2. contents' = contents
  BY SameContents
<1>3. callPhase'[t] = callPhase[t] /\ callData'[t] = callData[t]
  BY DEF IInv, TypeOK, callPhase, callData, SawEmpty, EnqPcs, DeqPcs, DeqMemory, DeqMemoryOf
<1> QED
  BY <1>1, <1>2, <1>3, Unseen

LEMMA DeqReadValueFifo ==
  ASSUME IInv, HeadAndContents, HeadAndContents', NEW t \in Threads, DeqReadValue(t)
  PROVE  UNCHANGED Fifo!vars
<1> USE DEF DeqReadValue, Goto, shared, locals
<1>1. OnlyCallOf(t)
  BY DEF IInv, TypeOK, OnlyCallOf
<1>2. contents' = contents
  BY SameContents
<1>3. callPhase'[t] = callPhase[t] /\ callData'[t] = callData[t]
  BY DEF IInv, TypeOK, callPhase, callData, SawEmpty, EnqPcs, DeqPcs, DeqMemory, DeqMemoryOf
<1> QED
  BY <1>1, <1>2, <1>3, Unseen

LEMMA DeqBeginFifo ==
  ASSUME IInv, HeadAndContents, HeadAndContents', NEW t \in Threads, DeqBegin(t)
  PROVE  Fifo!BeginDeq(t)
<1> USE DEF DeqBegin, Goto, shared, locals
<1>1. OnlyCallOf(t)
  BY DEF IInv, TypeOK, OnlyCallOf
<1>2. contents' = contents
  BY SameContents
<1>3. /\ callPhase[t] = "idle" /\ callPhase'[t] = "deq"
      /\ callData[t] = NoValue /\ callData'[t] = NoValue
  BY DEF IInv, TypeOK, callPhase, callData, SawEmpty, EnqPcs
<1>4. MovesOn(t, "idle", NoValue, "deq", NoValue)
  BY <1>1, <1>3, CallMovesOn
<1>5. UNCHANGED callData
  BY <1>4 DEF MovesOn, callData
<1> QED
  BY <1>2, <1>4, <1>5 DEF MovesOn, Fifo!BeginDeq, Fifo!Move

\* A null next was read from the last node while it was head and tail.
LEMMA DeqLoadNextFifo ==
  ASSUME IInv, HeadAndContents, HeadAndContents', NEW t \in Threads, DeqLoadNext(t)
  PROVE  Fifo!SeeEmpty(t) \/ UNCHANGED Fifo!vars
<1> USE DEF DeqLoadNext, Goto, shared
<1>1. OnlyCallOf(t)
  BY DEF IInv, TypeOK, OnlyCallOf
<1>2. contents' = contents
  BY SameContents
<1>3. /\ callPhase[t] = "deq"
      /\ callPhase'[t] = IF SawEmpty(t)' THEN "deqEmpty" ELSE "deq"
      /\ callData[t] = NoValue /\ callData'[t] = NoValue
  BY DEF IInv, TypeOK, callPhase, callData, SawEmpty, EnqPcs
<1>4. CASE SawEmpty(t)'
  <2>1. next[expected_head[t]] = Null
    BY <1>4 DEF SawEmpty, IInv, TypeOK
  <2>2. Reaches(expected_head[t], head)
    BY DEF IInv, DeqMemory, DeqMemoryOf, DeqPcs
  <2>3. next[head] = Null
    BY <2>1, <2>2, ReachesNext, NullAssumption DEF IInv, TypeOK
  <2>4. contents = <<>>
    BY <2>3, EmptyContents
  <2>5. MovesOn(t, "deq", NoValue, "deqEmpty", NoValue)
    BY <1>1, <1>3, <1>4, CallMovesOn
  <2>6. UNCHANGED callData
    BY <2>5 DEF MovesOn, callData
  <2> QED
    BY <1>2, <2>4, <2>5, <2>6 DEF MovesOn, Fifo!SeeEmpty, Fifo!Move
<1>5. CASE ~SawEmpty(t)'
  BY <1>1, <1>2, <1>3, <1>5, Unseen
<1> QED
  BY <1>4, <1>5

\* A call that has seen an empty queue reports it or forgets it.
LEMMA DeqCheckFifo ==
  ASSUME IInv, HeadAndContents, HeadAndContents', NEW t \in Threads, DeqCheck(t)
  PROVE  Fifo!EndDeqEmpty(t) \/ Fifo!Forget(t) \/ UNCHANGED Fifo!vars
<1>1. pc[t] = "d_check" /\ UNCHANGED shared
  BY DEF DeqCheck
<1>2. OnlyCallOf(t)
  BY DEF IInv, TypeOK, OnlyCallOf, DeqCheck, Goto, Return, shared, locals
<1>3. contents' = contents
  BY <1>1, SameContents DEF shared
<1>4. callData[t] = NoValue /\ callData'[t] = NoValue
  BY DEF IInv, TypeOK, callData, DeqCheck, Goto, Return, locals, EnqPcs
<1>5. callPhase[t] = IF SawEmpty(t) THEN "deqEmpty" ELSE "deq"
  BY <1>1 DEF callPhase, EnqPcs
<1>6. CASE SawEmpty(t)
  <2>1. callPhase'[t] \in {"idle", "deq"}
    BY <1>1, <1>6
    DEF IInv, TypeOK, callPhase, SawEmpty, DeqCheck, Goto, Return, EnqPcs
  <2>2. MovesOn(t, "deqEmpty", NoValue, callPhase'[t], NoValue)
    BY <1>2, <1>4, <1>5, <1>6, CallMovesOn
  <2>3. UNCHANGED callData
    BY <2>2 DEF MovesOn, callData
  <2> QED
    BY <1>3, <2>1, <2>2, <2>3 DEF MovesOn, Fifo!EndDeqEmpty, Fifo!Forget, Fifo!Move
<1>7. CASE ~SawEmpty(t)
  <2>1. callPhase'[t] = "deq"
    BY <1>1, <1>7 DEF IInv, TypeOK, callPhase, SawEmpty, DeqCheck, Goto, EnqPcs
  <2> QED
    BY <1>2, <1>3, <1>4, <1>5, <1>7, <2>1, Unseen
<1> QED
  BY <1>6, <1>7

LEMMA DeqSwingFifo ==
  ASSUME IInv, IInv', HeadAndContents, HeadAndContents', NEW t \in Threads, DeqSwing(t)
  PROVE  Fifo!TakeEffectDeq(t) \/ UNCHANGED Fifo!vars
<1>1. pc[t] = "d_swing" /\ UNCHANGED <<tail, next, value, heap, linked, locals>>
  BY DEF DeqSwing, Goto
<1>2. callPhase[t] = "deq" /\ callData[t] = NoValue
  BY <1>1 DEF callPhase, callData, SawEmpty, EnqPcs
<1>3. CASE head # expected_head[t]
  <2>1. pc' = [pc EXCEPT ![t] = "d_head"] /\ head' = head
    BY <1>3 DEF DeqSwing, Goto
  <2>2. OnlyCallOf(t)
    BY <1>1, <2>1 DEF IInv, TypeOK, OnlyCallOf, locals
  <2>3. callPhase'[t] = "deq" /\ callData'[t] = NoValue
    BY <1>1, <2>1 DEF IInv, TypeOK, callPhase, callData, SawEmpty, EnqPcs
  <2>4. contents' = contents
    BY <1>1, <2>1, SameContents
  <2> QED
    BY <1>2, <2>2, <2>3, <2>4, Unseen
<1>4. CASE head = expected_head[t]
  <2>1. pc' = [pc EXCEPT ![t] = "d_return"] /\ head' = nxt[t]
    BY <1>4 DEF DeqSwing, Goto
  <2>2. nxt[t] # Null /\ nxt[t] = next[head] /\ val[t] = value[nxt[t]]
    BY <1>1, <1>4 DEF IInv, DeqMemory, DeqMemoryOf
  <2>3. contents # <<>> /\ Head(contents) = val[t] /\ contents' = Tail(contents)
    BY <1>1, <2>1, <2>2, TailContents
  <2>4. OnlyCallOf(t)
    BY <1>1, <2>1 DEF IInv, TypeOK, OnlyCallOf, locals
  <2>5. callPhase'[t] = "deqDone" /\ callData'[t] = val[t]
    BY <1>1, <2>1 DEF IInv, TypeOK, callPhase, callData, SawEmpty, EnqPcs, locals
  <2>6. MovesOn(t, "deq", NoValue, "deqDone", val[t])
    BY <1>2, <2>4, <2>5, CallMovesOn
  <2> QED
    BY <2>3, <2>6 DEF MovesOn, Fifo!TakeEffectDeq, Fifo!Move
<1> QED
  BY <1>3, <1>4

LEMMA DeqReturnFifo ==
  ASSUME IInv, HeadAndContents, HeadAndContents', NEW t \in Threads, DeqReturn(t)
  PROVE  Fifo!EndDeq(t)
<1> USE DEF DeqReturn, Return, shared
<1>1. OnlyCallOf(t)
  BY DEF IInv, TypeOK, OnlyCallOf
<1>2. contents' = contents
  BY SameContents
<1>3. callPhase[t] = "deqDone" /\ callPhase'[t] = "idle" /\ callData'[t] = NoValue
  BY DEF IInv, TypeOK, callPhase, callData, SawEmpty, EnqPcs
<1>4. MovesOn(t, "deqDone", callData[t], "idle", NoValue)
  BY <1>1, <1>3, CallMovesOn
<1> QED
  BY <1>2, <1>4 DEF MovesOn, Fifo!EndDeq, Fifo!Move

----------------------------------------------------------------------------
(* The theorem *)

LEMMA InitFifo == Init => Fifo!Init
<1> SUFFICES ASSUME Init PROVE Fifo!Init
  OBVIOUS
<1>1. HeadAndContents /\ Last = 1
  BY InitIInv, HeadAndContentsHold DEF Init, Last
<1>2. Len(contents) = 0 /\ contents = <<>>
  BY <1>1, EmptySeq DEF HeadAndContents
<1>3. callPhase = [t \in Threads |-> "idle"] /\ callData = [t \in Threads |-> NoValue]
  BY DEF Init, callPhase, callData, SawEmpty, EnqPcs
<1> QED
  BY <1>2, <1>3 DEF Fifo!Init

LEMMA NextFifo ==
  IInv /\ IInv' /\ HeadAndContents /\ HeadAndContents' /\ [Next]_vars
    => [Fifo!Next]_(Fifo!vars)
<1> SUFFICES ASSUME IInv, IInv', HeadAndContents, HeadAndContents', [Next]_vars
             PROVE  [Fifo!Next]_(Fifo!vars)
  OBVIOUS
<1>1. CASE UNCHANGED vars
  BY <1>1, SameContents
  DEF vars, shared, locals, Fifo!vars, callPhase, callData, SawEmpty
<1>2. ASSUME NEW t \in Threads, EnqBegin(t) \/ EnqStep(t)
      PROVE  \/ Fifo!BeginEnq(t) \/ Fifo!TakeEffectEnq(t) \/ Fifo!EndEnq(t)
             \/ UNCHANGED Fifo!vars
  BY <1>2, EnqBeginFifo, EnqLoadTailFifo, EnqLoadNextFifo, EnqCheckFifo, EnqLinkFifo,
     EnqHelpFifo, EnqSwingFifo DEF EnqStep
<1>3. ASSUME NEW t \in Threads, DeqBegin(t) \/ DeqStep(t)
      PROVE  \/ Fifo!BeginDeq(t) \/ Fifo!TakeEffectDeq(t) \/ Fifo!EndDeq(t)
             \/ Fifo!SeeEmpty(t) \/ Fifo!Forget(t) \/ Fifo!EndDeqEmpty(t)
             \/ UNCHANGED Fifo!vars
  BY <1>3, DeqBeginFifo, DeqLoadHeadFifo, DeqLoadTailFifo, DeqLoadNextFifo, DeqCheckFifo,
     DeqHelpFifo, DeqReadValueFifo, DeqSwingFifo, DeqReturnFifo DEF DeqStep
<1> QED
  BY <1>1, <1>2, <1>3 DEF Next, Step, Fifo!Next

\* The queue is linearizable: each enq appends its value at one instant between
\* its call and its return, each deq takes the oldest value at one, or has
\* seen the queue empty at one.
THEOREM ImplementsFifoHolds == Spec => ImplementsFifo
  BY InvariantHolds, HeadAndContentsHold, InitFifo, NextFifo, PTL
  DEF Spec, ImplementsFifo, Fifo!Spec

=============================================================================
