--------------------------- MODULE OrderedList_proofs ---------------------------
(***************************************************************************)
(* Proofs about OrderedList, for any sets of threads, values and nodes:    *)
(* the inductive invariant IInv, and what it says of every reachable list; *)
(* that every remove takes the node of an add of its own; and that a list  *)
(* which is first filled and then emptied implements the set.              *)
(***************************************************************************)
EXTENDS OrderedListPhases, TLAPS, FiniteSetTheorems

----------------------------------------------------------------------------
(* What a step leaves alone *)

\* The order of the pointers that a thread holds depends on its own variables
\* and on the values of the nodes, which do not change once a node is in the
\* list: no step of another thread disturbs it, whatever it writes into a word.
LEMMA InOrderKept ==
  ASSUME NEW u \in Threads, InOrder(u), TypeOK,
         heap \subseteq heap', \A n \in heap : value'[n] = value[n],
         pc'[u] = pc[u], arg'[u] = arg[u], pred'[u] = pred[u], cur'[u] = cur[u],
         cur_next'[u] = cur_next[u], cur_removed'[u] = cur_removed[u]
  PROVE  InOrder(u)'
BY DEF InOrder

\* Any exchange that points a node at a larger one keeps the list sorted.
LEMMA SortedAfterExchange ==
  ASSUME TypeOK, Sorted, NEW n \in heap, NEW m \in heap, NEW r \in BOOLEAN,
         UNCHANGED <<value, heap>>,
         value[n] # SENTINEL_END, value[n] < value[m],
         next_and_removed' = [next_and_removed EXCEPT ![n] = Word(m, r)]
  PROVE  Sorted'
<1>1. ASSUME NEW k \in heap
      PROVE  IF value[k] = SENTINEL_END
             THEN next_and_removed'[k] = Word(Null, FALSE)
             ELSE next_and_removed'[k].next \in heap
                    /\ value[k] < value[next_and_removed'[k].next]
  <2>1. CASE k = n
    BY <2>1 DEF Word, TypeOK
  <2>2. CASE k # n
    BY <2>2 DEF Sorted, NextOf, TypeOK
  <2> QED
    BY <2>1, <2>2
<1> QED
  BY <1>1 DEF Sorted, NextOf, Word

\* A node that is not the last one has a larger successor.
LEMMA NextIsLarger ==
  ASSUME Sorted, NEW n \in heap, value[n] # SENTINEL_END
  PROVE  NextOf(n) \in heap /\ value[n] < value[NextOf(n)]
BY DEF Sorted

\* Nothing in the list is removed at its end.
LEMMA LastIsNotRemoved ==
  ASSUME Sorted, NEW n \in heap, value[n] = SENTINEL_END
  PROVE  ~Removed(n) /\ NextOf(n) = Null
BY DEF Sorted, Removed, NextOf, Word

----------------------------------------------------------------------------
(* The inductive invariant *)

LEMMA InitIInv == Init => IInv
<1> SUFFICES ASSUME Init PROVE IInv
  OBVIOUS
<1>1. PICK e \in Nodes \ {head} :
        /\ heap = {head, e}
        /\ value = [n \in Nodes |-> IF n = head THEN SENTINEL_BEGIN
                                                ELSE SENTINEL_END]
        /\ next_and_removed =
             [n \in Nodes |-> Word(IF n = head THEN e ELSE Null, FALSE)]
  BY DEF Init
<1>2. head \in Nodes
  BY DEF Init
<1>3. TypeOK
  BY <1>1, <1>2 DEF Init, TypeOK, Word, Pcs, Operations
<1>4. HeadOK /\ NewNodesOK
  BY <1>1, <1>2 DEF HeadOK, NewNodesOK, Removed, Word
<1>5. Sorted
  <2>1. value[head] = SENTINEL_BEGIN /\ NextOf(head) = e
    BY <1>1, <1>2 DEF NextOf, Word
  <2>2. value[e] = SENTINEL_END /\ next_and_removed[e] = Word(Null, FALSE)
    BY <1>1, <1>2
  <2>3. heap = {head, e} /\ value[head] < value[e] /\ value[head] # SENTINEL_END
    BY <1>1, <2>1, <2>2, ValuesAssumption
  <2>4. NextOf(head) \in heap /\ value[head] < value[NextOf(head)]
    BY <2>1, <2>3
  <2> QED
    BY <2>2, <2>3, <2>4, Zenon DEF Sorted
<1>6. ArgOK /\ \A t \in Threads : InOrder(t)
  BY DEF Init, ArgOK, InOrder
<1> QED
  BY <1>3, <1>4, <1>5, <1>6 DEF IInv

\* A step of t that changes neither the nodes nor the locals of the others
\* needs to be looked at from the side of t only.
LEMMA LocalStep ==
  ASSUME IInv, NEW t \in Threads, TypeOK', UNCHANGED shared,
         \A u \in Threads \ {t} :
           /\ pc'[u] = pc[u] /\ arg'[u] = arg[u]
           /\ pred'[u] = pred[u] /\ cur'[u] = cur[u]
           /\ cur_next'[u] = cur_next[u] /\ cur_removed'[u] = cur_removed[u],
         pc'[t] # "idle" => arg'[t] \in Values,
         InOrder(t)'
  PROVE  IInv'
<1>1. HeadOK' /\ NewNodesOK' /\ Sorted'
  BY DEF IInv, HeadOK, NewNodesOK, Sorted, shared, NextOf, Removed
<1>2. ArgOK'
  BY DEF IInv, ArgOK
<1>3. ASSUME NEW u \in Threads \ {t} PROVE InOrder(u)'
  BY <1>3, InOrderKept DEF IInv, shared
<1> QED
  BY <1>1, <1>2, <1>3 DEF IInv

\* The same for a step that exchanges the word of a node in the list for a
\* pointer to a larger one.
LEMMA ExchangeStep ==
  ASSUME IInv, NEW t \in Threads, TypeOK', UNCHANGED <<head, value, heap>>,
         NEW n \in heap, NEW m \in heap, NEW r \in BOOLEAN,
         value[n] # SENTINEL_END, value[n] < value[m],
         next_and_removed' = [next_and_removed EXCEPT ![n] = Word(m, r)],
         \A u \in Threads \ {t} :
           /\ pc'[u] = pc[u] /\ arg'[u] = arg[u]
           /\ pred'[u] = pred[u] /\ cur'[u] = cur[u]
           /\ cur_next'[u] = cur_next[u] /\ cur_removed'[u] = cur_removed[u],
         pc'[t] # "idle" => arg'[t] \in Values,
         InOrder(t)'
  PROVE  IInv'
<1>1. Sorted'
  BY SortedAfterExchange DEF IInv
<1>2. HeadOK' /\ ArgOK' /\ NewNodesOK'
  BY DEF IInv, HeadOK, ArgOK, NewNodesOK, Removed, TypeOK
<1>3. ASSUME NEW u \in Threads \ {t} PROVE InOrder(u)'
  BY <1>3, InOrderKept DEF IInv
<1> QED
  BY <1>1, <1>2, <1>3 DEF IInv

\* The steps of find.
LEMMA FindStep ==
  ASSUME IInv, NEW t \in Threads, Find(t)
  PROVE  IInv'
<1> USE ValuesAssumption DEF Goto
<1>1. TypeOK /\ Sorted /\ InOrder(t) /\ HeadOK /\ ArgOK
  BY DEF IInv
<1>2. CASE FindStart(t)
  <2>1. NextOf(head) \in heap /\ value[head] < value[NextOf(head)]
    BY <1>1, NextIsLarger DEF HeadOK
  <2>2. TypeOK'
    BY <1>1, <1>2, <2>1 DEF TypeOK, FindStart, shared, call, history, Pcs
  <2>3. pc'[t] = "find_cur" /\ pred'[t] = head /\ cur'[t] = NextOf(head)
    BY <1>1, <1>2 DEF TypeOK, FindStart
  <2>4. InOrder(t)'
    BY <1>1, <1>2, <2>1, <2>3
       DEF InOrder, FindStart, shared, call, HeadOK, ArgOK
  <2> QED
    BY <1>1, <1>2, <2>2, <2>4, LocalStep
       DEF FindStart, TypeOK, ArgOK, call
<1>3. CASE FindLoadCur(t)
  <2>1. cur[t] \in heap /\ pc[t] = "find_cur"
    BY <1>1, <1>3 DEF InOrder, FindLoadCur
  <2>2. TypeOK'
    BY <1>1, <1>3, <2>1
       DEF TypeOK, FindLoadCur, shared, call, history, Pcs, NextOf, Removed
  <2>3. /\ pc'[t] = "find_pred"
        /\ cur_next'[t] = NextOf(cur[t]) /\ cur_removed'[t] = Removed(cur[t])
    BY <1>1, <1>3 DEF TypeOK, FindLoadCur
  <2>4. IF value[cur[t]] = SENTINEL_END
        THEN ~cur_removed'[t]
        ELSE cur_next'[t] \in heap /\ value[cur[t]] < value[cur_next'[t]]
    BY <1>1, <2>1, <2>3, NextIsLarger, LastIsNotRemoved
  <2>5. InOrder(t)'
    BY <1>1, <1>3, <2>1, <2>3, <2>4 DEF InOrder, FindLoadCur, shared, call
  <2> QED
    BY <1>1, <1>3, <2>2, <2>5, LocalStep
       DEF FindLoadCur, TypeOK, ArgOK, call
<1>4. CASE FindLoadPred(t)
  <2>1. /\ pc[t] = "find_pred" /\ pred[t] \in heap /\ cur[t] \in heap
        /\ arg[t] \in Values
    BY <1>1, <1>4 DEF InOrder, FindLoadPred, ArgOK
  <2>4. pred_next' \in [Threads -> Nodes \cup {Null}]
    BY <1>1, <1>4, <2>1 DEF TypeOK, FindLoadPred, NextOf
  <2>5. /\ pc' \in [Threads -> Pcs] /\ result' \in [Threads -> BOOLEAN]
        /\ pred' \in [Threads -> Nodes \cup {Null}]
        /\ cur' \in [Threads -> Nodes \cup {Null}]
    <3>1. CASE cur_removed[t]
      BY <1>1, <1>4, <3>1 DEF TypeOK, FindLoadPred, Pcs
    <3>2. CASE ~cur_removed[t]
      BY <1>1, <1>4, <3>2 DEF TypeOK, FindLoadPred, FindAdvance, Decide, Pcs
    <3> QED
      BY <3>1, <3>2
  <2>2. TypeOK'
    BY <1>1, <1>4, <2>4, <2>5 DEF TypeOK, FindLoadPred, shared, call, history
  <2>3. InOrder(t)'
    <3>1. CASE cur_removed[t]
      <4>1. pc'[t] = "find_unlink" /\ UNCHANGED <<pred, cur>>
        BY <1>1, <1>4, <3>1 DEF TypeOK, FindLoadPred
      <4> QED
        BY <1>1, <1>4, <2>1, <3>1, <4>1
           DEF InOrder, FindLoadPred, shared, call
    <3>2. CASE ~cur_removed[t]
      BY <1>1, <1>4, <2>1, <3>2
         DEF TypeOK, InOrder, FindLoadPred, FindAdvance, Decide, shared, call
    <3> QED
      BY <3>1, <3>2
  <2> QED
    BY <1>1, <1>4, <2>1, <2>2, <2>3, LocalStep
       DEF FindLoadPred, FindAdvance, TypeOK, call
<1>5. CASE FindUnlink(t)
  <2>1. /\ pc[t] = "find_unlink" /\ pred[t] \in heap /\ cur[t] \in heap
        /\ cur_next[t] \in heap /\ arg[t] \in Values
        /\ value[pred[t]] < arg[t] /\ value[pred[t]] < value[cur[t]]
        /\ value[cur[t]] < value[cur_next[t]]
    BY <1>1, <1>5 DEF InOrder, FindUnlink, ArgOK
  <2>2. value[pred[t]] # SENTINEL_END /\ value[pred[t]] < value[cur_next[t]]
    BY <1>1, <2>1 DEF TypeOK
  <2>7. next_and_removed' \in [Nodes -> [next : Nodes \cup {Null}, removed : BOOLEAN]]
    <3>1. Word(cur_next[t], FALSE) \in [next : Nodes \cup {Null}, removed : BOOLEAN]
      BY <1>1 DEF TypeOK, Word
    <3> QED
      BY <1>1, <1>5, <3>1 DEF TypeOK, FindUnlink, Exchange
  <2>8. /\ head' = head /\ value' = value /\ heap' = heap
        /\ logical' = logical /\ balance' = balance
        /\ op' = op /\ arg' = arg /\ pred' = pred /\ cur_next' = cur_next
        /\ cur_removed' = cur_removed /\ pred_next' = pred_next /\ result' = result
    BY <1>5 DEF FindUnlink, call, history
  <2>9. /\ pc' \in [Threads -> Pcs]
        /\ cur' \in [Threads -> Nodes \cup {Null}]
    BY <1>1, <1>5 DEF TypeOK, FindUnlink, Pcs
  <2>3. TypeOK'
    BY <1>1, <2>7, <2>8, <2>9 DEF TypeOK
  <2>4. InOrder(t)'
    BY <1>1, <1>5, <2>1, <2>2 DEF TypeOK, InOrder, FindUnlink, call
  <2>10. \A u \in Threads \ {t} : pc'[u] = pc[u] /\ cur'[u] = cur[u]
    BY <1>1, <1>5 DEF TypeOK, FindUnlink
  <2>11. pc'[t] # "idle" => arg'[t] \in Values
    BY <2>1, <2>8
  <2>5. CASE next_and_removed[pred[t]] = Word(pred_next[t], FALSE)
    <3>1. next_and_removed' =
            [next_and_removed EXCEPT ![pred[t]] = Word(cur_next[t], FALSE)]
      BY <1>5, <2>5 DEF FindUnlink, Exchange
    <3> QED
      BY <2>1, <2>2, <2>3, <2>4, <2>8, <2>10, <2>11, <3>1, ExchangeStep
  <2>6. CASE next_and_removed[pred[t]] # Word(pred_next[t], FALSE)
    <3>1. UNCHANGED shared
      BY <1>5, <2>6, <2>8 DEF FindUnlink, Exchange, shared
    <3> QED
      BY <2>3, <2>4, <2>8, <2>10, <2>11, <3>1, LocalStep
  <2> QED
    BY <2>5, <2>6
<1>6. CASE FindReload(t)
  <2>1. /\ pc[t] = "find_reload" /\ pred[t] \in heap /\ cur[t] \in heap
        /\ arg[t] \in Values
        /\ value[pred[t]] < arg[t] /\ value[pred[t]] < value[cur[t]]
    BY <1>1, <1>6 DEF InOrder, FindReload, ArgOK
  <2>2. IF value[cur[t]] = SENTINEL_END
        THEN ~Removed(cur[t])
        ELSE NextOf(cur[t]) \in heap /\ value[cur[t]] < value[NextOf(cur[t])]
    BY <1>1, <2>1, NextIsLarger, LastIsNotRemoved
  <2>5. /\ NextOf(cur[t]) \in Nodes \cup {Null} /\ Removed(cur[t]) \in BOOLEAN
        /\ cur_next' \in [Threads -> Nodes \cup {Null}]
        /\ cur_removed' \in [Threads -> BOOLEAN]
    BY <1>1, <1>6, <2>1 DEF TypeOK, FindReload, NextOf, Removed
  <2>6. /\ pc' \in [Threads -> Pcs] /\ result' \in [Threads -> BOOLEAN]
        /\ pred' \in [Threads -> Nodes \cup {Null}]
        /\ cur' \in [Threads -> Nodes \cup {Null}]
    <3>1. CASE Removed(cur[t])
      BY <1>1, <1>6, <3>1 DEF TypeOK, FindReload, Pcs
    <3>2. CASE ~Removed(cur[t])
      <4>1. FindAdvance(t, cur[t], NextOf(cur[t]))
        BY <1>6, <3>2 DEF FindReload
      <4> QED
        BY <1>1, <2>1, <2>5, <4>1 DEF TypeOK, FindAdvance, Decide, Pcs
    <3> QED
      BY <3>1, <3>2
  <2>3. TypeOK'
    BY <1>1, <1>6, <2>5, <2>6 DEF TypeOK, FindReload, shared, call, history
  <2>4. InOrder(t)'
    <3>1. CASE Removed(cur[t])
      <4>1. /\ pc'[t] = "find_unlink" /\ UNCHANGED <<pred, cur>>
            /\ cur_next'[t] = NextOf(cur[t])
        BY <1>1, <1>6, <3>1 DEF TypeOK, FindReload
      <4> QED
        BY <1>1, <1>6, <2>1, <2>2, <3>1, <4>1
           DEF InOrder, FindReload, shared, call
    <3>2. CASE ~Removed(cur[t])
      BY <1>1, <1>6, <2>1, <2>2, <3>2
         DEF TypeOK, InOrder, FindReload, FindAdvance, Decide, shared, call
    <3> QED
      BY <3>1, <3>2
  <2>7. /\ UNCHANGED shared /\ arg' = arg
        /\ \A u \in Threads \ {t} : cur_next'[u] = cur_next[u]
                                      /\ cur_removed'[u] = cur_removed[u]
    BY <1>1, <1>6 DEF TypeOK, FindReload, call
  <2>8. \A u \in Threads \ {t} : /\ pc'[u] = pc[u] /\ pred'[u] = pred[u]
                                 /\ cur'[u] = cur[u]
    BY <1>1, <1>6 DEF TypeOK, FindReload, FindAdvance
  <2> QED
    BY <2>1, <2>3, <2>4, <2>7, <2>8, LocalStep
<1> QED
  BY <1>2, <1>3, <1>4, <1>5, <1>6 DEF Find

\* add links its node between two neighbours that fit.
LEMMA InsertStep ==
  ASSUME IInv, NEW t \in Threads, Insert(t)
  PROVE  IInv'
<1> USE ValuesAssumption DEF Goto
<1>1. TypeOK /\ Sorted /\ InOrder(t) /\ HeadOK /\ ArgOK
  BY DEF IInv
<1>2. /\ pc[t] = "insert" /\ pred[t] \in heap /\ cur[t] \in heap
      /\ arg[t] \in Values /\ value[pred[t]] < arg[t] /\ arg[t] < value[cur[t]]
  BY <1>1 DEF InOrder, Insert, ArgOK
<1>3. /\ head' = head /\ op' = op /\ arg' = arg /\ pred' = pred /\ cur' = cur
      /\ cur_next' = cur_next /\ cur_removed' = cur_removed /\ pred_next' = pred_next
  BY DEF Insert, call
<1>4. CASE next_and_removed[pred[t]] = Word(cur[t], FALSE)
  <2>1. pc' = [pc EXCEPT ![t] = "return"] /\ LinkNew(t)
    BY <1>4 DEF Insert
  <2>2. PICK n \in Nodes \ heap :
          /\ heap' = heap \cup {n}
          /\ value' = [value EXCEPT ![n] = arg[t]]
          /\ next_and_removed' =
               [next_and_removed EXCEPT ![n] = Word(cur[t], FALSE),
                                        ![pred[t]] = Word(n, FALSE)]
    BY <2>1 DEF LinkNew
  <2>3. /\ n # pred[t] /\ n # head /\ heap \subseteq Nodes
        /\ \A k \in heap : value'[k] = value[k]
        /\ value'[n] = arg[t]
        /\ next_and_removed'[n] = Word(cur[t], FALSE)
        /\ next_and_removed'[pred[t]] = Word(n, FALSE)
        /\ \A k \in heap \ {pred[t]} : next_and_removed'[k] = next_and_removed[k]
    BY <1>1, <1>2, <2>2 DEF TypeOK, HeadOK
  <2>4. TypeOK'
    <3>1. /\ Word(cur[t], FALSE) \in [next : Nodes \cup {Null}, removed : BOOLEAN]
          /\ Word(n, FALSE) \in [next : Nodes \cup {Null}, removed : BOOLEAN]
      BY <1>1 DEF TypeOK, Word
    <3>2. next_and_removed' \in [Nodes -> [next : Nodes \cup {Null}, removed : BOOLEAN]]
      BY <1>1, <2>2, <3>1 DEF TypeOK
    <3>3. /\ result' \in [Threads -> BOOLEAN] /\ logical' \subseteq Values
          /\ balance' \in [Values -> Int]
      BY <1>1, <1>2, <2>1 DEF TypeOK, LinkNew, Decide
    <3>4. pc' \in [Threads -> Pcs] /\ heap' \subseteq Nodes
      BY <1>1, <2>1, <2>2 DEF TypeOK, Pcs
    <3>5. value' \in [Nodes -> Values \cup {SENTINEL_BEGIN, SENTINEL_END}]
      BY <1>1, <1>2, <2>2 DEF TypeOK
    <3> QED
      BY <1>1, <1>3, <3>2, <3>3, <3>4, <3>5 DEF TypeOK
  <2>5. Sorted'
    <3>1. SUFFICES ASSUME NEW k \in heap'
                   PROVE  IF value'[k] = SENTINEL_END
                          THEN next_and_removed'[k] = Word(Null, FALSE)
                          ELSE next_and_removed'[k].next \in heap'
                                 /\ value'[k] < value'[next_and_removed'[k].next]
      BY DEF Sorted, NextOf, Word
    <3>2. CASE k = n
      BY <1>2, <2>2, <2>3, <3>2 DEF Word
    <3>3. CASE k = pred[t]
      <4>1. /\ value'[k] = value[k] /\ value[k] # SENTINEL_END
            /\ value[k] < value'[n] /\ n \in heap'
        BY <1>1, <1>2, <2>2, <2>3, <3>3 DEF TypeOK
      <4>2. next_and_removed'[k].next = n
        BY <2>3, <3>3 DEF Word
      <4> QED
        BY <4>1, <4>2
    <3>4. CASE k \in heap \ {pred[t]}
      <4>1. /\ value'[k] = value[k] /\ k \in heap /\ heap \subseteq heap'
            /\ next_and_removed'[k] = next_and_removed[k]
        BY <2>2, <2>3, <3>4
      <4>2. CASE value[k] = SENTINEL_END
        BY <1>1, <4>1, <4>2 DEF Sorted
      <4>3. CASE value[k] # SENTINEL_END
        <5>1. NextOf(k) \in heap /\ value[k] < value[NextOf(k)]
          BY <1>1, <4>1, <4>3, NextIsLarger
        <5>2. value'[NextOf(k)] = value[NextOf(k)]
          BY <2>3, <5>1
        <5> QED
          BY <4>1, <4>3, <5>1, <5>2 DEF NextOf
      <4> QED
        BY <4>2, <4>3
    <3> QED
      BY <2>2, <3>2, <3>3, <3>4
  <2>6. HeadOK' /\ ArgOK'
    BY <1>1, <1>2, <1>3, <2>1, <2>2, <2>3 DEF HeadOK, ArgOK, TypeOK
  <2>8. NewNodesOK'
    BY <1>1, <1>2, <2>2 DEF IInv, NewNodesOK, Removed, TypeOK
  <2>7. ASSUME NEW u \in Threads PROVE InOrder(u)'
    <3>1. CASE u = t
      BY <1>1, <2>1, <3>1 DEF InOrder, TypeOK
    <3>2. CASE u # t
      <4>1. pc'[u] = pc[u] /\ heap \subseteq heap' /\ InOrder(u)
        BY <1>1, <2>1, <2>2, <3>2 DEF TypeOK, IInv
      <4> QED
        BY <1>1, <1>3, <2>3, <4>1, InOrderKept
    <3> QED
      BY <3>1, <3>2
  <2> QED
    BY <2>4, <2>5, <2>6, <2>7, <2>8 DEF IInv
<1>5. CASE next_and_removed[pred[t]] # Word(cur[t], FALSE)
  <2>1. /\ UNCHANGED shared /\ result' = result /\ UNCHANGED history
        /\ pc' = [pc EXCEPT ![t] = "find"]
    BY <1>3, <1>5 DEF Insert, shared
  <2>2. TypeOK'
    BY <1>1, <1>3, <2>1 DEF TypeOK, shared, history, Pcs
  <2>3. InOrder(t)'
    BY <1>1, <2>1 DEF InOrder, TypeOK
  <2> QED
    BY <1>1, <1>2, <1>3, <2>1, <2>2, <2>3, LocalStep DEF TypeOK
<1> QED
  BY <1>4, <1>5

\* The exchanges of remove: the one that sets the flag and the one that
\* unlinks, both of which write the successor that was read from cur.
LEMMA RemoveStep ==
  ASSUME IInv, NEW t \in Threads, Load(t) \/ Mark(t) \/ Unlink(t)
  PROVE  IInv'
<1> USE ValuesAssumption DEF Goto
<1>1. TypeOK /\ Sorted /\ InOrder(t) /\ HeadOK /\ ArgOK
  BY DEF IInv
<1>2. /\ pc[t] \in {"load", "mark", "unlink"}
      /\ pred[t] \in heap /\ cur[t] \in heap /\ arg[t] \in Values
      /\ value[pred[t]] < arg[t] /\ value[cur[t]] = arg[t]
      /\ value[cur[t]] # SENTINEL_END /\ value[pred[t]] # SENTINEL_END
  <2>1. pc[t] \in {"load", "mark", "unlink"}
    BY DEF Load, Mark, Unlink
  <2>2. /\ pred[t] \in heap /\ cur[t] \in heap /\ arg[t] \in Values
        /\ value[pred[t]] < arg[t] /\ value[cur[t]] = arg[t]
    BY <1>1, <2>1 DEF InOrder, ArgOK
  <2> QED
    BY <2>1, <2>2
<1>3. CASE Load(t)
  <2>1. NextOf(cur[t]) \in heap /\ value[cur[t]] < value[NextOf(cur[t])]
    BY <1>1, <1>2, NextIsLarger
  <2>2. TypeOK'
    BY <1>1, <1>2, <1>3, <2>1
       DEF TypeOK, Load, shared, call, history, Pcs, Removed
  <2>3. InOrder(t)'
    BY <1>1, <1>2, <1>3, <2>1 DEF TypeOK, InOrder, Load, shared, call
  <2> QED
    BY <1>1, <1>2, <1>3, <2>2, <2>3, LocalStep DEF Load, TypeOK, call
<1>4. ASSUME Mark(t) \/ Unlink(t)
      PROVE  /\ cur_next[t] \in heap /\ value[cur[t]] < value[cur_next[t]]
             /\ \A r \in BOOLEAN :
                  Word(cur_next[t], r) \in [next : Nodes \cup {Null}, removed : BOOLEAN]
  BY <1>1, <1>4 DEF InOrder, Mark, Unlink, TypeOK, Word
<1>5. CASE Mark(t)
  <2>1. /\ head' = head /\ value' = value /\ heap' = heap /\ op' = op /\ arg' = arg
        /\ pred' = pred /\ cur' = cur /\ cur_next' = cur_next
        /\ cur_removed' = cur_removed /\ pred_next' = pred_next
    BY <1>5 DEF Mark, call
  <2>2. next_and_removed' \in [Nodes -> [next : Nodes \cup {Null}, removed : BOOLEAN]]
    <3>1. \/ UNCHANGED next_and_removed
          \/ next_and_removed' =
               [next_and_removed EXCEPT ![cur[t]] = Word(cur_next[t], TRUE)]
      BY <1>5 DEF Mark, Exchange
    <3>2. Word(cur_next[t], TRUE) \in [next : Nodes \cup {Null}, removed : BOOLEAN]
      BY <1>4, <1>5
    <3> QED
      BY <1>1, <3>1, <3>2 DEF TypeOK
  <2>3. /\ result' \in [Threads -> BOOLEAN] /\ logical' \subseteq Values
        /\ balance' \in [Values -> Int] /\ pc' \in [Threads -> Pcs]
    <3>1. \/ pc' = [pc EXCEPT ![t] = "unlink"]
          \/ pc' = [pc EXCEPT ![t] = "find"]
      BY <1>5 DEF Mark
    <3>2. pc' \in [Threads -> Pcs]
      BY <1>1, <3>1 DEF TypeOK, Pcs
    <3>3. CASE /\ result' = [result EXCEPT ![t] = TRUE]
               /\ logical' = logical \ {arg[t]}
               /\ balance' = [balance EXCEPT ![arg[t]] = @ - 1]
      BY <1>1, <1>2, <3>2, <3>3 DEF TypeOK
    <3>4. CASE result' = result /\ logical' = logical /\ balance' = balance
      BY <1>1, <3>2, <3>4 DEF TypeOK
    <3> QED
      BY <1>5, <3>3, <3>4 DEF Mark, Decide, history
  <2>4. TypeOK'
    BY <1>1, <2>1, <2>2, <2>3 DEF TypeOK
  <2>5. InOrder(t)'
    BY <1>1, <1>2, <1>4, <1>5, <2>1 DEF TypeOK, InOrder, Mark
  <2>6. \A u \in Threads \ {t} : pc'[u] = pc[u]
    BY <1>1, <1>5 DEF TypeOK, Mark
  <2>7. CASE next_and_removed[cur[t]] = Word(cur_next[t], FALSE)
    <3>1. next_and_removed' =
            [next_and_removed EXCEPT ![cur[t]] = Word(cur_next[t], TRUE)]
      BY <1>5, <2>7 DEF Mark, Exchange
    <3> QED
      BY <1>2, <1>4, <1>5, <2>1, <2>4, <2>5, <2>6, <3>1, ExchangeStep
  <2>8. CASE next_and_removed[cur[t]] # Word(cur_next[t], FALSE)
    <3>1. UNCHANGED shared
      BY <1>5, <2>1, <2>8 DEF Mark, Exchange, shared
    <3> QED
      BY <1>2, <2>1, <2>4, <2>5, <2>6, <3>1, LocalStep
  <2> QED
    BY <2>7, <2>8
<1>6. CASE Unlink(t)
  <2>1. /\ head' = head /\ value' = value /\ heap' = heap /\ op' = op /\ arg' = arg
        /\ pred' = pred /\ cur' = cur /\ cur_next' = cur_next
        /\ cur_removed' = cur_removed /\ pred_next' = pred_next
        /\ result' = result /\ logical' = logical /\ balance' = balance
        /\ pc' = [pc EXCEPT ![t] = "return"]
    BY <1>6 DEF Unlink, call, locals, history
  <2>2. next_and_removed' \in [Nodes -> [next : Nodes \cup {Null}, removed : BOOLEAN]]
    BY <1>1, <1>4, <1>6 DEF TypeOK, Unlink, Exchange
  <2>3. TypeOK'
    BY <1>1, <2>1, <2>2 DEF TypeOK, Pcs
  <2>4. InOrder(t)'
    BY <1>1, <2>1 DEF TypeOK, InOrder
  <2>5. \A u \in Threads \ {t} : pc'[u] = pc[u]
    BY <1>1, <2>1 DEF TypeOK
  <2>6. value[pred[t]] < value[cur_next[t]]
    BY <1>1, <1>2, <1>4, <1>6 DEF TypeOK
  <2>7. CASE next_and_removed[pred[t]] = Word(cur[t], FALSE)
    <3>1. next_and_removed' =
            [next_and_removed EXCEPT ![pred[t]] = Word(cur_next[t], FALSE)]
      BY <1>6, <2>7 DEF Unlink, Exchange
    <3> QED
      BY <1>2, <1>4, <1>6, <2>1, <2>3, <2>4, <2>5, <2>6, <3>1, ExchangeStep
  <2>8. CASE next_and_removed[pred[t]] # Word(cur[t], FALSE)
    <3>1. UNCHANGED shared
      BY <1>6, <2>1, <2>8 DEF Unlink, Exchange, shared
    <3> QED
      BY <1>2, <2>1, <2>3, <2>4, <2>5, <3>1, LocalStep
  <2> QED
    BY <2>7, <2>8
<1> QED
  BY <1>3, <1>5, <1>6

\* contains, the start of a call and its end.
LEMMA OtherStep ==
  ASSUME IInv, NEW t \in Threads,
         \/ Walk(t) \/ Flag(t) \/ Return(t)
         \/ \E o \in Operations, v \in Values : Call(t, o, v)
  PROVE  IInv'
<1> USE ValuesAssumption DEF Goto
<1>1. TypeOK /\ Sorted /\ InOrder(t) /\ HeadOK /\ ArgOK
  BY DEF IInv
<1>2. CASE Walk(t)
  <2>1. /\ pc[t] = "walk" /\ cur[t] \in heap /\ arg[t] \in Values
        /\ value[cur[t]] < arg[t]
    BY <1>1, <1>2 DEF InOrder, Walk, ArgOK
  <2>2. NextOf(cur[t]) \in heap
    BY <1>1, <2>1, NextIsLarger
  <2>3. /\ UNCHANGED shared /\ arg' = arg /\ pred' = pred /\ cur_next' = cur_next
        /\ cur_removed' = cur_removed
        /\ cur' = [cur EXCEPT ![t] = NextOf(cur[t])]
    BY <1>2 DEF Walk, call
  <2>4. /\ pc' = [pc EXCEPT ![t] = pc'[t]] /\ pc'[t] \in {"walk", "flag", "return"}
        /\ pc'[t] = "walk" => value[NextOf(cur[t])] < arg[t]
    BY <1>1, <1>2 DEF Walk, TypeOK
  <2>5. TypeOK'
    BY <1>1, <1>2, <2>2, <2>3, <2>4 DEF TypeOK, Walk, shared, call, history, Pcs
  <2>6. InOrder(t)'
    BY <1>1, <2>2, <2>3, <2>4 DEF InOrder, TypeOK, shared
  <2> QED
    BY <1>1, <2>1, <2>3, <2>4, <2>5, <2>6, LocalStep DEF TypeOK
<1>3. CASE Flag(t)
  <2>1. TypeOK'
    BY <1>1, <1>3 DEF TypeOK, InOrder, Flag, Decide, Removed, shared, call, history, Pcs
  <2>2. InOrder(t)'
    BY <1>1, <1>3 DEF InOrder, Flag, TypeOK
  <2> QED
    BY <1>1, <1>3, <2>1, <2>2, LocalStep DEF Flag, TypeOK, ArgOK, call
<1>4. CASE Return(t)
  <2>1. TypeOK'
    BY <1>1, <1>4 DEF TypeOK, Return, shared, history, Pcs, Operations
  <2>2. InOrder(t)'
    BY <1>1, <1>4 DEF InOrder, Return, TypeOK
  <2> QED
    BY <1>1, <1>4, <2>1, <2>2, LocalStep DEF Return, TypeOK
<1>5. ASSUME NEW o \in Operations, NEW v \in Values, Call(t, o, v)
      PROVE  IInv'
  <2>1. pc'[t] \in {"walk", "find"} /\ pc' = [pc EXCEPT ![t] = pc'[t]]
    BY <1>1, <1>5 DEF Call, TypeOK
  <2>2. /\ UNCHANGED <<shared, pred, cur_next, cur_removed>>
        /\ arg' = [arg EXCEPT ![t] = v]
        /\ cur' = [cur EXCEPT ![t] = IF o = "contains" THEN head ELSE Null]
        /\ pc'[t] = "walk" => o = "contains"
    BY <1>1, <1>5 DEF Call, TypeOK
  <2>3. TypeOK'
    BY <1>1, <1>5, <2>1, <2>2 DEF TypeOK, Call, shared, history, Pcs
  <2>4. InOrder(t)'
    BY <1>1, <2>1, <2>2 DEF InOrder, TypeOK, HeadOK, shared
  <2> QED
    BY <1>1, <2>1, <2>2, <2>3, <2>4, LocalStep DEF TypeOK
<1> QED
  BY <1>2, <1>3, <1>4, <1>5

LEMMA NextIInv == IInv /\ [Next]_vars => IInv'
<1> SUFFICES ASSUME IInv, [Next]_vars PROVE IInv'
  OBVIOUS
<1>1. ASSUME NEW t \in Threads, Step(t) PROVE IInv'
  BY <1>1, FindStep, InsertStep, RemoveStep, OtherStep DEF Step
<1>2. ASSUME NEW t \in Threads, \E o \in Operations, v \in Values : Call(t, o, v)
      PROVE  IInv'
  BY <1>2, OtherStep
<1>3. CASE UNCHANGED vars
  BY <1>3 DEF vars, shared, call, locals, history, IInv, TypeOK, HeadOK, ArgOK,
             NewNodesOK, Removed,
             Sorted, InOrder, NextOf
<1> QED
  BY <1>1, <1>2, <1>3 DEF Next

\* Whatever threads, values and nodes there are, every reachable state of the
\* list satisfies the inductive invariant.
THEOREM InvariantHolds == Spec => []IInv
<1> QED
  BY InitIInv, NextIInv, PTL DEF Spec

----------------------------------------------------------------------------
(* What it implies *)

\* next leads from every node, linked or removed, to a larger one: the loops
\* of find and contains meet no value twice and end at SENTINEL_END.
THEOREM SortedHolds == Spec => []Sorted
<1>1. IInv => Sorted
  BY DEF IInv
<1> QED
  BY <1>1, InvariantHolds, PTL

LEMMA Frozen ==
  ASSUME IInv, [Next]_vars, NEW n \in Nodes, Removed(n)
  PROVE  UNCHANGED <<next_and_removed[n], value[n]>>
<1>1. TypeOK /\ NewNodesOK /\ \A t \in Threads : InOrder(t)
  BY DEF IInv
<1>2. \A p : next_and_removed[n] # Word(p, FALSE)
  BY DEF Removed, Word
<1>3. n \in heap
  BY <1>1 DEF NewNodesOK
<1>4. ASSUME NEW m \in Nodes, NEW p, NEW w, Exchange(m, Word(p, FALSE), w)
      PROVE  next_and_removed'[n] = next_and_removed[n]
  BY <1>1, <1>2, <1>4 DEF Exchange, TypeOK
<1>5. ASSUME NEW t \in Threads, FindUnlink(t) \/ Mark(t) \/ Unlink(t)
      PROVE  UNCHANGED <<next_and_removed[n], value[n]>>
  <2>1. pc[t] \in {"find_unlink", "mark", "unlink"} /\ value' = value
    BY <1>5 DEF FindUnlink, Mark, Unlink, Goto
  <2>2. pred[t] \in Nodes /\ cur[t] \in Nodes
    BY <1>1, <2>1 DEF InOrder, TypeOK
  <2> QED
    BY <1>4, <1>5, <2>1, <2>2 DEF FindUnlink, Mark, Unlink
<1>6. ASSUME NEW t \in Threads, Insert(t)
      PROVE  UNCHANGED <<next_and_removed[n], value[n]>>
  <2>1. CASE next_and_removed[pred[t]] = Word(cur[t], FALSE)
    <3>1. PICK m \in Nodes \ heap :
            /\ value' = [value EXCEPT ![m] = arg[t]]
            /\ next_and_removed' =
                 [next_and_removed EXCEPT ![m] = Word(cur[t], FALSE),
                                          ![pred[t]] = Word(m, FALSE)]
      BY <1>6, <2>1 DEF Insert, LinkNew
    <3>2. n # m /\ n # pred[t]
      BY <1>2, <1>3, <2>1
    <3> QED
      BY <1>1, <3>1, <3>2 DEF TypeOK
  <2>2. CASE next_and_removed[pred[t]] # Word(cur[t], FALSE)
    BY <1>6, <2>2 DEF Insert
  <2> QED
    BY <2>1, <2>2
<1>7. ASSUME NEW t \in Threads,
             \/ FindStart(t) \/ FindLoadCur(t) \/ FindLoadPred(t) \/ FindReload(t)
             \/ Load(t) \/ Walk(t) \/ Flag(t) \/ Return(t)
             \/ \E o \in Operations, v \in Values : Call(t, o, v)
      PROVE  UNCHANGED <<next_and_removed[n], value[n]>>
  BY <1>7 DEF FindStart, FindLoadCur, FindLoadPred, FindReload, Load, Walk, Flag,
              Return, Call, shared
<1>8. CASE UNCHANGED vars
  BY <1>8 DEF vars, shared
<1> QED
  BY <1>5, <1>6, <1>7, <1>8 DEF Next, Step, Find

\* A removed node is frozen: every exchange expects a word without the flag.
THEOREM RemovedFrozenHolds == Spec => RemovedFrozen
<1>1. IInv /\ [Next]_vars =>
        [\A n \in Nodes : Removed(n) => UNCHANGED <<next_and_removed[n], value[n]>>]_vars
  BY Frozen
<1> QED
  BY <1>1, InvariantHolds, PTL DEF Spec, RemovedFrozen

----------------------------------------------------------------------------
(* Every remove has its add *)

\* The nodes that hold v and are not removed.
Live(v) == {n \in heap : value[n] = v /\ ~Removed(n)}

\* The heap is finite at any moment, so the nodes of a value can be counted.
Counted == IsFiniteSet(heap) /\ EveryRemoveHasItsAdd

LEMMA LiveIsFinite ==
  ASSUME Counted
  PROVE  \A v : IsFiniteSet(Live(v))
<1>1. \A v : Live(v) \in SUBSET heap
  BY DEF Live
<1> QED
  BY <1>1, FS_Subset DEF Counted

LEMMA InitCounted == Init => Counted
<1> SUFFICES ASSUME Init PROVE Counted
  OBVIOUS
<1>1. PICK e \in Nodes \ {head} :
        /\ heap = {head, e}
        /\ value = [n \in Nodes |-> IF n = head THEN SENTINEL_BEGIN
                                                ELSE SENTINEL_END]
  BY DEF Init
<1>2. IsFiniteSet(heap)
  <2>1. IsFiniteSet({head}) /\ heap = {head} \cup {e}
    BY <1>1, FS_Singleton
  <2> QED
    BY <2>1, FS_AddElement
<1>3. \A v \in Values : Live(v) = {}
  BY <1>1, ValuesAssumption DEF Init, Live
<1>4. Cardinality({}) = 0 /\ balance = [v \in Values |-> 0]
  BY FS_EmptySet DEF Init
<1> QED
  BY <1>2, <1>3, <1>4 DEF Counted, EveryRemoveHasItsAdd, Live

\* A step that moves pointers but sets no flag changes no count.
LEMMA SameLive ==
  ASSUME Counted, UNCHANGED <<heap, value, balance>>,
         \A n \in heap : Removed(n)' <=> Removed(n)
  PROVE  Counted'
<1>1. \A v \in Values : Live(v)' = Live(v)
  BY DEF Live
<1> QED
  BY <1>1 DEF Counted, EveryRemoveHasItsAdd, Live

\* An exchange of words without the flag, whether it succeeds or not.
LEMMA ExchangeOfPointers ==
  ASSUME TypeOK, NEW n \in Nodes, NEW p, NEW q, Exchange(n, Word(p, FALSE), Word(q, FALSE))
  PROVE  \A k \in Nodes : Removed(k)' <=> Removed(k)
BY DEF TypeOK, Exchange, Removed, Word

\* The exchange of add that succeeds: one node more for the value.
LEMMA InsertCounted ==
  ASSUME IInv, Counted, NEW t \in Threads, Insert(t)
  PROVE  Counted'
<1>1. CASE next_and_removed[pred[t]] # Word(cur[t], FALSE)
  BY <1>1, SameLive DEF Insert, history, Removed
<1>2. CASE next_and_removed[pred[t]] = Word(cur[t], FALSE)
  <2>1. PICK n \in Nodes \ heap :
          /\ heap' = heap \cup {n}
          /\ value' = [value EXCEPT ![n] = arg[t]]
          /\ next_and_removed' =
               [next_and_removed EXCEPT ![n] = Word(cur[t], FALSE),
                                        ![pred[t]] = Word(n, FALSE)]
    BY <1>2 DEF Insert, LinkNew
  <2>2. balance' = [balance EXCEPT ![arg[t]] = @ + 1]
    BY <1>2 DEF Insert, LinkNew
  <2>3. pc[t] = "insert" /\ pred[t] \in heap /\ arg[t] \in Values /\ TypeOK
    BY DEF Insert, IInv, InOrder, ArgOK
  <2>4. \A k \in heap : value'[k] = value[k] /\ (Removed(k)' <=> Removed(k))
    BY <1>2, <2>1, <2>3 DEF TypeOK, Removed, Word
  <2>5. value'[n] = arg[t] /\ ~Removed(n)'
    BY <2>1, <2>3 DEF TypeOK, Removed, Word
  <2>6. ASSUME NEW v \in Values
        PROVE  balance'[v] = Cardinality(Live(v)')
    <3>1. CASE v = arg[t]
      <4>1. Live(v)' = Live(v) \cup {n} /\ n \notin Live(v)
        BY <2>1, <2>4, <2>5, <3>1 DEF Live
      <4>2. Cardinality(Live(v)') = Cardinality(Live(v)) + 1
        BY <4>1, LiveIsFinite, FS_AddElement
      <4> QED
        BY <2>2, <2>3, <3>1, <4>2 DEF Counted, EveryRemoveHasItsAdd, Live, TypeOK
    <3>2. CASE v # arg[t]
      <4>1. Live(v)' = Live(v)
        BY <2>1, <2>4, <2>5, <3>2 DEF Live
      <4> QED
        BY <2>2, <2>3, <3>2, <4>1 DEF Counted, EveryRemoveHasItsAdd, Live, TypeOK
    <3> QED
      BY <3>1, <3>2
  <2>8. EveryRemoveHasItsAdd'
    BY <2>6 DEF EveryRemoveHasItsAdd, Live
  <2>9. IsFiniteSet(heap')
    BY <2>1, FS_AddElement DEF Counted
  <2> QED
    BY <2>8, <2>9 DEF Counted
<1> QED
  BY <1>1, <1>2

\* The exchange that sets the flag was made on a word without it: the node it
\* takes out of the count was in it.
LEMMA MarkCounted ==
  ASSUME IInv, Counted, NEW t \in Threads, Mark(t)
  PROVE  Counted'
<1>1. UNCHANGED <<heap, value>> /\ TypeOK /\ pc[t] = "mark"
  BY DEF Mark, IInv
<1>2. cur[t] \in heap /\ cur[t] \in Nodes /\ value[cur[t]] = arg[t] /\ arg[t] \in Values
  BY <1>1 DEF IInv, InOrder, ArgOK, TypeOK
<1>3. CASE next_and_removed[cur[t]] # Word(cur_next[t], FALSE)
  BY <1>1, <1>3, SameLive DEF Mark, Exchange, history, Removed
<1>4. CASE next_and_removed[cur[t]] = Word(cur_next[t], FALSE)
  <2>1. /\ next_and_removed' = [next_and_removed EXCEPT ![cur[t]] = Word(cur_next[t], TRUE)]
        /\ balance' = [balance EXCEPT ![arg[t]] = @ - 1]
    BY <1>4 DEF Mark, Exchange
  <2>2. /\ ~next_and_removed[cur[t]].removed /\ next_and_removed'[cur[t]].removed
        /\ \A k \in heap \ {cur[t]} : next_and_removed'[k] = next_and_removed[k]
    BY <1>1, <1>2, <1>4, <2>1 DEF TypeOK, Word
  <2>3. ASSUME NEW v \in Values
        PROVE  balance'[v] = Cardinality(Live(v)')
    <3>1. CASE v = arg[t]
      <4>1. Live(v)' = Live(v) \ {cur[t]} /\ cur[t] \in Live(v)
        BY <1>1, <1>2, <2>2, <3>1 DEF Live, Removed
      <4>2. Cardinality(Live(v)') = Cardinality(Live(v)) - 1
        BY <4>1, LiveIsFinite, FS_RemoveElement
      <4> QED
        BY <1>1, <1>2, <2>1, <3>1, <4>2 DEF Counted, EveryRemoveHasItsAdd, Live, TypeOK
    <3>2. CASE v # arg[t]
      <4>1. Live(v)' = Live(v)
        BY <1>1, <1>2, <2>2, <3>2 DEF Live, Removed
      <4> QED
        BY <1>1, <1>2, <2>1, <3>2, <4>1 DEF Counted, EveryRemoveHasItsAdd, Live, TypeOK
    <3> QED
      BY <3>1, <3>2
  <2> QED
    BY <1>1, <2>3 DEF Counted, EveryRemoveHasItsAdd, Live
<1> QED
  BY <1>3, <1>4

LEMMA NextCounted == IInv /\ Counted /\ [Next]_vars => Counted'
<1> SUFFICES ASSUME IInv, Counted, [Next]_vars PROVE Counted'
  OBVIOUS
<1>1. TypeOK
  BY DEF IInv
<1>2. ASSUME NEW t \in Threads, FindUnlink(t) \/ Unlink(t)
      PROVE  Counted'
  <2>1. UNCHANGED <<heap, value, balance>>
    BY <1>2 DEF FindUnlink, Unlink, history
  <2>2. pc[t] \in {"find_unlink", "unlink"} /\ pred[t] \in Nodes
    BY <1>1, <1>2 DEF FindUnlink, Unlink, Goto, IInv, InOrder, TypeOK
  <2>3. \E p, q : Exchange(pred[t], Word(p, FALSE), Word(q, FALSE))
    BY <1>2 DEF FindUnlink, Unlink
  <2>4. \A k \in heap : Removed(k)' <=> Removed(k)
    BY <1>1, <2>2, <2>3, ExchangeOfPointers DEF TypeOK
  <2> QED
    BY <2>1, <2>4, SameLive
<1>3. ASSUME NEW t \in Threads,
             \/ FindStart(t) \/ FindLoadCur(t) \/ FindLoadPred(t) \/ FindReload(t)
             \/ Load(t) \/ Walk(t) \/ Flag(t) \/ Return(t)
             \/ \E o \in Operations, v \in Values : Call(t, o, v)
      PROVE  Counted'
  <2>1. UNCHANGED <<heap, value, balance, next_and_removed>>
    BY <1>3 DEF FindStart, FindLoadCur, FindLoadPred, FindReload, Load, Walk, Flag,
                Return, Call, shared, history
  <2> QED
    BY <2>1, SameLive DEF Removed
<1>4. CASE UNCHANGED vars
  BY <1>4, SameLive DEF vars, shared, history, Removed
<1> QED
  BY <1>2, <1>3, <1>4, InsertCounted, MarkCounted DEF Next, Step, Find

\* No two removes take the same add: what has been added and not removed is
\* there once for every add, whatever the threads do to the pointers.
THEOREM EveryRemoveHasItsAddHolds == Spec => []EveryRemoveHasItsAdd
<1>1. Counted => EveryRemoveHasItsAdd
  BY DEF Counted
<1> QED
  BY <1>1, InitCounted, NextCounted, InvariantHolds, PTL DEF Spec

----------------------------------------------------------------------------
(* Adds and then removes *)

\* No node that is not removed has a value between those of m and n.
NothingBetween(m, n) ==
  \A k \in heap : value[m] < value[k] /\ value[k] < value[n] => Removed(k)

\* The locations at which pred and cur are a pair that find has got to.
PairPcs == {"find_cur", "find_pred", "find_unlink", "find_reload", "insert",
            "load", "mark", "unlink"}

\* What a call relies on from one access to the next.
CallOK(t) ==
  /\ pc[t] \in {"idle", "walk", "flag"} => op[t] = "contains"
  /\ pc[t] \in {"find"} \cup PairPcs => op[t] # "contains"
  /\ pc[t] = "insert" => op[t] = "add"
  /\ pc[t] \in {"load", "mark", "unlink"} => op[t] = "remove"
  /\ pc[t] \in PairPcs /\ phase = "drain" => NothingBetween(pred[t], cur[t])
  /\ \/ pc[t] = "find_pred" /\ cur_removed[t]
     \/ pc[t] \in {"find_unlink", "unlink"}
     => Removed(cur[t]) /\ cur_next[t] = NextOf(cur[t])
  /\ pc[t] = "find_pred" /\ ~cur_removed[t] /\ value[cur[t]] # SENTINEL_END /\ phase = "drain"
       => NothingBetween(cur[t], cur_next[t])
  /\ pc[t] = "flag" => value[cur[t]] = arg[t]
  /\ pc[t] \notin {"return", "unlink"} => ~result[t]

\* Only one call at a time can get in the way of another: adds, and then removes.
PhaseOK ==
  /\ phase \in {"fill", "drain"}
  /\ \A t \in Threads : /\ op[t] = "add" => phase = "fill"
                        /\ op[t] = "remove" => phase = "drain"
  /\ phase = "fill" => \A n \in heap : ~Removed(n)

\* The nodes have different values, next skips none that is not removed, and
\* these are the set.
SetOK ==
  /\ \A m, n \in heap : value[m] = value[n] => m = n
  /\ \A n \in heap : value[n] # SENTINEL_END => NothingBetween(n, NextOf(n))
  /\ logical = {v \in Values : \E n \in heap : value[n] = v /\ ~Removed(n)}

PhasesInv == IInv /\ PhaseOK /\ SetOK /\ \A t \in Threads : CallOK(t)

LEMMA InitPhases == PhasesInit => PhasesInv
<1> SUFFICES ASSUME PhasesInit PROVE PhasesInv
  OBVIOUS
<1>1. Init /\ IInv /\ phase = "fill"
  BY InitIInv DEF PhasesInit
<1>2. PICK e \in Nodes \ {head} :
        /\ heap = {head, e}
        /\ value = [n \in Nodes |-> IF n = head THEN SENTINEL_BEGIN
                                                ELSE SENTINEL_END]
        /\ next_and_removed =
             [n \in Nodes |-> Word(IF n = head THEN e ELSE Null, FALSE)]
  BY <1>1 DEF Init
<1>3. /\ head \in Nodes /\ value[head] = SENTINEL_BEGIN /\ value[e] = SENTINEL_END
      /\ ~Removed(head) /\ ~Removed(e) /\ NextOf(head) = e
  BY <1>1, <1>2 DEF Init, Removed, NextOf, Word
<1>4. PhaseOK
  BY <1>1, <1>2, <1>3 DEF Init, PhaseOK
<1>5. SetOK
  <2>1. logical = {} /\ \A v \in Values, n \in heap : value[n] # v
    BY <1>1, <1>2, <1>3, ValuesAssumption DEF Init
  <2>2. NothingBetween(head, e)
    BY <1>2, <1>3, ValuesAssumption DEF NothingBetween
  <2>3. \A m, n \in heap : value[m] = value[n] => m = n
    BY <1>2, <1>3, ValuesAssumption
  <2>4. \A n \in heap : value[n] # SENTINEL_END => NothingBetween(n, NextOf(n))
    BY <1>2, <1>3, <2>2
  <2>5. logical = {v \in Values : \E n \in heap : value[n] = v /\ ~Removed(n)}
    BY <2>1
  <2> QED BY <2>3, <2>4, <2>5 DEF SetOK
<1>6. \A t \in Threads : CallOK(t)
  BY <1>1 DEF Init, CallOK, PairPcs
<1> QED BY <1>1, <1>4, <1>5, <1>6 DEF PhasesInv

\* u does not move.
Still(u) == /\ pc'[u] = pc[u] /\ op'[u] = op[u] /\ arg'[u] = arg[u]
            /\ pred'[u] = pred[u] /\ cur'[u] = cur[u] /\ cur_next'[u] = cur_next[u]
            /\ cur_removed'[u] = cur_removed[u] /\ result'[u] = result[u]

\* A node that stays where it is: the values do not change, and what has been
\* removed stays so.
NodesStay == /\ heap \subseteq heap' /\ \A n \in heap : value'[n] = value[n]
             /\ \A n \in heap : Removed(n) => next_and_removed'[n] = next_and_removed[n]
             /\ phase = "drain" => heap' = heap

LEMMA NothingBetweenStays ==
  ASSUME NodesStay, phase = "drain", NEW m \in heap, NEW n \in heap, NothingBetween(m, n)
  PROVE  NothingBetween(m, n)'
BY DEF NothingBetween, NodesStay, Removed

LEMMA CallKept ==
  ASSUME PhasesInv, NEW u \in Threads, Still(u), NodesStay, phase' = phase
  PROVE  CallOK(u)'
<1>1. CallOK(u) /\ InOrder(u) /\ ArgOK
  BY DEF PhasesInv, IInv
<1>2. pc[u] \in PairPcs => pred[u] \in heap /\ cur[u] \in heap
  BY <1>1 DEF InOrder, PairPcs
<1>3. pc[u] = "flag" => cur[u] \in heap
  BY <1>1 DEF InOrder
<1>4. pc[u] \in PairPcs /\ phase = "drain" => NothingBetween(pred[u], cur[u])'
  <2>1. pc[u] \in PairPcs /\ phase = "drain" => NothingBetween(pred[u], cur[u])
    BY <1>1 DEF CallOK
  <2>2. pred'[u] = pred[u] /\ cur'[u] = cur[u]
    BY DEF Still
  <2>3. \A m, n \in heap : phase = "drain" /\ NothingBetween(m, n) => NothingBetween(m, n)'
    BY NothingBetweenStays
  <2>4. pc[u] \in PairPcs /\ phase = "drain"
          => \E m, n \in heap : m = pred[u] /\ n = cur[u] /\ NothingBetween(m, n)'
    BY <1>2, <2>1, <2>3
  <2> QED BY <2>2, <2>4 DEF NothingBetween
<1>5. pc[u] = "find_pred" /\ ~cur_removed[u] /\ value[cur[u]] # SENTINEL_END /\ phase = "drain"
        => NothingBetween(cur[u], cur_next[u])'
  <2>1. pc[u] = "find_pred" /\ ~cur_removed[u] /\ value[cur[u]] # SENTINEL_END /\ phase = "drain"
          => NothingBetween(cur[u], cur_next[u]) /\ cur[u] \in heap /\ cur_next[u] \in heap
    BY <1>1, <1>2 DEF CallOK, InOrder, PairPcs
  <2>2. cur'[u] = cur[u] /\ cur_next'[u] = cur_next[u]
    BY DEF Still
  <2>3. \A m, n \in heap : phase = "drain" /\ NothingBetween(m, n) => NothingBetween(m, n)'
    BY NothingBetweenStays
  <2>4. pc[u] = "find_pred" /\ ~cur_removed[u] /\ value[cur[u]] # SENTINEL_END /\ phase = "drain"
          => \E m, n \in heap : m = cur[u] /\ n = cur_next[u] /\ NothingBetween(m, n)'
    BY <2>1, <2>3
  <2> QED BY <2>2, <2>4 DEF NothingBetween
<1>6. \/ pc[u] = "find_pred" /\ cur_removed[u]
      \/ pc[u] \in {"find_unlink", "unlink"}
      => Removed(cur[u])' /\ cur_next[u] = NextOf(cur[u])'
  <2>1. \/ pc[u] = "find_pred" /\ cur_removed[u]
        \/ pc[u] \in {"find_unlink", "unlink"}
        => /\ Removed(cur[u]) /\ cur_next[u] = NextOf(cur[u])
           /\ cur[u] \in heap /\ next_and_removed'[cur[u]] = next_and_removed[cur[u]]
    BY <1>1, <1>2 DEF CallOK, PairPcs, NodesStay
  <2>2. cur'[u] = cur[u]
    BY DEF Still
  <2> QED BY <2>1, <2>2 DEF Removed, NextOf
<1>7. pc[u] = "flag" => value'[cur[u]] = arg[u]
  BY <1>1, <1>3 DEF CallOK, NodesStay
<1>8. pc[u] = "find_pred" => value'[cur[u]] = value[cur[u]]
  BY <1>2 DEF PairPcs, NodesStay
<1>9. /\ pc'[u] = pc[u] /\ op'[u] = op[u] /\ arg'[u] = arg[u]
      /\ pred'[u] = pred[u] /\ cur'[u] = cur[u] /\ cur_next'[u] = cur_next[u]
      /\ cur_removed'[u] = cur_removed[u] /\ result'[u] = result[u] /\ phase' = phase
  BY DEF Still
<1>10. /\ pc'[u] \in PairPcs /\ phase' = "drain" => NothingBetween(pred[u], cur[u])'
       /\ pc'[u] = "find_pred" /\ ~cur_removed'[u] /\ value'[cur'[u]] # SENTINEL_END /\ phase' = "drain"
            => NothingBetween(cur[u], cur_next[u])'
       /\ \/ pc'[u] = "find_pred" /\ cur_removed'[u]
          \/ pc'[u] \in {"find_unlink", "unlink"}
          => Removed(cur[u])' /\ cur_next'[u] = NextOf(cur[u])'
  <2> HIDE DEF NothingBetween, Removed, NextOf
  <2> QED BY <1>4, <1>5, <1>6, <1>8, <1>9
<1> QED BY <1>1, <1>7, <1>9, <1>10 DEF CallOK

\* A step within a call of t, as the set sees it.
LEMMA InsideStep ==
  ASSUME TypeOK, NEW t \in Threads, NEW to, to \notin {"idle", "return", "unlink"},
         pc[t] \notin {"idle", "return", "unlink"}, pc' = [pc EXCEPT ![t] = to],
         UNCHANGED <<logical, op, arg, result>>
  PROVE  UNCHANGED Set!vars
<1>1. callPhase' = callPhase
  BY DEF TypeOK, callPhase
<1> QED BY <1>1 DEF Set!vars

\* The step at which the call of t takes effect.
LEMMA EffectStep ==
  ASSUME TypeOK, NEW t \in Threads, NEW to \in {"return", "unlink"}, NEW r \in BOOLEAN,
         pc[t] \notin {"idle", "return", "unlink"}, pc' = [pc EXCEPT ![t] = to],
         UNCHANGED <<op, arg>>, result' = [result EXCEPT ![t] = r],
         r <=> ((op[t] = "add") # (arg[t] \in logical)),
         op[t] = "add" => logical' = logical \cup {arg[t]},
         op[t] = "remove" => logical' = logical \ {arg[t]},
         op[t] = "contains" => logical' = logical
  PROVE  Set!Next
<1>1. callPhase[t] = "called" /\ callPhase' = [callPhase EXCEPT ![t] = "done"]
  BY DEF TypeOK, callPhase
<1>2. op[t] \in {"add", "remove", "contains"}
  BY DEF TypeOK, Operations
<1>3. logical' = CASE op[t] = "add"      -> logical \cup {arg[t]}
                   [] op[t] = "remove"   -> logical \ {arg[t]}
                   [] op[t] = "contains" -> logical
  BY <1>2
<1>4. result' = [result EXCEPT ![t] = (op[t] = "add") # (arg[t] \in logical)]
  <2>1. r = ((op[t] = "add") # (arg[t] \in logical))
    OBVIOUS
  <2> QED BY <2>1
<1>5. Set!TakeEffect(t)
  BY <1>1, <1>3, <1>4 DEF Set!TakeEffect
<1> QED BY <1>5 DEF Set!Next

\* A step that does not touch the nodes.
LEMMA SetKept ==
  ASSUME SetOK, UNCHANGED <<shared, logical>>
  PROVE  SetOK'
BY DEF SetOK, shared, NothingBetween, NextOf, Removed

\* What find does with the node it is at, cur[t], which is followed by n.
LEMMA AdvancePhases ==
  ASSUME PhasesInv, NEW t \in Threads, pc[t] \in {"find_pred", "find_reload"},
         NEW n, FindAdvance(t, cur[t], n),
         UNCHANGED <<shared, history, call, phase>>,
         value[cur[t]] # SENTINEL_END /\ phase = "drain" => NothingBetween(cur[t], n)
  PROVE  CallOK(t)' /\ (Set!Next \/ UNCHANGED Set!vars)
<1> DEFINE c == cur[t]
<1>1. TypeOK /\ CallOK(t) /\ PhaseOK /\ SetOK
  BY DEF PhasesInv, IInv
<1>2. /\ pred[t] \in heap /\ c \in heap /\ arg[t] \in Values
      /\ value[pred[t]] < arg[t] /\ value[pred[t]] < value[c]
  BY DEF PhasesInv, IInv, InOrder, ArgOK
<1>3. /\ op[t] \in {"add", "remove"} /\ ~result[t]
      /\ op[t] = "add" => phase = "fill" /\ \A k \in heap : ~Removed(k)
      /\ op[t] = "remove" => phase = "drain" /\ NothingBetween(pred[t], c)
  BY <1>1 DEF CallOK, PairPcs, TypeOK, Operations, PhaseOK
<1>4. /\ UNCHANGED <<value, heap, next_and_removed, logical, op, arg, phase>>
      /\ \A k, m \in heap : NothingBetween(k, m)' <=> NothingBetween(k, m)
  BY DEF shared, history, call, NothingBetween, Removed
<1>5. CASE value[c] >= arg[t]
  <2>1. cur' = [cur EXCEPT ![t] = c] /\ result' = [result EXCEPT ![t] = FALSE]
        /\ pred' = pred
    BY <1>5 DEF FindAdvance, Decide
  <2>2. cur' = cur /\ result' = result
    BY <1>1, <1>3, <2>1 DEF TypeOK
  <2>3. CASE op[t] = "add" /\ value[c] # arg[t]
    <3>1. pc' = [pc EXCEPT ![t] = "insert"]
      BY <1>3, <1>5, <2>3 DEF FindAdvance, Goto
    <3>2. UNCHANGED Set!vars
      BY <1>1, <1>4, <2>2, <3>1, InsideStep
    <3>3. pc'[t] = "insert"
      BY <1>1, <3>1 DEF TypeOK
    <3>4. CallOK(t)'
      BY <1>1, <1>3, <1>4, <2>2, <2>3, <3>3 DEF CallOK, PairPcs
    <3> QED BY <3>2, <3>4
  <2>4. CASE op[t] = "remove" /\ value[c] = arg[t]
    <3>1. pc' = [pc EXCEPT ![t] = "load"]
      BY <1>3, <1>5, <2>4 DEF FindAdvance, Goto
    <3>2. UNCHANGED Set!vars
      BY <1>1, <1>4, <2>2, <3>1, InsideStep
    <3>3. pc'[t] = "load" /\ NothingBetween(pred[t], cur[t])'
      <4>1. pc'[t] = "load"
        BY <1>1, <3>1 DEF TypeOK
      <4>2. NothingBetween(pred[t], cur[t])
        BY <1>3, <2>4
      <4> QED BY <1>2, <1>4, <2>1, <2>2, <4>1, <4>2 DEF NothingBetween, Removed
    <3>4. CallOK(t)'
      BY <1>1, <1>3, <1>4, <2>2, <2>4, <3>3 DEF CallOK, PairPcs
    <3> QED BY <3>2, <3>4
  <2>5. CASE /\ ~(op[t] = "add" /\ value[c] # arg[t])
             /\ ~(op[t] = "remove" /\ value[c] = arg[t])
    <3>1. pc' = [pc EXCEPT ![t] = "return"]
      BY <1>3, <1>5, <2>5 DEF FindAdvance, Goto
    <3>2. op[t] = "add" => arg[t] \in logical
      BY <1>1, <1>2, <1>3, <2>5 DEF SetOK
    <3>3. op[t] = "remove" => arg[t] \notin logical
      <4> SUFFICES ASSUME op[t] = "remove", arg[t] \in logical PROVE FALSE
        OBVIOUS
      <4>1. PICK k \in heap : value[k] = arg[t] /\ ~Removed(k)
        BY <1>1 DEF SetOK
      <4>2. value[pred[t]] < value[k] /\ value[k] < value[c]
        <5>1. value[c] \in Int /\ arg[t] \in Int /\ value[c] # arg[t]
          BY <1>1, <1>2, <2>5, ValuesAssumption DEF TypeOK
        <5> QED BY <1>2, <1>5, <4>1, <5>1
      <4> QED BY <1>3, <4>1, <4>2 DEF NothingBetween
    <3>4. Set!Next
      <4>1. op[t] = "add" => logical' = logical \cup {arg[t]}
        BY <1>4, <3>2
      <4>2. op[t] = "remove" => logical' = logical \ {arg[t]}
        BY <1>4, <3>3
      <4>3. FALSE <=> ((op[t] = "add") # (arg[t] \in logical))
        BY <1>3, <3>2, <3>3
      <4>4. pc[t] \notin {"idle", "return", "unlink"}
        OBVIOUS
      <4> QED BY <1>1, <1>3, <1>4, <2>1, <3>1, <4>1, <4>2, <4>3, <4>4, EffectStep
    <3>5. pc'[t] = "return"
      BY <1>1, <3>1 DEF TypeOK
    <3>6. CallOK(t)'
      BY <3>5 DEF CallOK, PairPcs
    <3> QED BY <3>4, <3>6
  <2> QED BY <2>3, <2>4, <2>5
<1>6. CASE ~(value[c] >= arg[t])
  <2>1. /\ pc' = [pc EXCEPT ![t] = "find_cur"] /\ pred' = [pred EXCEPT ![t] = c]
        /\ cur' = [cur EXCEPT ![t] = n] /\ result' = result
    BY <1>6 DEF FindAdvance, Goto
  <2>2. UNCHANGED Set!vars
    BY <1>1, <1>4, <2>1, InsideStep
  <2>3. pc'[t] = "find_cur" /\ pred'[t] = c /\ cur'[t] = n
    BY <1>1, <2>1 DEF TypeOK
  <2>4. value[c] # SENTINEL_END
    BY <1>2, <1>6, ValuesAssumption DEF TypeOK
  <2>5. phase' = "drain" => NothingBetween(pred[t], cur[t])'
    <3>1. phase' = "drain" => NothingBetween(c, n)
      BY <1>4, <2>4
    <3> QED BY <1>4, <2>3, <3>1 DEF NothingBetween, Removed
  <2>6. CallOK(t)'
    BY <1>1, <1>3, <1>4, <2>1, <2>3, <2>5 DEF CallOK, PairPcs
  <2> QED BY <2>2, <2>6
<1> QED BY <1>5, <1>6

LEMMA FindPhases ==
  ASSUME PhasesInv, NEW t \in Threads, UNCHANGED phase,
         FindStart(t) \/ FindLoadCur(t) \/ FindLoadPred(t) \/ FindReload(t)
  PROVE  SetOK' /\ CallOK(t)' /\ (Set!Next \/ UNCHANGED Set!vars)
<1>1. TypeOK /\ CallOK(t) /\ PhaseOK /\ SetOK /\ HeadOK /\ InOrder(t)
  BY DEF PhasesInv, IInv
<1>2. UNCHANGED <<shared, history, call>>
  BY DEF FindStart, FindLoadCur, FindLoadPred, FindReload
<1>3. UNCHANGED <<value, heap, next_and_removed, logical, op, arg, phase>>
  BY <1>2 DEF shared, history, call
<1>4. SetOK'
  BY <1>1, <1>2, SetKept DEF history
<1>5. CASE FindStart(t)
  <2>1. /\ pc[t] = "find" /\ pc' = [pc EXCEPT ![t] = "find_cur"]
        /\ pred' = [pred EXCEPT ![t] = head] /\ cur' = [cur EXCEPT ![t] = NextOf(head)]
        /\ result' = result
    BY <1>5 DEF FindStart, Goto
  <2>2. UNCHANGED Set!vars
    BY <1>1, <1>3, <2>1, InsideStep
  <2>3. pc'[t] = "find_cur" /\ pred'[t] = head /\ cur'[t] = NextOf(head)
    BY <1>1, <2>1 DEF TypeOK
  <2>4. NothingBetween(head, NextOf(head))
    BY <1>1, ValuesAssumption DEF HeadOK, SetOK
  <2>5. NothingBetween(pred[t], cur[t])'
    BY <1>3, <2>3, <2>4 DEF NothingBetween, Removed
  <2>6. CallOK(t)'
    BY <1>1, <1>3, <2>1, <2>3, <2>5 DEF CallOK, PairPcs
  <2> QED BY <1>4, <2>2, <2>6
<1>6. CASE FindLoadCur(t)
  <2>1. /\ pc[t] = "find_cur" /\ pc' = [pc EXCEPT ![t] = "find_pred"]
        /\ cur_next' = [cur_next EXCEPT ![t] = NextOf(cur[t])]
        /\ cur_removed' = [cur_removed EXCEPT ![t] = Removed(cur[t])]
        /\ result' = result /\ pred' = pred /\ cur' = cur
    BY <1>6 DEF FindLoadCur, Goto
  <2>2. UNCHANGED Set!vars
    BY <1>1, <1>3, <2>1, InsideStep
  <2>3. /\ pc'[t] = "find_pred" /\ cur_next'[t] = NextOf(cur[t])
        /\ cur_removed'[t] = Removed(cur[t])
    BY <1>1, <2>1 DEF TypeOK
  <2>4. cur[t] \in heap
    BY <1>1, <2>1 DEF InOrder
  <2>5. phase = "drain" => NothingBetween(pred[t], cur[t])
    BY <1>1, <2>1 DEF CallOK, PairPcs
  <2>6. value[cur[t]] # SENTINEL_END => NothingBetween(cur[t], cur_next'[t])
    BY <1>1, <2>3, <2>4 DEF SetOK
  <2>7. phase' = "drain" => NothingBetween(pred[t], cur[t])'
    BY <1>3, <2>1, <2>5 DEF NothingBetween, Removed
  <2>8. value'[cur'[t]] # SENTINEL_END => NothingBetween(cur[t], cur_next[t])'
    BY <1>3, <2>1, <2>6 DEF NothingBetween, Removed
  <2>9. cur_removed'[t] => Removed(cur[t])' /\ cur_next'[t] = NextOf(cur[t])'
    BY <1>3, <2>1, <2>3 DEF Removed, NextOf
  <2>10. op'[t] # "contains" /\ ~result'[t]
    BY <1>1, <1>3, <2>1 DEF CallOK, PairPcs
  <2>11. CallOK(t)'
    BY <2>3, <2>7, <2>8, <2>9, <2>10 DEF CallOK, PairPcs
  <2> QED BY <1>4, <2>2, <2>11
<1>7. CASE FindLoadPred(t)
  <2>1. /\ pc[t] = "find_pred" /\ UNCHANGED <<cur_next, cur_removed>>
    BY <1>7 DEF FindLoadPred
  <2>2. CASE ~cur_removed[t]
    <3>1. FindAdvance(t, cur[t], cur_next[t])
      BY <1>7, <2>2 DEF FindLoadPred
    <3>2. value[cur[t]] # SENTINEL_END /\ phase = "drain" => NothingBetween(cur[t], cur_next[t])
      BY <1>1, <2>1, <2>2 DEF CallOK
    <3> QED BY <1>2, <1>4, <2>1, <3>1, <3>2, AdvancePhases
  <2>3. CASE cur_removed[t]
    <3>1. /\ pc' = [pc EXCEPT ![t] = "find_unlink"] /\ pred' = pred /\ cur' = cur
          /\ result' = result
      BY <1>7, <2>3 DEF FindLoadPred, Goto
    <3>2. UNCHANGED Set!vars
      BY <1>1, <1>3, <2>1, <3>1, InsideStep
    <3>3. pc'[t] = "find_unlink"
      BY <1>1, <3>1 DEF TypeOK
    <3>4. phase = "drain" => NothingBetween(pred[t], cur[t])
      BY <1>1, <2>1 DEF CallOK, PairPcs
    <3>5. phase' = "drain" => NothingBetween(pred[t], cur[t])'
      BY <1>3, <3>1, <3>4 DEF NothingBetween, Removed
    <3>6. Removed(cur[t])' /\ cur_next'[t] = NextOf(cur[t])'
      BY <1>1, <1>3, <2>1, <2>3, <3>1 DEF CallOK, Removed, NextOf
    <3>7. op'[t] # "contains" /\ ~result'[t]
      BY <1>1, <1>3, <2>1, <3>1 DEF CallOK, PairPcs
    <3>8. CallOK(t)'
      BY <3>3, <3>5, <3>6, <3>7 DEF CallOK, PairPcs
    <3> QED BY <1>4, <3>2, <3>8
  <2> QED BY <2>2, <2>3
<1>8. CASE FindReload(t)
  <2>1. /\ pc[t] = "find_reload" /\ cur_next' = [cur_next EXCEPT ![t] = NextOf(cur[t])]
    BY <1>8 DEF FindReload
  <2>2. cur[t] \in heap
    BY <1>1, <2>1 DEF InOrder
  <2>3. CASE ~Removed(cur[t])
    <3>1. FindAdvance(t, cur[t], NextOf(cur[t]))
      BY <1>8, <2>3 DEF FindReload
    <3>2. value[cur[t]] # SENTINEL_END => NothingBetween(cur[t], NextOf(cur[t]))
      BY <1>1, <2>2 DEF SetOK
    <3> QED BY <1>2, <1>4, <2>1, <3>1, <3>2, AdvancePhases
  <2>4. CASE Removed(cur[t])
    <3>1. /\ pc' = [pc EXCEPT ![t] = "find_unlink"] /\ pred' = pred /\ cur' = cur
          /\ result' = result
      BY <1>8, <2>4 DEF FindReload, Goto
    <3>2. UNCHANGED Set!vars
      BY <1>1, <1>3, <2>1, <3>1, InsideStep
    <3>3. pc'[t] = "find_unlink" /\ cur_next'[t] = NextOf(cur[t])
      BY <1>1, <2>1, <3>1 DEF TypeOK
    <3>4. phase = "drain" => NothingBetween(pred[t], cur[t])
      BY <1>1, <2>1 DEF CallOK, PairPcs
    <3>5. phase' = "drain" => NothingBetween(pred[t], cur[t])'
      BY <1>3, <3>1, <3>4 DEF NothingBetween, Removed
    <3>6. Removed(cur[t])' /\ cur_next'[t] = NextOf(cur[t])'
      BY <1>3, <2>4, <3>1, <3>3 DEF Removed, NextOf
    <3>7. op'[t] # "contains" /\ ~result'[t]
      BY <1>1, <1>3, <2>1, <3>1 DEF CallOK, PairPcs
    <3>8. CallOK(t)'
      BY <3>3, <3>5, <3>6, <3>7 DEF CallOK, PairPcs
    <3> QED BY <1>4, <3>2, <3>8
  <2> QED BY <2>3, <2>4
<1> QED BY <1>5, <1>6, <1>7, <1>8

\* Unlinking c, which is removed, between p and d.
LEMMA UnlinkPhases ==
  ASSUME IInv, SetOK, NEW p \in heap, NEW c \in heap, NEW d, d \in heap,
         value[p] < value[c], value[c] < value[d],
         Removed(c), NextOf(c) = d, NothingBetween(p, c), ~Removed(p),
         UNCHANGED <<value, heap, logical>>,
         next_and_removed' = [next_and_removed EXCEPT ![p] = Word(d, FALSE)]
  PROVE  SetOK' /\ NothingBetween(p, d)'
<1>1. TypeOK /\ p \in Nodes /\ \A n \in heap : value[n] \in Int
  BY ValuesAssumption DEF IInv, TypeOK
<1>2. \A n \in heap : Removed(n)' <=> Removed(n)
  BY <1>1 DEF TypeOK, Removed, Word
<1>3. \A n \in heap : NextOf(n)' = IF n = p THEN d ELSE NextOf(n)
  BY <1>1 DEF TypeOK, NextOf, Word
<1>4. value[c] # SENTINEL_END
  BY <1>1, ValuesAssumption DEF TypeOK, IInv, Sorted, Removed, Word
<1>5. NothingBetween(p, d)
  <2> SUFFICES ASSUME NEW k \in heap, value[p] < value[k], value[k] < value[d], ~Removed(k)
               PROVE  FALSE
    BY DEF NothingBetween
  <2>1. NothingBetween(c, d)
    BY <1>4 DEF SetOK
  <2>2. ~(value[k] < value[c]) /\ ~(value[c] < value[k])
    BY <2>1 DEF NothingBetween
  <2>3. k = c
    BY <1>1, <2>2 DEF SetOK
  <2> QED BY <2>3
<1>6. \A m, n \in heap : NothingBetween(m, n) => NothingBetween(m, n)'
  BY <1>2 DEF NothingBetween
<1>7. \A n \in heap : value'[n] # SENTINEL_END => NothingBetween(n, NextOf(n))'
  <2> TAKE n \in heap
  <2>1. value[n] # SENTINEL_END => NextOf(n) \in heap /\ NothingBetween(n, NextOf(n))
    BY DEF IInv, Sorted, SetOK
  <2>2. CASE n = p
    <3>1. NothingBetween(p, d)' /\ NextOf(n)' = d
      BY <1>3, <1>5, <1>6, <2>2
    <3> QED BY <2>2, <3>1 DEF NothingBetween
  <2>3. CASE n # p
    <3>1. NextOf(n)' = NextOf(n)
      BY <1>3, <2>3
    <3> QED BY <1>2, <2>1, <3>1 DEF NothingBetween
  <2> QED BY <2>2, <2>3
<1>8. SetOK'
  BY <1>2, <1>7 DEF SetOK
<1> QED BY <1>5, <1>6, <1>8

LEMMA FindUnlinkPhases ==
  ASSUME PhasesInv, NEW t \in Threads, UNCHANGED phase, FindUnlink(t)
  PROVE  SetOK' /\ CallOK(t)' /\ (Set!Next \/ UNCHANGED Set!vars)
<1>1. TypeOK /\ CallOK(t) /\ PhaseOK /\ SetOK /\ InOrder(t) /\ pc[t] = "find_unlink"
  BY DEF PhasesInv, IInv, FindUnlink
<1>2. UNCHANGED <<value, heap, logical, op, arg, phase, pred, cur_next, result>>
  BY DEF FindUnlink, history, call
<1>3. /\ pred[t] \in heap /\ cur[t] \in heap /\ cur_next[t] \in heap
      /\ value[pred[t]] < value[cur[t]] /\ value[cur[t]] < value[cur_next[t]]
      /\ Removed(cur[t]) /\ NextOf(cur[t]) = cur_next[t]
      /\ op[t] # "contains" /\ ~result[t]
  BY <1>1 DEF InOrder, CallOK, PairPcs
<1>4. NothingBetween(pred[t], cur[t])
  BY <1>1, <1>3 DEF PhaseOK, CallOK, PairPcs
<1>5. CASE next_and_removed[pred[t]] = Word(pred_next[t], FALSE)
  <2>1. /\ next_and_removed' =
             [next_and_removed EXCEPT ![pred[t]] = Word(cur_next[t], FALSE)]
        /\ pc' = [pc EXCEPT ![t] = "find_reload"] /\ cur' = [cur EXCEPT ![t] = cur_next[t]]
    BY <1>5 DEF FindUnlink, Exchange, Goto
  <2>2. ~Removed(pred[t])
    BY <1>5 DEF Removed, Word
  <2>3. PICK p \in heap, c \in heap, d \in heap : p = pred[t] /\ c = cur[t] /\ d = cur_next[t]
    BY <1>3
  <2>4. SetOK' /\ NothingBetween(p, d)'
    BY <1>2, <1>3, <1>4, <2>1, <2>2, <2>3, UnlinkPhases DEF PhasesInv
  <2>5. pc'[t] = "find_reload" /\ pred'[t] = p /\ cur'[t] = d
    BY <1>1, <1>2, <2>1, <2>3 DEF TypeOK
  <2>6. NothingBetween(pred[t], cur[t])'
    BY <2>4, <2>5 DEF NothingBetween
  <2>7. CallOK(t)'
    BY <1>2, <1>3, <2>5, <2>6 DEF CallOK, PairPcs
  <2>8. UNCHANGED Set!vars
    BY <1>1, <1>2, <2>1, InsideStep
  <2> QED BY <2>4, <2>7, <2>8
<1>6. CASE next_and_removed[pred[t]] # Word(pred_next[t], FALSE)
  <2>1. /\ UNCHANGED shared /\ pc' = [pc EXCEPT ![t] = "find"]
    BY <1>6 DEF FindUnlink, Exchange, Goto, shared
  <2>2. SetOK'
    BY <1>1, <1>2, <2>1, SetKept
  <2>3. pc'[t] = "find"
    BY <1>1, <2>1 DEF TypeOK
  <2>4. CallOK(t)'
    BY <1>2, <1>3, <2>3 DEF CallOK, PairPcs
  <2>5. UNCHANGED Set!vars
    BY <1>1, <1>2, <2>1, InsideStep
  <2> QED BY <2>2, <2>4, <2>5
<1> QED BY <1>5, <1>6

\* The step of remove after the one that counts: the set has seen it.
LEMMA UnlinkStepPhases ==
  ASSUME PhasesInv, NEW t \in Threads, UNCHANGED phase, Unlink(t)
  PROVE  SetOK' /\ CallOK(t)' /\ (Set!Next \/ UNCHANGED Set!vars)
<1>1. /\ TypeOK /\ CallOK(t) /\ PhaseOK /\ SetOK /\ InOrder(t) /\ pc[t] = "unlink"
      /\ pc' = [pc EXCEPT ![t] = "return"] /\ pc'[t] = "return"
  BY DEF PhasesInv, IInv, Unlink, Goto, TypeOK
<1>2. UNCHANGED <<head, value, heap, logical, op, arg, result>>
  BY DEF Unlink, history, call, locals
<1>3. /\ pred[t] \in heap /\ cur[t] \in heap /\ cur_next[t] \in heap
      /\ value[pred[t]] < arg[t] /\ value[cur[t]] = arg[t]
      /\ value[cur[t]] < value[cur_next[t]]
      /\ Removed(cur[t]) /\ NextOf(cur[t]) = cur_next[t] /\ NothingBetween(pred[t], cur[t])
  BY <1>1 DEF InOrder, CallOK, PairPcs, PhaseOK
<1>4. UNCHANGED Set!vars
  <2>1. callPhase' = callPhase
    BY <1>1 DEF TypeOK, callPhase
  <2> QED BY <1>2, <2>1 DEF Set!vars
<1>5. CallOK(t)'
  BY <1>1 DEF CallOK, PairPcs
<1>6. CASE next_and_removed[pred[t]] = Word(cur[t], FALSE)
  <2>1. next_and_removed' =
          [next_and_removed EXCEPT ![pred[t]] = Word(cur_next[t], FALSE)]
    BY <1>6 DEF Unlink, Exchange
  <2>2. ~Removed(pred[t])
    BY <1>6 DEF Removed, Word
  <2>3. PICK p \in heap, c \in heap, d \in heap : p = pred[t] /\ c = cur[t] /\ d = cur_next[t]
    BY <1>3
  <2>4. SetOK'
    BY <1>2, <1>3, <2>1, <2>2, <2>3, UnlinkPhases DEF PhasesInv
  <2> QED BY <1>4, <1>5, <2>4
<1>7. CASE next_and_removed[pred[t]] # Word(cur[t], FALSE)
  <2>1. UNCHANGED shared
    BY <1>2, <1>7 DEF Unlink, Exchange, shared
  <2> QED BY <1>1, <1>2, <1>4, <1>5, <2>1, SetKept
<1> QED BY <1>6, <1>7

LEMMA LoadPhases ==
  ASSUME PhasesInv, NEW t \in Threads, UNCHANGED phase, Load(t)
  PROVE  SetOK' /\ CallOK(t)' /\ (Set!Next \/ UNCHANGED Set!vars)
<1>1. /\ TypeOK /\ CallOK(t) /\ PhaseOK /\ SetOK /\ pc[t] = "load"
      /\ pc' = [pc EXCEPT ![t] = "mark"] /\ pc'[t] = "mark"
  BY DEF PhasesInv, IInv, Load, Goto, TypeOK
<1>2. /\ UNCHANGED <<shared, value, heap, next_and_removed, logical, op, arg, result, pred, cur>>
      /\ phase' = phase
  BY DEF Load, shared, history, call
<1>3. NothingBetween(pred[t], cur[t])' \/ phase # "drain"
  <2>1. phase = "drain" => NothingBetween(pred[t], cur[t])
    BY <1>1 DEF CallOK, PairPcs
  <2> QED BY <1>2, <2>1 DEF NothingBetween, Removed
<1>4. op[t] = "remove" /\ ~result[t]
  BY <1>1 DEF CallOK, PairPcs
<1>5. CallOK(t)'
  BY <1>1, <1>2, <1>3, <1>4 DEF CallOK, PairPcs
<1> QED BY <1>1, <1>2, <1>5, SetKept, InsideStep

\* The exchange that sets the flag takes the value out of the set.
LEMMA MarkPhases ==
  ASSUME PhasesInv, NEW t \in Threads, UNCHANGED phase, Mark(t)
  PROVE  SetOK' /\ CallOK(t)' /\ (Set!Next \/ UNCHANGED Set!vars)
<1>1. TypeOK /\ CallOK(t) /\ PhaseOK /\ SetOK /\ InOrder(t) /\ ArgOK /\ pc[t] = "mark"
  BY DEF PhasesInv, IInv, Mark
<1>2. UNCHANGED <<head, value, heap, op, arg, phase, pred, cur, cur_next>>
  BY DEF Mark, call
<1>3. /\ pred[t] \in heap /\ cur[t] \in heap /\ cur[t] \in Nodes /\ cur_next[t] \in heap
      /\ value[cur[t]] = arg[t] /\ arg[t] \in Values
      /\ op[t] = "remove" /\ ~result[t] /\ NothingBetween(pred[t], cur[t])
  BY <1>1 DEF InOrder, ArgOK, CallOK, PairPcs, PhaseOK, TypeOK
<1>4. CASE next_and_removed[cur[t]] # Word(cur_next[t], FALSE)
  <2>1. /\ UNCHANGED <<shared, logical, result>>
        /\ pc' = [pc EXCEPT ![t] = "find"]
    BY <1>2, <1>4 DEF Mark, Exchange, Goto, shared, history
  <2>2. pc'[t] = "find"
    BY <1>1, <2>1 DEF TypeOK
  <2>3. CallOK(t)'
    BY <1>2, <1>3, <2>1, <2>2 DEF CallOK, PairPcs
  <2> QED BY <1>1, <1>2, <2>1, <2>3, SetKept, InsideStep
<1>5. CASE next_and_removed[cur[t]] = Word(cur_next[t], FALSE)
  <2>1. /\ next_and_removed' = [next_and_removed EXCEPT ![cur[t]] = Word(cur_next[t], TRUE)]
        /\ pc' = [pc EXCEPT ![t] = "unlink"] /\ result' = [result EXCEPT ![t] = TRUE]
        /\ logical' = logical \ {arg[t]}
    BY <1>5 DEF Mark, Exchange, Goto, Decide
  <2>2. PICK c \in heap : c = cur[t]
    BY <1>3
  <2>3. /\ ~Removed(c) /\ NextOf(c) = cur_next[t]
        /\ \A n \in heap : Removed(n)' <=> Removed(n) \/ n = c
        /\ \A n \in heap : NextOf(n)' = NextOf(n)
    BY <1>1, <1>3, <1>5, <2>1, <2>2 DEF TypeOK, Removed, NextOf, Word
  <2>4. \A m, n \in heap : NothingBetween(m, n) => NothingBetween(m, n)'
    BY <1>2, <2>3 DEF NothingBetween
  <2>5. \A n \in heap : value'[n] # SENTINEL_END => NothingBetween(n, NextOf(n))'
    <3> TAKE n \in heap
    <3>1. value[n] # SENTINEL_END => NextOf(n) \in heap /\ NothingBetween(n, NextOf(n))
      BY DEF PhasesInv, IInv, Sorted, SetOK
    <3>2. NextOf(n)' = NextOf(n)
      BY <2>3
    <3> QED BY <1>2, <2>3, <3>1, <3>2 DEF NothingBetween
  <2>6. logical' = {v \in Values : \E n \in heap : value[n] = v /\ ~Removed(n)'}
    BY <1>1, <1>2, <1>3, <2>1, <2>2, <2>3 DEF SetOK
  <2>7. SetOK'
    BY <1>1, <1>2, <2>5, <2>6 DEF SetOK
  <2>8. arg[t] \in logical
    BY <1>1, <1>3, <2>2, <2>3 DEF SetOK
  <2>9. Set!Next
    BY <1>1, <1>2, <1>3, <2>1, <2>8, EffectStep
  <2>10. pc'[t] = "unlink"
    BY <1>1, <2>1 DEF TypeOK
  <2>11. NothingBetween(pred[t], cur[t])'
    BY <1>2, <1>3, <2>3 DEF NothingBetween
  <2>12. Removed(cur[t])' /\ cur_next'[t] = NextOf(cur[t])'
    BY <1>2, <2>2, <2>3 DEF Removed, NextOf
  <2>13. CallOK(t)'
    BY <1>2, <1>3, <2>10, <2>11, <2>12 DEF CallOK, PairPcs
  <2> QED BY <2>7, <2>9, <2>13
<1> QED BY <1>4, <1>5

\* The exchange of add: the node comes between two neighbours, so its value was
\* not in the set.
LEMMA InsertPhases ==
  ASSUME PhasesInv, NEW t \in Threads, UNCHANGED phase, Insert(t)
  PROVE  SetOK' /\ CallOK(t)' /\ (Set!Next \/ UNCHANGED Set!vars)
<1>1. TypeOK /\ CallOK(t) /\ PhaseOK /\ SetOK /\ InOrder(t) /\ ArgOK /\ pc[t] = "insert"
  BY DEF PhasesInv, IInv, Insert
<1>2. UNCHANGED <<head, op, arg, phase, pred, cur, cur_next>>
  BY DEF Insert, call
<1>3. /\ pred[t] \in heap /\ cur[t] \in heap /\ arg[t] \in Values
      /\ value[pred[t]] < arg[t] /\ arg[t] < value[cur[t]]
      /\ op[t] = "add" /\ ~result[t] /\ phase = "fill" /\ \A n \in heap : ~Removed(n)
  BY <1>1 DEF InOrder, ArgOK, CallOK, PairPcs, PhaseOK
<1>4. CASE next_and_removed[pred[t]] # Word(cur[t], FALSE)
  <2>1. UNCHANGED <<shared, logical, result>> /\ pc' = [pc EXCEPT ![t] = "find"]
    BY <1>2, <1>4 DEF Insert, Goto, shared, history
  <2>2. pc'[t] = "find"
    BY <1>1, <2>1 DEF TypeOK
  <2>3. CallOK(t)'
    BY <1>2, <1>3, <2>1, <2>2 DEF CallOK, PairPcs
  <2> QED BY <1>1, <1>2, <2>1, <2>3, SetKept, InsideStep
<1>5. CASE next_and_removed[pred[t]] = Word(cur[t], FALSE)
  <2>1. PICK n \in Nodes \ heap :
          /\ heap' = heap \cup {n}
          /\ value' = [value EXCEPT ![n] = arg[t]]
          /\ next_and_removed' =
               [next_and_removed EXCEPT ![n] = Word(cur[t], FALSE),
                                        ![pred[t]] = Word(n, FALSE)]
    BY <1>5 DEF Insert, LinkNew
  <2>2. /\ pc' = [pc EXCEPT ![t] = "return"] /\ result' = [result EXCEPT ![t] = TRUE]
        /\ logical' = logical \cup {arg[t]}
    BY <1>5 DEF Insert, LinkNew, Goto, Decide
  <2>3. PICK p \in heap, c \in heap, a \in Values : p = pred[t] /\ c = cur[t] /\ a = arg[t]
    BY <1>3
  <2>4. /\ \A k \in heap : value[k] \in Int /\ k # n
        /\ value[p] < a /\ a < value[c] /\ a \in Int /\ NextOf(p) = c
        /\ value[p] # SENTINEL_END
    <3>1. \A k \in heap : value[k] \in Int
      BY <1>1, ValuesAssumption DEF TypeOK
    <3>2. \A k \in heap : value[k] <= SENTINEL_END /\ SENTINEL_END \in Int
      BY <1>1, ValuesAssumption DEF TypeOK
    <3> QED BY <1>3, <1>5, <2>1, <2>3, <3>1, <3>2, ValuesAssumption DEF NextOf, Word
  <2>5. /\ \A k \in heap : value'[k] = value[k] /\ ~Removed(k)'
        /\ value'[n] = a /\ ~Removed(n)' /\ NextOf(n)' = c
        /\ NextOf(p)' = n /\ \A k \in heap \ {p} : NextOf(k)' = NextOf(k)
    BY <1>1, <1>3, <2>1, <2>3, <2>4 DEF TypeOK, Removed, NextOf, Word
  <2>6. \A k, m \in heap : value[k] # SENTINEL_END /\ value[k] < value[m]
                             => value[NextOf(k)] <= value[m]
    <3> TAKE k, m \in heap
    <3> SUFFICES ASSUME value[k] # SENTINEL_END, value[k] < value[m]
                 PROVE  value[NextOf(k)] <= value[m]
      OBVIOUS
    <3>1. NothingBetween(k, NextOf(k)) /\ NextOf(k) \in heap
      BY <1>1 DEF SetOK, PhasesInv, IInv, Sorted
    <3>2. ~(value[m] < value[NextOf(k)])
      BY <1>3, <3>1 DEF NothingBetween
    <3> QED BY <2>4, <3>1, <3>2
  <2>7. \A m \in heap : value[p] < value[m] => value[c] <= value[m]
    BY <2>4, <2>6
  <2>8. \A m \in heap : value[m] # a
    <3> SUFFICES ASSUME NEW m \in heap, value[m] = a PROVE FALSE
      OBVIOUS
    <3> QED BY <2>4, <2>7
  <2>9. \A k, m \in heap' : value'[k] = value'[m] => k = m
    BY <1>1, <2>1, <2>5, <2>8 DEF SetOK
  <2>10. ASSUME NEW k \in heap', value'[k] # SENTINEL_END
         PROVE  /\ NextOf(k)' \in heap'
                /\ \A m \in heap' : value'[k] < value'[m] => value'[NextOf(k)'] <= value'[m]
    <3>1. CASE k = n
      BY <2>1, <2>4, <2>5, <2>7, <3>1
    <3>2. CASE k = p
      <4>1. NextOf(k)' = n /\ value'[n] = a /\ n \in heap'
        BY <2>1, <2>5, <3>2
      <4>2. \A m \in heap : value[p] < value[m] => a <= value[m]
        BY <2>4, <2>7
      <4> QED BY <2>1, <2>4, <2>5, <3>2, <4>1, <4>2
    <3>3. CASE k \in heap \ {p}
      <4>1. /\ value[k] # SENTINEL_END /\ NextOf(k)' = NextOf(k) /\ value'[k] = value[k]
            /\ NextOf(k) \in heap /\ value'[NextOf(k)] = value[NextOf(k)]
        BY <2>5, <2>10, <3>3 DEF PhasesInv, IInv, Sorted
      <4>2. value[k] < a => value[NextOf(k)] <= a
        <5> SUFFICES ASSUME value[k] < a PROVE value[NextOf(k)] <= a
          OBVIOUS
        <5>1. value[k] # value[p]
          BY <1>1, <3>3 DEF SetOK
        <5>2. ~(value[p] < value[k])
          BY <2>4, <2>7, <3>3
        <5>3. value[k] < value[p]
          BY <2>4, <3>3, <5>1, <5>2
        <5>4. value[NextOf(k)] <= value[p]
          BY <2>6, <3>3, <4>1, <5>3
        <5> QED BY <2>4, <4>1, <5>4
      <4>3. \A m \in heap : value[k] < value[m] => value[NextOf(k)] <= value[m]
        BY <2>6, <3>3, <4>1
      <4> QED BY <2>1, <2>5, <4>1, <4>2, <4>3
    <3> QED BY <2>1, <3>1, <3>2, <3>3
  <2>11. \A k \in heap' : value'[k] # SENTINEL_END => NothingBetween(k, NextOf(k))'
    <3> TAKE k \in heap'
    <3> SUFFICES ASSUME value'[k] # SENTINEL_END, NEW m \in heap',
                        value'[k] < value'[m], value'[m] < value'[NextOf(k)']
                 PROVE  FALSE
      BY DEF NothingBetween
    <3>1. NextOf(k)' \in heap' /\ value'[NextOf(k)'] <= value'[m]
      BY <2>10
    <3>2. value'[NextOf(k)'] \in Int /\ value'[m] \in Int
      <4>1. \A x \in heap' : value'[x] \in Int
        BY <2>1, <2>4, <2>5
      <4> QED BY <3>1, <4>1
    <3> QED BY <3>1, <3>2
  <2>12. logical' = {v \in Values : \E k \in heap' : value'[k] = v /\ ~Removed(k)'}
    <3>1. logical = {v \in Values : \E k \in heap : value[k] = v}
      BY <1>1, <1>3 DEF SetOK
    <3>2. \A v : (\E k \in heap' : value'[k] = v /\ ~Removed(k)')
                   <=> v = a \/ \E k \in heap : value[k] = v
      BY <2>1, <2>5
    <3>3. logical' = logical \cup {a}
      BY <2>2, <2>3
    <3> QED BY <3>1, <3>2, <3>3
  <2>13. SetOK'
    BY <2>9, <2>11, <2>12 DEF SetOK
  <2>14. arg[t] \notin logical
    BY <1>1, <2>3, <2>8 DEF SetOK
  <2>15. Set!Next
    BY <1>1, <1>2, <1>3, <2>2, <2>14, EffectStep
  <2>16. pc'[t] = "return"
    BY <1>1, <2>2 DEF TypeOK
  <2>17. CallOK(t)'
    BY <2>16 DEF CallOK, PairPcs
  <2> QED BY <2>13, <2>15, <2>17
<1> QED BY <1>4, <1>5

\* contains sees at its last access what the set holds.
LEMMA ContainsPhases ==
  ASSUME PhasesInv, NEW t \in Threads, UNCHANGED phase, Walk(t) \/ Flag(t)
  PROVE  SetOK' /\ CallOK(t)' /\ (Set!Next \/ UNCHANGED Set!vars)
<1>1. TypeOK /\ CallOK(t) /\ SetOK /\ InOrder(t) /\ ArgOK
  BY DEF PhasesInv, IInv
<1>2. UNCHANGED <<shared, logical, op, arg>>
  BY DEF Walk, Flag, history, call
<1>3. SetOK'
  BY <1>1, <1>2, SetKept
<1>4. op[t] = "contains" /\ arg[t] \in Values /\ cur[t] \in heap /\ ~result[t]
      /\ pc[t] \in {"walk", "flag"}
  BY <1>1 DEF CallOK, ArgOK, InOrder, Walk, Flag, Goto
<1>5. CASE Walk(t)
  <2>1. value[cur[t]] < arg[t] /\ pc[t] = "walk" /\ value[cur[t]] # SENTINEL_END
    <3>1. value[cur[t]] < arg[t] /\ pc[t] = "walk"
      BY <1>1, <1>5 DEF InOrder, Walk
    <3> QED BY <1>4, <3>1, ValuesAssumption
  <2>2. PICK n \in heap : /\ n = NextOf(cur[t]) /\ value[cur[t]] < value[n]
                          /\ NothingBetween(cur[t], n) /\ value[n] \in Int
    <3>1. Sorted
      BY DEF PhasesInv, IInv
    <3>2. NextOf(cur[t]) \in heap /\ value[cur[t]] < value[NextOf(cur[t])]
      BY <1>4, <2>1, <3>1 DEF Sorted
    <3>3. NothingBetween(cur[t], NextOf(cur[t]))
      BY <1>1, <1>4, <2>1 DEF SetOK
    <3>4. \A k \in heap : value[k] \in Int
      BY <1>1, ValuesAssumption DEF TypeOK
    <3> QED BY <3>2, <3>3, <3>4
  <2>3. /\ cur' = [cur EXCEPT ![t] = n] /\ result' = result /\ value' = value
        /\ pc' = [pc EXCEPT ![t] = IF value[n] < arg[t] THEN "walk"
                                   ELSE IF value[n] = arg[t] THEN "flag" ELSE "return"]
    BY <1>2, <1>5, <2>1, <2>2 DEF Walk, Goto, shared
  <2>4. CASE value[n] <= arg[t]
    <3>1. /\ pc' = [pc EXCEPT ![t] = pc'[t]] /\ pc'[t] \in {"walk", "flag"} /\ cur'[t] = n
          /\ pc'[t] = "flag" => value[n] = arg[t]
      BY <1>1, <1>4, <2>2, <2>3, <2>4, ValuesAssumption DEF TypeOK
    <3>2. CallOK(t)'
      BY <1>2, <1>4, <2>3, <3>1 DEF CallOK, PairPcs
    <3>3. UNCHANGED Set!vars
      BY <1>1, <1>2, <2>1, <2>3, <3>1, InsideStep
    <3> QED BY <1>3, <3>2, <3>3
  <2>5. CASE ~(value[n] <= arg[t])
    <3>1. arg[t] < value[n] /\ arg[t] \in Int
      BY <1>4, <2>2, <2>5, ValuesAssumption
    <3>2. pc' = [pc EXCEPT ![t] = "return"] /\ pc'[t] = "return"
      <4>1. ~(value[n] < arg[t]) /\ value[n] # arg[t]
        BY <2>2, <3>1
      <4>2. pc' = [pc EXCEPT ![t] = "return"]
        BY <2>3, <4>1
      <4> QED BY <1>1, <4>2 DEF TypeOK
    <3>3. arg[t] \notin logical
      <4> SUFFICES ASSUME arg[t] \in logical PROVE FALSE
        OBVIOUS
      <4>1. PICK k \in heap : value[k] = arg[t] /\ ~Removed(k)
        BY <1>1 DEF SetOK
      <4> QED BY <2>1, <2>2, <3>1, <4>1 DEF NothingBetween
    <3>4. result' = [result EXCEPT ![t] = FALSE]
      BY <1>1, <1>4, <2>3 DEF TypeOK
    <3>5. Set!Next
      <4>1. op[t] # "add" /\ op[t] # "remove" /\ pc[t] \notin {"idle", "return", "unlink"}
        BY <1>4
      <4>2. FALSE <=> ((op[t] = "add") # (arg[t] \in logical))
        BY <3>3, <4>1
      <4>3. UNCHANGED <<op, arg>> /\ logical' = logical
        BY <1>2
      <4> QED BY <1>1, <3>2, <3>4, <4>1, <4>2, <4>3, EffectStep
    <3>6. CallOK(t)'
      BY <3>2 DEF CallOK, PairPcs
    <3> QED BY <1>3, <3>5, <3>6
  <2> QED BY <2>4, <2>5
<1>6. CASE Flag(t)
  <2>1. /\ pc[t] = "flag" /\ pc' = [pc EXCEPT ![t] = "return"] /\ pc'[t] = "return"
        /\ result' = [result EXCEPT ![t] = ~Removed(cur[t])] /\ value[cur[t]] = arg[t]
    BY <1>1, <1>6 DEF Flag, Goto, Decide, TypeOK, CallOK
  <2>2. ~Removed(cur[t]) <=> arg[t] \in logical
    BY <1>1, <1>4, <2>1 DEF SetOK
  <2>3. PICK r \in BOOLEAN : r = ~Removed(cur[t])
    BY DEF Removed
  <2>4. Set!Next
    <3>1. op[t] # "add" /\ op[t] # "remove" /\ pc[t] \notin {"idle", "return", "unlink"}
      BY <1>4, <2>1
    <3>2. r <=> ((op[t] = "add") # (arg[t] \in logical))
      <4>1. r <=> arg[t] \in logical
        BY <2>2, <2>3
      <4> QED BY <3>1, <4>1
    <3>3. UNCHANGED <<op, arg>> /\ logical' = logical
      BY <1>2
    <3>4. result' = [result EXCEPT ![t] = r]
      BY <2>1, <2>3
    <3> QED BY <1>1, <2>1, <3>1, <3>2, <3>3, <3>4, EffectStep
  <2>5. CallOK(t)'
    BY <2>1 DEF CallOK, PairPcs
  <2> QED BY <1>3, <2>4, <2>5
<1> QED BY <1>5, <1>6

\* The ends of a call.
LEMMA CallAndReturnPhases ==
  ASSUME PhasesInv, NEW t \in Threads, UNCHANGED phase,
         Return(t) \/ \E o \in Allowed, v \in Values : Call(t, o, v)
  PROVE  SetOK' /\ CallOK(t)' /\ Set!Next
<1>1. TypeOK /\ CallOK(t) /\ SetOK
  BY DEF PhasesInv, IInv
<1>2. UNCHANGED <<shared, logical>>
  BY DEF Return, Call, history
<1>3. SetOK'
  BY <1>1, <1>2, SetKept
<1>4. CASE Return(t)
  <2>1. /\ pc[t] = "return" /\ pc' = [pc EXCEPT ![t] = "idle"]
        /\ op' = [op EXCEPT ![t] = "contains"] /\ arg' = [arg EXCEPT ![t] = SENTINEL_BEGIN]
        /\ result' = [result EXCEPT ![t] = FALSE]
    BY <1>4 DEF Return, Goto
  <2>2. callPhase[t] = "done" /\ callPhase' = [callPhase EXCEPT ![t] = "idle"]
    BY <1>1, <2>1 DEF TypeOK, callPhase
  <2>3. Set!Return(t)
    BY <1>2, <2>1, <2>2 DEF Set!Return
  <2>4. CallOK(t)'
    BY <1>1, <2>1 DEF CallOK, PairPcs, TypeOK
  <2> QED BY <1>3, <2>3, <2>4 DEF Set!Next
<1>5. ASSUME NEW o \in Allowed, NEW v \in Values, Call(t, o, v)
      PROVE  CallOK(t)' /\ Set!Next
  <2>1. /\ pc[t] = "idle" /\ o \in {"add", "remove", "contains"}
        /\ pc' = [pc EXCEPT ![t] = IF o = "contains" THEN "walk" ELSE "find"]
        /\ op' = [op EXCEPT ![t] = o] /\ arg' = [arg EXCEPT ![t] = v]
        /\ result' = result
    BY <1>5 DEF Call, Goto, Allowed
  <2>2. callPhase[t] = "idle" /\ callPhase' = [callPhase EXCEPT ![t] = "called"]
    BY <1>1, <2>1 DEF TypeOK, callPhase
  <2>3. Set!Call(t)
    BY <1>2, <2>1, <2>2 DEF Set!Call
  <2>4. pc'[t] = (IF o = "contains" THEN "walk" ELSE "find") /\ op'[t] = o /\ ~result'[t]
    BY <1>1, <2>1 DEF TypeOK, CallOK, PairPcs
  <2>5. CallOK(t)'
    BY <2>4 DEF CallOK, PairPcs
  <2> QED BY <2>3, <2>5 DEF Set!Next
<1> QED BY <1>3, <1>4, <1>5

\* The steps of the threads, in either phase.
PhaseStep(t) == Step(t) \/ \E o \in Allowed, v \in Values : Call(t, o, v)

LEMMA StepPhases ==
  ASSUME PhasesInv, NEW t \in Threads, UNCHANGED phase, PhaseStep(t)
  PROVE  SetOK' /\ CallOK(t)' /\ (Set!Next \/ UNCHANGED Set!vars)
<1>1. CASE FindStart(t) \/ FindLoadCur(t) \/ FindLoadPred(t) \/ FindReload(t)
  BY <1>1, FindPhases
<1>2. CASE FindUnlink(t)
  BY <1>2, FindUnlinkPhases
<1>3. CASE Insert(t)
  BY <1>3, InsertPhases
<1>4. CASE Load(t)
  BY <1>4, LoadPhases
<1>5. CASE Mark(t)
  BY <1>5, MarkPhases
<1>6. CASE Unlink(t)
  BY <1>6, UnlinkStepPhases
<1>7. CASE Walk(t) \/ Flag(t)
  BY <1>7, ContainsPhases
<1>8. CASE Return(t) \/ \E o \in Allowed, v \in Values : Call(t, o, v)
  BY <1>8, CallAndReturnPhases
<1> QED BY <1>1, <1>2, <1>3, <1>4, <1>5, <1>6, <1>7, <1>8 DEF PhaseStep, Step, Find

\* A step of t moves no other thread.
LEMMA OthersStill ==
  ASSUME TypeOK, NEW t \in Threads, PhaseStep(t), NEW u \in Threads, u # t
  PROVE  Still(u)
<1>1. CASE FindStart(t) \/ FindLoadCur(t)
  BY <1>1 DEF TypeOK, FindStart, FindLoadCur, Goto, call, Still
<1>2. CASE FindLoadPred(t) \/ FindReload(t)
  <2>1. ASSUME NEW c, NEW n, FindAdvance(t, c, n)
        PROVE  /\ pc'[u] = pc[u] /\ pred'[u] = pred[u] /\ cur'[u] = cur[u]
               /\ result'[u] = result[u]
    BY <2>1 DEF TypeOK, FindAdvance, Goto, Decide
  <2>2. /\ pc'[u] = pc[u] /\ pred'[u] = pred[u] /\ cur'[u] = cur[u]
        /\ result'[u] = result[u]
    BY <1>2, <2>1 DEF TypeOK, FindLoadPred, FindReload, Goto
  <2> QED BY <1>2, <2>2 DEF TypeOK, FindLoadPred, FindReload, call, Still
<1>3. CASE FindUnlink(t) \/ Mark(t)
  BY <1>3 DEF TypeOK, FindUnlink, Mark, Goto, Decide, call, Still
<1>4. CASE Insert(t)
  BY <1>4 DEF TypeOK, Insert, LinkNew, Goto, Decide, call, Still
<1>5. CASE Load(t) \/ Unlink(t)
  BY <1>5 DEF TypeOK, Load, Unlink, Goto, call, locals, Still
<1>6. CASE Walk(t) \/ Flag(t)
  BY <1>6 DEF TypeOK, Walk, Flag, Goto, Decide, call, Still
<1>7. CASE Return(t) \/ \E o \in Allowed, v \in Values : Call(t, o, v)
  BY <1>7 DEF TypeOK, Return, Call, Goto, Still
<1> QED BY <1>1, <1>2, <1>3, <1>4, <1>5, <1>6, <1>7 DEF PhaseStep, Step, Find

\* Nodes are added in the first phase and removed in the second.
LEMMA NodesOfAPhase ==
  ASSUME PhasesInv, NEW t \in Threads, UNCHANGED phase, PhaseStep(t)
  PROVE  NodesStay /\ (phase = "fill" => \A n \in heap' : ~Removed(n)')
<1>1. TypeOK /\ CallOK(t) /\ PhaseOK /\ InOrder(t)
  BY DEF PhasesInv, IInv
<1>2. [Next]_vars
  <2>1. Allowed \subseteq Operations
    BY DEF Allowed, Operations
  <2> QED BY <2>1 DEF PhaseStep, Next
<1>3. \A n \in heap : Removed(n) => next_and_removed'[n] = next_and_removed[n]
  <2>1. \A n \in Nodes : Removed(n) => next_and_removed'[n] = next_and_removed[n]
    BY <1>2, Frozen DEF PhasesInv
  <2> QED BY <1>1, <2>1 DEF TypeOK
<1>4. CASE Insert(t) /\ next_and_removed[pred[t]] = Word(cur[t], FALSE)
  <2>1. PICK n \in Nodes \ heap :
          /\ heap' = heap \cup {n}
          /\ value' = [value EXCEPT ![n] = arg[t]]
          /\ next_and_removed' =
               [next_and_removed EXCEPT ![n] = Word(cur[t], FALSE),
                                        ![pred[t]] = Word(n, FALSE)]
    BY <1>4 DEF Insert, LinkNew
  <2>2. phase = "fill" /\ \A k \in heap : ~Removed(k)
    BY <1>1, <1>4 DEF CallOK, PhaseOK, Insert
  <2>3. \A k \in heap : value'[k] = value[k]
    BY <1>1, <2>1 DEF TypeOK
  <2>4. \A k \in heap' : ~Removed(k)'
    BY <1>1, <2>1, <2>2 DEF TypeOK, Removed, Word
  <2> QED BY <1>3, <2>1, <2>2, <2>3, <2>4 DEF NodesStay
<1>5. CASE ~(Insert(t) /\ next_and_removed[pred[t]] = Word(cur[t], FALSE))
  <2>1. UNCHANGED <<heap, value>>
    BY <1>5 DEF PhaseStep, Step, Find, FindStart, FindLoadCur, FindLoadPred, FindReload,
                FindUnlink, Insert, Load, Mark, Unlink, Walk, Flag, Return, Call, shared
  <2>2. ASSUME phase = "fill", NEW n \in heap
        PROVE  ~Removed(n)'
    <3>1. ~Removed(n) /\ n \in Nodes
      BY <1>1, <2>2 DEF PhaseOK, TypeOK
    <3>2. ~Mark(t) /\ ~Unlink(t)
      BY <1>1, <2>2 DEF CallOK, PhaseOK, Mark, Unlink, Goto
    <3>3. CASE FindUnlink(t)
      BY <1>1, <3>1, <3>3 DEF FindUnlink, Exchange, TypeOK, Removed, Word
    <3>4. CASE ~FindUnlink(t)
      <4>1. next_and_removed' = next_and_removed
        BY <1>5, <3>2, <3>4 DEF PhaseStep, Step, Find, FindStart, FindLoadCur,
              FindLoadPred, FindReload, Insert, Load, Walk, Flag, Return, Call, shared
      <4> QED BY <3>1, <4>1 DEF Removed
    <3> QED BY <3>3, <3>4
  <2> QED BY <1>3, <2>1, <2>2 DEF NodesStay
<1> QED BY <1>4, <1>5

LEMMA PhaseStepKeeps ==
  ASSUME PhasesInv, NEW t \in Threads, UNCHANGED phase, PhaseStep(t)
  PROVE  PhasesInv' /\ (Set!Next \/ UNCHANGED Set!vars)
<1>1. TypeOK /\ PhaseOK
  BY DEF PhasesInv, IInv
<1>2. IInv'
  <2>1. Allowed \subseteq Operations
    BY DEF Allowed, Operations
  <2> QED BY <2>1, NextIInv DEF PhaseStep, Next, PhasesInv
<1>3. SetOK' /\ CallOK(t)' /\ (Set!Next \/ UNCHANGED Set!vars)
  BY StepPhases
<1>4. NodesStay /\ (phase = "fill" => \A n \in heap' : ~Removed(n)')
  BY NodesOfAPhase
<1>5. \A u \in Threads : u # t => Still(u)
  BY <1>1, OthersStill
<1>6. \A u \in Threads : CallOK(u)'
  <2>1. \A u \in Threads : Still(u) => CallOK(u)'
    BY <1>4, CallKept
  <2> QED BY <1>3, <1>5, <2>1
<1>7. op'[t] \in {op[t], "contains"} \cup Allowed
  BY <1>1 DEF PhaseStep, Step, Find, FindStart, FindLoadCur, FindLoadPred, FindReload,
       FindUnlink, Insert, Load, Mark, Unlink, Walk, Flag, Return, Call, call, TypeOK
<1>8. PhaseOK'
  <2>1. \A u \in Threads : op'[u] \in {op[u], "contains"} \cup Allowed
    BY <1>5, <1>7 DEF Still
  <2>2. \A u \in Threads : /\ op'[u] = "add" => phase = "fill"
                           /\ op'[u] = "remove" => phase = "drain"
    BY <1>1, <2>1 DEF PhaseOK, Allowed
  <2> QED BY <1>1, <1>4, <2>2 DEF PhaseOK
<1> QED BY <1>2, <1>3, <1>6, <1>8 DEF PhasesInv

\* Every step keeps the invariant, and is a step of the set or none.
LEMMA NextPhases ==
  PhasesInv /\ [PhasesNext]_<<vars, phase>> => PhasesInv' /\ [Set!Next]_(Set!vars)
<1> SUFFICES ASSUME PhasesInv, [PhasesNext]_<<vars, phase>>
             PROVE  PhasesInv' /\ [Set!Next]_(Set!vars)
  OBVIOUS
<1>1. ASSUME NEW t \in Threads, PhaseStep(t), UNCHANGED phase
      PROVE  PhasesInv' /\ [Set!Next]_(Set!vars)
  BY <1>1, PhaseStepKeeps
<1>2. CASE UNCHANGED vars /\ (StartDrain \/ phase' = phase)
  <2>1. UNCHANGED <<shared, head, value, next_and_removed, heap, pc, op, arg, pred, cur,
                    cur_next, cur_removed, pred_next, result, logical, balance>>
    BY <1>2 DEF vars, shared, call, locals, history
  <2>2. UNCHANGED Set!vars
    BY <2>1 DEF Set!vars, callPhase
  <2>3. IInv'
    BY <1>2, NextIInv DEF PhasesInv
  <2>4. SetOK'
    BY <2>1, SetKept DEF PhasesInv
  <2>5. PhaseOK /\ \A t \in Threads : CallOK(t)
    BY DEF PhasesInv
  <2>6. PhaseOK'
    BY <1>2, <2>1, <2>5 DEF PhaseOK, StartDrain, Removed
  <2>7. ASSUME NEW t \in Threads PROVE CallOK(t)'
    <3>1. CASE phase' = phase
      <4>1. Still(t) /\ NodesStay
        BY <2>1 DEF Still, NodesStay
      <4> QED BY <3>1, <4>1, CallKept
    <3>2. CASE StartDrain
      <4>1. op[t] \in {"add", "remove", "contains"} /\ op[t] # "add" /\ op[t] # "remove"
        BY <2>5, <3>2 DEF StartDrain, PhaseOK, PhasesInv, IInv, TypeOK, Operations
      <4>2. pc[t] \notin PairPcs
        BY <2>5, <4>1 DEF CallOK
      <4> QED BY <2>1, <2>5, <4>2 DEF CallOK, PairPcs, Removed, NextOf
    <3> QED BY <1>2, <3>1, <3>2
  <2> QED BY <2>2, <2>3, <2>4, <2>6, <2>7 DEF PhasesInv
<1> QED BY <1>1, <1>2 DEF PhasesNext, StartDrain, PhaseStep

\* However many threads and values there are, in every reachable state of a list
\* that is filled and then drained, next skips no node that has not been removed,
\* and the nodes that are not removed hold the values of the set.
THEOREM PhasesInvHolds == PhasesSpec => []PhasesInv
<1>1. PhasesInv /\ [PhasesNext]_<<vars, phase>> => PhasesInv'
  BY NextPhases
<1> QED BY <1>1, InitPhases, PTL DEF PhasesSpec

LEMMA InitImplementsSet == PhasesInit => Set!Init
BY DEF PhasesInit, Init, Set!Init, callPhase

\* A list that is filled by concurrent adds and then drained by concurrent
\* removes, with contains called all along, is linearizable: every call of add,
\* remove and contains takes effect at one instant between its invocation and its
\* return and returns what the set says at that instant.
THEOREM ImplementsSetHolds == PhasesSpec => ImplementsSet
<1>1. PhasesInv /\ [PhasesNext]_<<vars, phase>> => [Set!Next]_(Set!vars)
  BY NextPhases
<1> QED BY <1>1, PhasesInvHolds, InitImplementsSet, PTL DEF PhasesSpec, ImplementsSet, Set!Spec

=============================================================================
