----------------------- MODULE EliminationStack_proofs -----------------------
(***************************************************************************)
(* Proofs about EliminationStack, for any sets of threads, values and      *)
(* nodes: the inductive invariant IInv, with ChainShape and NoReuse, and   *)
(* then that the stack implements LifoStack: it is linearizable.           *)
(***************************************************************************)
EXTENDS EliminationStack, TLAPS, SequenceTheorems

----------------------------------------------------------------------------
(* The inductive invariant *)

PushPcs == {"push_load", "push_swing", "push_visit"}
PopPcs == {"pop_load", "pop_swing", "pop_visit"}
Items == Values \cup {PopToken}

TypeOK ==
  /\ top \in Nodes \cup {Null}
  /\ next \in [Nodes -> Nodes \cup {Null}]
  /\ value \in [Nodes -> Values \cup {NoValue}]
  /\ heap \subseteq Nodes
  /\ chain \in Seq(Nodes)
  /\ pc \in [Threads -> PushPcs \cup PopPcs \cup {"idle", "return", "empty"}]
  /\ new_node \in [Threads -> Nodes \cup {Null}]
  /\ expected_top \in [Threads -> Nodes \cup {Null}]
  /\ val \in [Threads -> Values \cup {NoValue}]
  /\ phase \in [Threads -> {"idle", "offered", "done"}]
  /\ offer \in [Threads -> Items \cup {NoValue}]
  /\ got \in [Threads -> Items \cup {NoValue}]

\* What t has in the elimination array: nothing unless it visits it, its value
\* or the token while it does, and nothing back before its visit is over.
VisitOK(t) ==
  /\ pc[t] \notin {"push_visit", "pop_visit"} <=> phase[t] = "idle"
  /\ pc[t] = "push_visit" => offer[t] = val[t]
  /\ pc[t] = "pop_visit" => offer[t] = PopToken
  /\ phase[t] # "done" => got[t] = NoValue

\* The node of a push is allocated, holds the value, and points to what the
\* exchange expects.  Only a push has one.
CallOK(t) ==
  /\ pc[t] \in PushPcs => /\ new_node[t] \in heap /\ val[t] \in Values
                          /\ value[new_node[t]] = val[t]
  /\ pc[t] = "push_swing" => next[new_node[t]] = expected_top[t]
  /\ pc[t] \in PopPcs \cup {"idle", "empty"} => new_node[t] = Null
  /\ pc[t] = "idle" => val[t] = NoValue

\* No two pushes own the same node.
OneOwner == \A t, u \in Threads :
              pc[t] \in PushPcs /\ pc[u] \in PushPcs /\ new_node[t] = new_node[u]
                => t = u

IInv == /\ TypeOK
        /\ \A t \in Threads : VisitOK(t) /\ CallOK(t)
        /\ OneOwner
        /\ ChainShape
        /\ NoReuse

LEMMA InitIInv == Init => IInv
<1> SUFFICES ASSUME Init PROVE IInv
  OBVIOUS
<1> USE DEF Init, Array!Init
<1>1. TypeOK
  <2>1. <<>> \in Seq(Nodes)
    BY EmptySeq
  <2> QED
    BY <2>1 DEF TypeOK
<1>2. \A t \in Threads : VisitOK(t) /\ CallOK(t)
  BY DEF VisitOK, CallOK, PushPcs
<1>3. OneOwner /\ NoReuse
  BY DEF OneOwner, NoReuse, PushPcs
<1>4. ChainShape
  BY EmptySeq DEF ChainShape
<1> QED
  BY <1>1, <1>2, <1>3, <1>4 DEF IInv

\* A call that a step of another thread does not touch is as it was.
LEMMA CallKept ==
  ASSUME NEW u \in Threads, VisitOK(u), CallOK(u), TypeOK,
         pc'[u] = pc[u], new_node'[u] = new_node[u],
         expected_top'[u] = expected_top[u], val'[u] = val[u],
         phase'[u] = phase[u], offer'[u] = offer[u], got'[u] = got[u],
         pc[u] \in PushPcs => /\ new_node[u] \in heap'
                             /\ value'[new_node[u]] = value[new_node[u]]
                             /\ next'[new_node[u]] = next[new_node[u]]
  PROVE  VisitOK(u)' /\ CallOK(u)'
BY DEF VisitOK, CallOK, PushPcs

\* A step that leaves the nodes of the chain alone and gives no push a node
\* that was in use.
LEMMA ShapeKept ==
  ASSUME TypeOK, ChainShape, UNCHANGED <<top, chain>>,
         \A i \in 1 .. Len(chain) : /\ chain[i] \in heap'
                                    /\ next'[chain[i]] = next[chain[i]],
         \A u \in Threads : pc'[u] \in PushPcs =>
           \/ new_node'[u] \notin heap
           \/ pc[u] \in PushPcs /\ new_node'[u] = new_node[u]
  PROVE  ChainShape'
BY DEF ChainShape, PushPcs

\* The same for the nodes that pops have read, if no more have read one.
LEMMA ReuseKept ==
  ASSUME TypeOK, NoReuse,
         \A u \in Threads : pc'[u] = "pop_swing" =>
           /\ pc[u] = "pop_swing" /\ expected_top'[u] = expected_top[u]
           /\ expected_top[u] \in heap',
         \A u \in Threads : pc'[u] \in PushPcs =>
           \/ new_node'[u] \notin heap
           \/ pc[u] \in PushPcs /\ new_node'[u] = new_node[u]
  PROVE  NoReuse'
BY DEF NoReuse, PushPcs

\* The step of a call that allocates and frees nothing, gives up nothing and
\* writes to no node.
LEMMA LocalStep ==
  ASSUME IInv, NEW t \in Threads, TypeOK', UNCHANGED memory,
         \A u \in Threads \ {t} :
           /\ pc'[u] = pc[u] /\ new_node'[u] = new_node[u]
           /\ expected_top'[u] = expected_top[u] /\ val'[u] = val[u]
           /\ phase'[u] = phase[u] /\ offer'[u] = offer[u] /\ got'[u] = got[u],
         pc'[t] \in PushPcs => pc[t] \in PushPcs /\ new_node'[t] = new_node[t],
         pc'[t] = "pop_swing" => expected_top'[t] = top /\ top # Null,
         VisitOK(t)', CallOK(t)'
  PROVE  IInv'
<1> USE DEF memory
<1>1. \A u \in Threads : VisitOK(u)' /\ CallOK(u)'
  BY CallKept DEF IInv, CallOK
<1>2. OneOwner'
  BY DEF IInv, OneOwner
<1>3. ChainShape'
  BY ShapeKept DEF IInv, ChainShape
<1>4. top # Null => top \in heap /\ \A u \in Threads : pc[u] \in PushPcs => new_node[u] # top
  BY LenProperties, EmptySeq DEF IInv, TypeOK, ChainShape, PushPcs
<1>5. NoReuse'
  BY <1>4 DEF IInv, NoReuse, PushPcs
<1> QED
  BY <1>1, <1>2, <1>3, <1>5 DEF IInv

----------------------------------------------------------------------------
(* The steps of push *)

LEMMA PushBeginStep ==
  ASSUME IInv, NEW t \in Threads, PushBegin(t)
  PROVE  IInv'
<1>1. PICK n \in Nodes \ heap, v \in Values :
        /\ heap' = heap \cup {n}
        /\ value' = [value EXCEPT ![n] = v]
        /\ new_node' = [new_node EXCEPT ![t] = n]
        /\ val' = [val EXCEPT ![t] = v]
  BY DEF PushBegin
<1>2. /\ pc[t] = "idle" /\ pc' = [pc EXCEPT ![t] = "push_load"]
      /\ UNCHANGED <<top, next, chain, expected_top, phase, offer, got>>
  BY DEF PushBegin, Goto, array
<1>3. TypeOK'
  BY <1>1, <1>2 DEF IInv, TypeOK, PushPcs
<1>4. VisitOK(t)' /\ CallOK(t)'
  BY <1>1, <1>2 DEF IInv, TypeOK, VisitOK, CallOK, PushPcs, PopPcs
<1>5. \A u \in Threads \ {t} : VisitOK(u)' /\ CallOK(u)'
  BY <1>1, <1>2, CallKept DEF IInv, TypeOK, CallOK
<1>6. OneOwner'
  BY <1>1, <1>2 DEF IInv, TypeOK, OneOwner, CallOK
<1>7. \A u \in Threads : pc'[u] \in PushPcs =>
        \/ new_node'[u] \notin heap
        \/ pc[u] \in PushPcs /\ new_node'[u] = new_node[u]
  BY <1>1, <1>2 DEF IInv, TypeOK
<1>8. ChainShape'
  BY <1>1, <1>2, <1>7, ShapeKept DEF IInv, ChainShape
<1>9. NoReuse'
  BY <1>1, <1>2, <1>7, ReuseKept DEF IInv, TypeOK, NoReuse
<1> QED
  BY <1>3, <1>4, <1>5, <1>6, <1>8, <1>9 DEF IInv

\* The node of the push is in no list yet, so nobody minds its next.
LEMMA PushLoadStep ==
  ASSUME IInv, NEW t \in Threads, PushLoad(t)
  PROVE  IInv'
<1>1. /\ pc[t] = "push_load" /\ pc' = [pc EXCEPT ![t] = "push_swing"]
      /\ expected_top' = [expected_top EXCEPT ![t] = top]
      /\ next' = [next EXCEPT ![new_node[t]] = top]
      /\ UNCHANGED <<top, value, heap, chain, new_node, val, phase, offer, got>>
  BY DEF PushLoad, Goto, array
<1>2. new_node[t] \in Nodes
  BY <1>1 DEF IInv, TypeOK, CallOK, PushPcs
<1>3. TypeOK'
  BY <1>1, <1>2 DEF IInv, TypeOK, PushPcs
<1>4. VisitOK(t)' /\ CallOK(t)'
  BY <1>1, <1>2 DEF IInv, TypeOK, VisitOK, CallOK, PushPcs, PopPcs
<1>5. \A u \in Threads \ {t} : VisitOK(u)' /\ CallOK(u)'
  <2> TAKE u \in Threads \ {t}
  <2>1. pc[u] \in PushPcs => new_node[u] # new_node[t] /\ new_node[u] \in heap
    BY <1>1 DEF IInv, OneOwner, CallOK, PushPcs
  <2>2. /\ pc'[u] = pc[u] /\ expected_top'[u] = expected_top[u]
        /\ pc[u] \in PushPcs => next'[new_node[u]] = next[new_node[u]]
    BY <1>1, <2>1 DEF IInv, TypeOK
  <2> QED
    BY <1>1, <2>1, <2>2, CallKept DEF IInv
<1>6. OneOwner'
  BY <1>1 DEF IInv, TypeOK, OneOwner, PushPcs
<1>7. \A u \in Threads : pc'[u] \in PushPcs =>
        pc[u] \in PushPcs /\ new_node'[u] = new_node[u]
  BY <1>1 DEF IInv, TypeOK, PushPcs
<1>8. ChainShape'
  <2>1. \A i \in 1 .. Len(chain) : chain[i] \in heap' /\ next'[chain[i]] = next[chain[i]]
    BY <1>1 DEF IInv, TypeOK, ChainShape
  <2> QED
    BY <1>1, <1>7, <2>1, ShapeKept DEF IInv
<1>9. NoReuse'
  BY <1>1, <1>7, ReuseKept DEF IInv, TypeOK, NoReuse
<1> QED
  BY <1>3, <1>4, <1>5, <1>6, <1>8, <1>9 DEF IInv

\* A node in front of the chain.
LEMMA LongerChain ==
  ASSUME chain \in Seq(Nodes), NEW n \in Nodes, chain' = <<n>> \o chain
  PROVE  /\ chain' \in Seq(Nodes) /\ Len(chain) \in Nat
         /\ Len(chain') = Len(chain) + 1 /\ chain'[1] = n
         /\ \A i \in 1 .. Len(chain) : chain'[i + 1] = chain[i]
<1>1. <<n>> \in Seq(Nodes) /\ Len(<<n>>) = 1 /\ <<n>>[1] = n
  OBVIOUS
<1>2. Len(chain) \in Nat
  BY LenProperties
<1>3. /\ chain' \in Seq(Nodes) /\ Len(chain') = 1 + Len(chain)
      /\ \A i \in 1 .. 1 + Len(chain) :
           chain'[i] = IF i <= 1 THEN <<n>>[i] ELSE chain[i - 1]
  BY <1>1, ConcatProperties
<1> QED
  BY <1>1, <1>2, <1>3

\* The exchange that succeeds puts a node on top whose next is the old top.
LEMMA PushSwingStep ==
  ASSUME IInv, NEW t \in Threads, PushSwing(t)
  PROVE  IInv'
<1>1. CASE top # expected_top[t]
  <2>1. /\ pc[t] = "push_swing" /\ pc' = [pc EXCEPT ![t] = "push_visit"]
        /\ phase[t] = "idle" /\ phase' = [phase EXCEPT ![t] = "offered"]
        /\ offer' = [offer EXCEPT ![t] = val[t]]
        /\ got' = got /\ UNCHANGED <<memory, locals>>
    BY <1>1 DEF PushSwing, Goto, Array!Offer, memory
  <2>2. val[t] \in Values
    BY <2>1 DEF IInv, CallOK, PushPcs
  <2>3. TypeOK'
    BY <2>1, <2>2 DEF IInv, TypeOK, memory, locals, PushPcs, Items
  <2>4. VisitOK(t)' /\ CallOK(t)'
    BY <2>1 DEF IInv, TypeOK, VisitOK, CallOK, PushPcs, PopPcs, memory, locals
  <2> QED
    BY <2>1, <2>3, <2>4, LocalStep DEF IInv, TypeOK, locals, PushPcs
<1>2. CASE top = expected_top[t]
  <2>1. /\ pc[t] = "push_swing" /\ pc' = [pc EXCEPT ![t] = "return"]
        /\ top' = new_node[t] /\ chain' = <<new_node[t]>> \o chain
        /\ UNCHANGED <<next, value, heap, locals, phase, offer, got>>
    BY <1>2 DEF PushSwing, Goto, array
  <2>2. new_node[t] \in heap /\ new_node[t] \in Nodes /\ next[new_node[t]] = top
    BY <1>2, <2>1 DEF IInv, TypeOK, CallOK, PushPcs
  <2>3. TypeOK'
    BY <2>1, <2>2, LongerChain DEF IInv, TypeOK, locals
  <2>4. VisitOK(t)' /\ CallOK(t)'
    BY <2>1 DEF IInv, TypeOK, VisitOK, CallOK, PushPcs, PopPcs, locals
  <2>5. \A u \in Threads \ {t} : VisitOK(u)' /\ CallOK(u)'
    BY <2>1, CallKept DEF IInv, TypeOK, CallOK, locals
  <2>6. OneOwner'
    BY <2>1 DEF IInv, TypeOK, OneOwner, PushPcs, locals
  <2>7. \A u \in Threads : pc'[u] \in PushPcs =>
          pc[u] \in PushPcs /\ new_node'[u] = new_node[u] /\ new_node[u] # new_node[t]
    BY <2>1 DEF IInv, TypeOK, OneOwner, PushPcs, locals
  <2>8. ChainShape'
    <3>1. /\ Len(chain) \in Nat /\ Len(chain') = Len(chain) + 1
          /\ chain'[1] = new_node[t]
          /\ \A i \in 1 .. Len(chain) : chain'[i + 1] = chain[i]
      BY <2>1, <2>2, LongerChain DEF IInv, TypeOK
    <3>2. top' = chain'[1] /\ chain' # <<>>
      BY <2>1, <3>1, EmptySeq
    <3>3. ASSUME NEW i \in 1 .. Len(chain')
          PROVE  /\ chain'[i] \in heap
                 /\ next[chain'[i]] = IF i = Len(chain') THEN Null ELSE chain'[i + 1]
                 /\ \A u \in Threads : pc'[u] \in PushPcs => new_node[u] # chain'[i]
      <4>1. CASE i = 1
        <5>1. next[chain'[1]] = IF 1 = Len(chain') THEN Null ELSE chain'[1 + 1]
          <6>1. CASE chain = <<>>
            BY <6>1, <2>2, <3>1, EmptySeq DEF IInv, ChainShape
          <6>2. CASE chain # <<>>
            <7>1. 1 \in 1 .. Len(chain) /\ Len(chain') # 1
              BY <6>2, <3>1, EmptySeq DEF IInv, TypeOK
            <7> QED
              BY <6>2, <7>1, <2>2, <3>1 DEF IInv, ChainShape
          <6> QED
            BY <6>1, <6>2
        <5>2. chain'[i] = new_node[t]
          BY <4>1, <3>1
        <5>3. \A u \in Threads : pc'[u] \in PushPcs => new_node[u] # chain'[i]
          BY <2>7, <5>2
        <5> QED
          BY <4>1, <5>1, <5>2, <5>3, <2>2
      <4>2. CASE i # 1
        <5>0. i - 1 \in 1 .. Len(chain) /\ i = (i - 1) + 1
          BY <3>1, <4>2
        <5>1. PICK j \in 1 .. Len(chain) : i = j + 1
          BY <5>0
        <5>2. /\ chain[j] \in heap
              /\ next[chain[j]] = IF j = Len(chain) THEN Null ELSE chain[j + 1]
              /\ \A u \in Threads : pc[u] \in PushPcs => new_node[u] # chain[j]
          BY DEF IInv, ChainShape, PushPcs
        <5>3. j # Len(chain) => j + 1 \in 1 .. Len(chain)
          BY <3>1
        <5> QED
          BY <5>1, <5>2, <5>3, <2>7, <3>1
      <4> QED
        BY <4>1, <4>2
    <3> QED
      BY <2>1, <3>2, <3>3 DEF ChainShape, PushPcs, locals
  <2>9. NoReuse'
    BY <2>1, <2>7, ReuseKept DEF IInv, TypeOK, NoReuse, locals
  <2> QED
    BY <2>3, <2>4, <2>5, <2>6, <2>8, <2>9 DEF IInv
<1> QED
  BY <1>1, <1>2

\* The node that is deleted is in no list, and no other call knows it.
LEMMA PushCollectStep ==
  ASSUME IInv, NEW t \in Threads, PushCollect(t)
  PROVE  IInv'
<1>1. /\ pc[t] = "push_visit"
      /\ phase' = [phase EXCEPT ![t] = "idle"]
      /\ offer' = [offer EXCEPT ![t] = NoValue]
      /\ got' = [got EXCEPT ![t] = NoValue]
      /\ UNCHANGED <<top, next, value, chain, locals>>
  BY DEF PushCollect, Array!Collect
<1>2. CASE got[t] # PopToken
  <2>1. pc' = [pc EXCEPT ![t] = "push_load"] /\ heap' = heap
    BY <1>2 DEF PushCollect, Goto
  <2>2. TypeOK'
    BY <1>1, <2>1 DEF IInv, TypeOK, locals, PushPcs
  <2>3. VisitOK(t)' /\ CallOK(t)'
    BY <1>1, <2>1 DEF IInv, TypeOK, VisitOK, CallOK, PushPcs, PopPcs, locals
  <2> QED
    BY <1>1, <2>1, <2>2, <2>3, LocalStep DEF IInv, TypeOK, memory, locals, PushPcs
<1>3. CASE got[t] = PopToken
  <2>1. pc' = [pc EXCEPT ![t] = "return"] /\ heap' = heap \ {new_node[t]}
    BY <1>3 DEF PushCollect, Goto
  <2>2. TypeOK'
    BY <1>1, <2>1 DEF IInv, TypeOK, locals
  <2>3. VisitOK(t)' /\ CallOK(t)'
    BY <1>1, <2>1 DEF IInv, TypeOK, VisitOK, CallOK, PushPcs, PopPcs, locals
  <2>4. \A u \in Threads \ {t} : pc[u] \in PushPcs => new_node[u] \in heap'
    BY <1>1, <2>1 DEF IInv, OneOwner, CallOK, PushPcs
  <2>5. \A u \in Threads \ {t} : VisitOK(u)' /\ CallOK(u)'
    BY <1>1, <2>1, <2>4, CallKept DEF IInv, TypeOK, locals
  <2>6. \A u \in Threads : pc'[u] \in PushPcs =>
          pc[u] \in PushPcs /\ new_node'[u] = new_node[u]
    BY <1>1, <2>1 DEF IInv, TypeOK, PushPcs, locals
  <2>7. OneOwner'
    BY <2>6 DEF IInv, OneOwner
  <2>8. ChainShape'
    BY <1>1, <2>1, <2>6, ShapeKept DEF IInv, ChainShape
  <2>9. NoReuse'
    BY <1>1, <2>1, <2>6, ReuseKept DEF IInv, TypeOK, NoReuse, locals
  <2> QED
    BY <2>2, <2>3, <2>5, <2>7, <2>8, <2>9 DEF IInv
<1> QED
  BY <1>2, <1>3

----------------------------------------------------------------------------
(* The steps of pop *)

\* A top that a pop has read is the first node of the chain.
LEMMA TopOfChain ==
  ASSUME IInv, top # Null
  PROVE  chain # <<>> /\ Len(chain) \in Nat /\ 1 \in 1 .. Len(chain) /\ top = chain[1]
BY EmptySeq, LenProperties DEF IInv, TypeOK, ChainShape

LEMMA PopLoadStep ==
  ASSUME IInv, NEW t \in Threads, PopBegin(t) \/ PopLoad(t)
  PROVE  IInv'
<1>1. CASE PopBegin(t)
  <2>1. /\ pc[t] = "idle" /\ pc' = [pc EXCEPT ![t] = "pop_load"]
        /\ UNCHANGED <<memory, locals, phase, offer, got>>
    BY <1>1 DEF PopBegin, Goto, array
  <2>2. TypeOK'
    BY <2>1 DEF IInv, TypeOK, PopPcs, memory, locals
  <2>3. VisitOK(t)' /\ CallOK(t)'
    BY <2>1 DEF IInv, TypeOK, VisitOK, CallOK, PushPcs, PopPcs, memory, locals
  <2> QED
    BY <2>1, <2>2, <2>3, LocalStep DEF IInv, TypeOK, locals, PushPcs
<1>2. CASE PopLoad(t)
  <2>1. /\ pc[t] = "pop_load"
        /\ pc' = [pc EXCEPT ![t] = IF top = Null THEN "empty" ELSE "pop_swing"]
        /\ expected_top' = [expected_top EXCEPT ![t] = top]
        /\ UNCHANGED <<memory, new_node, val, phase, offer, got>>
    BY <1>2 DEF PopLoad, Goto, array
  <2>2. TypeOK'
    BY <2>1 DEF IInv, TypeOK, PopPcs, memory
  <2>3. VisitOK(t)' /\ CallOK(t)'
    BY <2>1 DEF IInv, TypeOK, VisitOK, CallOK, PushPcs, PopPcs, memory
  <2> QED
    BY <2>1, <2>2, <2>3, LocalStep DEF IInv, TypeOK, PushPcs
<1> QED
  BY <1>1, <1>2

\* The exchange that succeeds found the node it had read still on top, and its
\* next was never written since.
LEMMA PopSwingStep ==
  ASSUME IInv, NEW t \in Threads, PopSwing(t)
  PROVE  IInv'
<1>1. CASE top # expected_top[t]
  <2>1. /\ pc[t] = "pop_swing" /\ pc' = [pc EXCEPT ![t] = "pop_visit"]
        /\ phase[t] = "idle" /\ phase' = [phase EXCEPT ![t] = "offered"]
        /\ offer' = [offer EXCEPT ![t] = PopToken]
        /\ got' = got /\ UNCHANGED <<memory, locals>>
    BY <1>1 DEF PopSwing, Goto, Array!Offer, memory, locals
  <2>2. TypeOK'
    BY <2>1 DEF IInv, TypeOK, memory, locals, PopPcs, Items
  <2>3. VisitOK(t)' /\ CallOK(t)'
    BY <2>1 DEF IInv, TypeOK, VisitOK, CallOK, PushPcs, PopPcs, memory, locals
  <2> QED
    BY <2>1, <2>2, <2>3, LocalStep DEF IInv, TypeOK, locals, PushPcs
<1>2. CASE top = expected_top[t]
  <2>1. /\ pc[t] = "pop_swing" /\ pc' = [pc EXCEPT ![t] = "return"]
        /\ top' = next[top] /\ chain' = Tail(chain)
        /\ val' = [val EXCEPT ![t] = value[top]]
        /\ UNCHANGED <<next, value, heap, new_node, expected_top, phase, offer, got>>
    BY <1>2 DEF PopSwing, Goto, array
  <2>2. top \in Nodes /\ top # Null
    BY <1>2, <2>1, NullAssumption DEF IInv, TypeOK, NoReuse
  <2>3. chain # <<>> /\ Len(chain) \in Nat /\ 1 \in 1 .. Len(chain) /\ top = chain[1]
    BY <2>2, TopOfChain
  <2>4. /\ chain' \in Seq(Nodes) /\ Len(chain') = Len(chain) - 1
        /\ \A k \in 1 .. Len(chain') : chain'[k] = chain[k + 1] /\ k + 1 \in 1 .. Len(chain)
    BY <2>1, <2>3, HeadTailProperties DEF IInv, TypeOK
  <2>5. TypeOK'
    BY <2>1, <2>2, <2>4 DEF IInv, TypeOK
  <2>6. VisitOK(t)' /\ CallOK(t)'
    BY <2>1 DEF IInv, TypeOK, VisitOK, CallOK, PushPcs, PopPcs
  <2>7. \A u \in Threads \ {t} : VisitOK(u)' /\ CallOK(u)'
    BY <2>1, CallKept DEF IInv, TypeOK, CallOK
  <2>8. \A u \in Threads : pc'[u] \in PushPcs =>
          pc[u] \in PushPcs /\ new_node'[u] = new_node[u]
    BY <2>1 DEF IInv, TypeOK, PushPcs
  <2>9. OneOwner'
    BY <2>8 DEF IInv, OneOwner
  <2>10. ChainShape'
    <3>1. top' = IF chain' = <<>> THEN Null ELSE chain'[1]
      <4>1. next[chain[1]] = IF 1 = Len(chain) THEN Null ELSE chain[2]
        BY <2>3 DEF IInv, ChainShape
      <4>2. CASE Len(chain) = 1
        BY <4>1, <4>2, <2>1, <2>3, <2>4, EmptySeq
      <4>3. CASE Len(chain) # 1
        <5>1. chain' # <<>> /\ 1 \in 1 .. Len(chain')
          BY <4>3, <2>3, <2>4, EmptySeq
        <5> QED
          BY <4>1, <4>3, <5>1, <2>1, <2>3, <2>4
      <4> QED
        BY <4>2, <4>3
    <3>2. ASSUME NEW k \in 1 .. Len(chain')
          PROVE  /\ chain'[k] \in heap
                 /\ next[chain'[k]] = IF k = Len(chain') THEN Null ELSE chain'[k + 1]
                 /\ \A u \in Threads : pc'[u] \in PushPcs => new_node'[u] # chain'[k]
      <4>1. chain'[k] = chain[k + 1] /\ k + 1 \in 1 .. Len(chain)
        BY <2>4
      <4>2. /\ chain[k + 1] \in heap
            /\ next[chain[k + 1]] = IF k + 1 = Len(chain) THEN Null ELSE chain[(k + 1) + 1]
            /\ \A u \in Threads : pc[u] \in PushPcs => new_node[u] # chain[k + 1]
        BY <4>1 DEF IInv, ChainShape, PushPcs
      <4>3. k # Len(chain') => k + 1 \in 1 .. Len(chain') /\ k + 1 # Len(chain)
        BY <2>3, <2>4
      <4>4. k = Len(chain') => k + 1 = Len(chain)
        BY <2>3, <2>4
      <4> QED
        BY <4>1, <4>2, <4>3, <4>4, <2>4, <2>8
    <3> QED
      BY <2>1, <3>1, <3>2 DEF ChainShape, PushPcs
  <2>11. NoReuse'
    BY <2>1, <2>8, ReuseKept DEF IInv, TypeOK, NoReuse
  <2> QED
    BY <2>5, <2>6, <2>7, <2>9, <2>10, <2>11 DEF IInv
<1> QED
  BY <1>1, <1>2

LEMMA PopCollectStep ==
  ASSUME IInv, NEW t \in Threads, PopCollect(t)
  PROVE  IInv'
<1>1. /\ pc[t] = "pop_visit"
      /\ phase' = [phase EXCEPT ![t] = "idle"]
      /\ offer' = [offer EXCEPT ![t] = NoValue]
      /\ got' = [got EXCEPT ![t] = NoValue]
      /\ pc' = [pc EXCEPT ![t] = IF got[t] \in Values THEN "return" ELSE "pop_load"]
      /\ val' = IF got[t] \in Values THEN [val EXCEPT ![t] = got[t]] ELSE val
      /\ UNCHANGED <<memory, new_node, expected_top>>
  BY DEF PopCollect, Array!Collect, Goto
<1>2. TypeOK'
  BY <1>1 DEF IInv, TypeOK, memory, PopPcs
<1>3. VisitOK(t)' /\ CallOK(t)'
  BY <1>1 DEF IInv, TypeOK, VisitOK, CallOK, PushPcs, PopPcs, memory
<1> QED
  BY <1>1, <1>2, <1>3, LocalStep DEF IInv, TypeOK, PushPcs

----------------------------------------------------------------------------
(* The other steps *)

LEMMA ReturnStep ==
  ASSUME IInv, NEW t \in Threads, Return(t)
  PROVE  IInv'
<1>1. /\ pc[t] \in {"return", "empty"} /\ pc' = [pc EXCEPT ![t] = "idle"]
      /\ new_node' = [new_node EXCEPT ![t] = Null]
      /\ expected_top' = [expected_top EXCEPT ![t] = Null]
      /\ val' = [val EXCEPT ![t] = NoValue]
      /\ UNCHANGED <<memory, phase, offer, got>>
  BY DEF Return, Goto, array
<1>2. TypeOK'
  BY <1>1 DEF IInv, TypeOK, memory
<1>3. VisitOK(t)' /\ CallOK(t)'
  BY <1>1 DEF IInv, TypeOK, VisitOK, CallOK, PushPcs, PopPcs, memory
<1> QED
  BY <1>1, <1>2, <1>3, LocalStep DEF IInv, TypeOK, PushPcs

\* Nothing that happens in the array changes the stack or a local variable.
LEMMA ArrayStep ==
  ASSUME IInv, NEW t \in Threads, TimeOut(t) \/ \E u \in Threads : Meet(t, u)
  PROVE  IInv'
<1>1. UNCHANGED <<memory, locals, pc, offer>>
  BY DEF TimeOut, Meet, Array!Miss, Array!Match
<1>2. TypeOK' /\ \A u \in Threads : VisitOK(u)' /\ CallOK(u)'
  <2>1. CASE TimeOut(t)
    <3>1. phase[t] = "offered" /\ phase' = [phase EXCEPT ![t] = "done"] /\ got' = got
      BY <2>1 DEF TimeOut, Array!Miss
    <3> QED
      BY <1>1, <3>1 DEF IInv, TypeOK, VisitOK, CallOK, memory, locals
  <2>2. ASSUME NEW u \in Threads, Meet(t, u)
        PROVE  TypeOK' /\ \A w \in Threads : VisitOK(w)' /\ CallOK(w)'
    <3>1. /\ t # u /\ phase[t] = "offered" /\ phase[u] = "offered"
          /\ phase' = [phase EXCEPT ![t] = "done", ![u] = "done"]
          /\ got' = [got EXCEPT ![t] = offer[u], ![u] = offer[t]]
      BY <2>2 DEF Meet, Array!Match
    <3> QED
      BY <1>1, <3>1 DEF IInv, TypeOK, VisitOK, CallOK, memory, locals
  <2> QED
    BY <2>1, <2>2
<1>3. OneOwner' /\ ChainShape' /\ NoReuse'
  BY <1>1 DEF IInv, OneOwner, ChainShape, NoReuse, memory, locals
<1> QED
  BY <1>2, <1>3 DEF IInv

LEMMA NextIInv == IInv /\ [Next]_vars => IInv'
<1> SUFFICES ASSUME IInv, [Next]_vars PROVE IInv'
  OBVIOUS
<1>1. CASE UNCHANGED vars
  BY <1>1 DEF vars, memory, locals, array, IInv, TypeOK, VisitOK, CallOK, OneOwner,
              ChainShape, NoReuse
<1>2. ASSUME NEW t \in Threads, Step(t) PROVE IInv'
  BY <1>2, PushLoadStep, PushSwingStep, PushCollectStep, PopLoadStep, PopSwingStep,
     PopCollectStep, ReturnStep, ArrayStep DEF Step
<1> QED
  BY <1>1, <1>2, PushBeginStep, PopLoadStep, ArrayStep DEF Next

\* Whatever threads, values and nodes there are, every reachable state of the
\* stack and its elimination array satisfies the inductive invariant.
THEOREM IInvHolds == Spec => []IInv
BY InitIInv, NextIInv, PTL DEF Spec

\* The nodes from top_ on are those pushed and not popped; none of them is
\* deleted, although the nodes of pushes that met a pop are.
THEOREM ChainShapeHolds == Spec => []ChainShape
<1>1. IInv => ChainShape
  BY DEF IInv
<1> QED
  BY <1>1, IInvHolds, PTL

\* No ABA: the node that a pop has read from top_ is not handed out again
\* before the pop has exchanged it.
THEOREM NoReuseHolds == Spec => []NoReuse
<1>1. IInv => NoReuse
  BY DEF IInv
<1> QED
  BY <1>1, IInvHolds, PTL

----------------------------------------------------------------------------
(* The abstract stack *)

Cells == Values \cup {NoValue}

\* What the definition of contents comes to.
ContentsOK == /\ contents \in Seq(Cells) /\ Len(chain) \in Nat
              /\ Len(contents) = Len(chain)
              /\ \A i \in 1 .. Len(chain) : contents[i] = value[chain[i]]

LEMMA ContentsHold == IInv => ContentsOK
<1> SUFFICES ASSUME IInv PROVE ContentsOK
  OBVIOUS
<1>1. Len(chain) \in Nat /\ \A i \in 1 .. Len(chain) : value[chain[i]] \in Cells
  BY LenProperties DEF IInv, TypeOK, Cells
<1> QED
  BY <1>1 DEF ContentsOK, contents

\* The stack is as it was if the chain is and its nodes keep their values.
LEMMA SameContents ==
  ASSUME ContentsOK, ContentsOK', chain' = chain,
         \A i \in 1 .. Len(chain) : value'[chain[i]] = value[chain[i]]
  PROVE  contents' = contents
<1>1. Len(contents') = Len(contents)
  BY DEF ContentsOK
<1>2. \A i \in 1 .. Len(contents') : contents'[i] = contents[i]
  BY DEF ContentsOK
<1> QED
  BY <1>1, <1>2, SeqEqual DEF ContentsOK

LEMMA PushContents ==
  ASSUME IInv, ContentsOK, ContentsOK', NEW n \in Nodes,
         chain' = <<n>> \o chain, value' = value
  PROVE  contents' = <<value[n]>> \o contents
<1>1. /\ Len(chain') = Len(chain) + 1 /\ chain'[1] = n
      /\ \A i \in 1 .. Len(chain) : chain'[i + 1] = chain[i]
  BY LongerChain DEF IInv, TypeOK
<1> DEFINE more == <<value[n]>> \o contents
<1>2. <<value[n]>> \in Seq(Cells) /\ Len(<<value[n]>>) = 1 /\ <<value[n]>>[1] = value[n]
  BY DEF IInv, TypeOK, Cells
<1>3. /\ more \in Seq(Cells) /\ Len(more) = 1 + Len(contents)
      /\ \A i \in 1 .. 1 + Len(contents) :
           more[i] = IF i <= 1 THEN <<value[n]>>[i] ELSE contents[i - 1]
  BY <1>2, ConcatProperties DEF ContentsOK
<1> HIDE DEF more
<1>4. ASSUME NEW i \in 1 .. Len(contents') PROVE contents'[i] = more[i]
  <2>1. contents'[i] = value[chain'[i]] /\ i \in 1 .. Len(chain) + 1 /\ Len(chain) \in Nat
    BY <1>1 DEF ContentsOK
  <2>2. CASE i = 1
    BY <1>1, <1>2, <1>3, <2>1, <2>2 DEF ContentsOK
  <2>3. CASE i # 1
    <3>1. i - 1 \in 1 .. Len(chain) /\ i = (i - 1) + 1
      BY <2>1, <2>3
    <3>2. chain'[i] = chain[i - 1] /\ contents[i - 1] = value[chain[i - 1]]
      BY <1>1, <3>1 DEF ContentsOK
    <3>3. more[i] = contents[i - 1]
      BY <1>3, <2>1, <2>3 DEF ContentsOK
    <3> QED
      BY <2>1, <3>2, <3>3
  <2> QED
    BY <2>2, <2>3
<1>5. contents' = more
  <2>1. Len(contents') = Len(more)
    BY <1>1, <1>3 DEF ContentsOK
  <2> QED
    BY <1>3, <1>4, <2>1, SeqEqual DEF ContentsOK
<1> QED
  BY <1>5 DEF more

LEMMA PopContents ==
  ASSUME ContentsOK, ContentsOK', chain \in Seq(Nodes), chain # <<>>,
         chain' = Tail(chain), value' = value
  PROVE  /\ contents # <<>> /\ Head(contents) = value[chain[1]]
         /\ contents' = Tail(contents)
<1>1. /\ Len(chain) >= 1 /\ Len(chain') = Len(chain) - 1
      /\ \A i \in 1 .. Len(chain') : chain'[i] = chain[i + 1]
  BY EmptySeq, HeadTailProperties DEF ContentsOK
<1>2. contents # <<>> /\ Head(contents) = contents[1] /\ contents[1] = value[chain[1]]
  BY <1>1, EmptySeq DEF ContentsOK
<1>3. /\ Tail(contents) \in Seq(Cells) /\ Len(Tail(contents)) = Len(contents) - 1
      /\ \A i \in 1 .. Len(contents) - 1 : Tail(contents)[i] = contents[i + 1]
  BY <1>2, HeadTailProperties DEF ContentsOK
<1>4. ASSUME NEW i \in 1 .. Len(contents')
      PROVE  contents'[i] = Tail(contents)[i]
  <2>1. i \in 1 .. Len(contents) - 1 /\ i \in 1 .. Len(chain') /\ i + 1 \in 1 .. Len(chain)
    BY <1>1 DEF ContentsOK
  <2> QED
    BY <1>1, <1>3, <2>1 DEF ContentsOK
<1>5. Len(contents') = Len(Tail(contents))
  BY <1>1, <1>3 DEF ContentsOK
<1> QED
  BY <1>2, <1>3, <1>4, <1>5, SeqEqual DEF ContentsOK

\* Nobody but t notices anything.
OnlyCallOf(t) ==
  \A u \in Threads \ {t} : /\ pc'[u] = pc[u] /\ new_node'[u] = new_node[u]
                           /\ val'[u] = val[u] /\ got'[u] = got[u]

\* The call of t goes from phase p with datum d to phase q with datum e.
MovesOn(t, p, d, q, e) ==
  /\ callPhase[t] = p /\ callPhase' = [callPhase EXCEPT ![t] = q]
  /\ callData[t] = d /\ callData' = [callData EXCEPT ![t] = e]

LEMMA CallMovesOn ==
  ASSUME NEW t \in Threads, OnlyCallOf(t)
  PROVE  MovesOn(t, callPhase[t], callData[t], callPhase'[t], callData'[t])
<1>1. \A u \in Threads \ {t} : callPhase'[u] = callPhase[u] /\ callData'[u] = callData[u]
  BY DEF callPhase, callData, OnlyCallOf, Pushing, MetPop, MetPush
<1>2. callPhase = [u \in Threads |-> callPhase[u]] /\ callData = [u \in Threads |-> callData[u]]
  BY DEF callPhase, callData, Pushing, MetPop, MetPush
<1>3. callPhase' = [u \in Threads |-> callPhase'[u]] /\ callData' = [u \in Threads |-> callData'[u]]
  BY DEF callPhase, callData, Pushing, MetPop, MetPush
<1> QED
  BY <1>1, <1>2, <1>3 DEF MovesOn

\* A step of t that no caller and no other call sees.
LEMMA Unseen ==
  ASSUME NEW t \in Threads, OnlyCallOf(t), contents' = contents,
         callPhase'[t] = callPhase[t], callData'[t] = callData[t]
  PROVE  UNCHANGED Lifo!vars
<1>1. MovesOn(t, callPhase[t], callData[t], callPhase[t], callData[t])
  BY CallMovesOn
<1>2. callPhase' = callPhase /\ callData' = callData
  BY <1>1 DEF MovesOn, callPhase, callData, Pushing, MetPop, MetPush
<1> QED
  BY <1>2 DEF Lifo!vars

----------------------------------------------------------------------------
(* The steps of push and pop, seen from outside *)

LEMMA PushBeginLifo ==
  ASSUME IInv, ContentsOK, ContentsOK', NEW t \in Threads, PushBegin(t)
  PROVE  Lifo!BeginPush(t)
<1>1. PICK n \in Nodes \ heap, v \in Values :
        /\ value' = [value EXCEPT ![n] = v]
        /\ new_node' = [new_node EXCEPT ![t] = n]
        /\ val' = [val EXCEPT ![t] = v]
  BY DEF PushBegin
<1>2. /\ pc[t] = "idle" /\ pc' = [pc EXCEPT ![t] = "push_load"]
      /\ UNCHANGED <<chain, got>>
  BY DEF PushBegin, Goto, array
<1>3. OnlyCallOf(t)
  BY <1>1, <1>2 DEF IInv, TypeOK, OnlyCallOf
<1>4. callPhase[t] = "idle" /\ callPhase'[t] = "push" /\ callData'[t] = v
  BY <1>1, <1>2 DEF IInv, TypeOK, callPhase, callData, Pushing, MetPop, MetPush
<1>5. contents' = contents
  BY <1>1, <1>2, SameContents DEF IInv, TypeOK, ChainShape
<1> QED
  BY <1>3, <1>4, <1>5, CallMovesOn DEF MovesOn, Lifo!BeginPush, Lifo!Move

LEMMA PushLoadLifo ==
  ASSUME IInv, ContentsOK, ContentsOK', NEW t \in Threads, PushLoad(t)
  PROVE  UNCHANGED Lifo!vars
<1>1. /\ pc[t] = "push_load" /\ pc' = [pc EXCEPT ![t] = "push_swing"]
      /\ UNCHANGED <<value, chain, new_node, val, got>>
  BY DEF PushLoad, Goto, array
<1>2. OnlyCallOf(t) /\ contents' = contents
  BY <1>1, SameContents DEF IInv, TypeOK, OnlyCallOf
<1>3. callPhase'[t] = callPhase[t] /\ callData'[t] = callData[t]
  BY <1>1 DEF IInv, TypeOK, callPhase, callData, Pushing, MetPop, MetPush
<1> QED
  BY <1>2, <1>3, Unseen

LEMMA PushSwingLifo ==
  ASSUME IInv, ContentsOK, ContentsOK', NEW t \in Threads, PushSwing(t)
  PROVE  Lifo!Push(t) \/ UNCHANGED Lifo!vars
<1>1. /\ pc[t] = "push_swing"
      /\ UNCHANGED <<next, value, heap, locals, got>>
  BY DEF PushSwing, array, Array!Offer
<1>2. CASE top # expected_top[t]
  <2>1. pc' = [pc EXCEPT ![t] = "push_visit"] /\ chain' = chain /\ got[t] = NoValue
    BY <1>1, <1>2 DEF PushSwing, Goto, IInv, VisitOK, Array!Offer
  <2>2. OnlyCallOf(t) /\ contents' = contents
    BY <1>1, <2>1, SameContents DEF IInv, TypeOK, OnlyCallOf, locals
  <2>3. callPhase'[t] = callPhase[t] /\ callData'[t] = callData[t]
    BY <1>1, <2>1, ValuesAssumption
    DEF IInv, TypeOK, callPhase, callData, Pushing, MetPop, MetPush, locals
  <2> QED
    BY <2>2, <2>3, Unseen
<1>3. CASE top = expected_top[t]
  <2>1. pc' = [pc EXCEPT ![t] = "return"] /\ chain' = <<new_node[t]>> \o chain
    BY <1>3 DEF PushSwing, Goto
  <2>2. new_node[t] \in Nodes /\ new_node[t] # Null /\ value[new_node[t]] = val[t]
    BY <1>1, NullAssumption DEF IInv, TypeOK, CallOK, PushPcs
  <2>3. OnlyCallOf(t)
    BY <1>1, <2>1 DEF IInv, TypeOK, OnlyCallOf, locals
  <2>4. /\ callPhase[t] = "push" /\ callPhase'[t] = "pushDone"
        /\ callData[t] = val[t] /\ callData'[t] = val[t]
    BY <1>1, <2>1, <2>2
    DEF IInv, TypeOK, callPhase, callData, Pushing, MetPop, MetPush, locals
  <2>5. contents' = <<callData[t]>> \o contents
    BY <1>1, <2>1, <2>2, <2>4, PushContents
  <2>6. MovesOn(t, "push", val[t], "pushDone", val[t])
    BY <2>3, <2>4, CallMovesOn
  <2>7. UNCHANGED callData
    BY <2>6 DEF MovesOn, callData, Pushing, MetPop, MetPush
  <2> QED
    BY <2>5, <2>6, <2>7 DEF MovesOn, Lifo!Push, Lifo!Move
<1> QED
  BY <1>2, <1>3

\* A push that met a pop took effect when they met.
LEMMA PushCollectLifo ==
  ASSUME IInv, ContentsOK, ContentsOK', NEW t \in Threads, PushCollect(t)
  PROVE  UNCHANGED Lifo!vars
<1>1. /\ pc[t] = "push_visit"
      /\ pc' = [pc EXCEPT ![t] = IF got[t] = PopToken THEN "return" ELSE "push_load"]
      /\ got' = [got EXCEPT ![t] = NoValue]
      /\ UNCHANGED <<value, chain, locals>>
  BY DEF PushCollect, Array!Collect, Goto
<1>2. OnlyCallOf(t) /\ contents' = contents
  BY <1>1, SameContents DEF IInv, TypeOK, OnlyCallOf, locals
<1>3. new_node[t] # Null
  BY <1>1, NullAssumption DEF IInv, TypeOK, CallOK, PushPcs
<1>4. callPhase'[t] = callPhase[t] /\ callData'[t] = callData[t]
  BY <1>1, <1>3, ValuesAssumption
  DEF IInv, TypeOK, callPhase, callData, Pushing, MetPop, MetPush, locals
<1> QED
  BY <1>2, <1>4, Unseen

LEMMA PopBeginLifo ==
  ASSUME IInv, ContentsOK, ContentsOK', NEW t \in Threads, PopBegin(t)
  PROVE  Lifo!BeginPop(t)
<1>1. /\ pc[t] = "idle" /\ pc' = [pc EXCEPT ![t] = "pop_load"]
      /\ UNCHANGED <<memory, locals, got>>
  BY DEF PopBegin, Goto, array
<1>2. OnlyCallOf(t) /\ contents' = contents
  BY <1>1, SameContents DEF IInv, TypeOK, OnlyCallOf, locals, memory
<1>3. callPhase[t] = "idle" /\ callPhase'[t] = "pop" /\ callData'[t] = callData[t]
  BY <1>1 DEF IInv, TypeOK, callPhase, callData, Pushing, MetPop, MetPush, locals
<1>4. MovesOn(t, "idle", callData[t], "pop", callData[t])
  BY <1>2, <1>3, CallMovesOn
<1>5. UNCHANGED callData
  BY <1>4 DEF MovesOn, callData, Pushing, MetPop, MetPush
<1> QED
  BY <1>2, <1>4, <1>5 DEF MovesOn, Lifo!BeginPop, Lifo!Move

LEMMA PopLoadLifo ==
  ASSUME IInv, ContentsOK, ContentsOK', NEW t \in Threads, PopLoad(t)
  PROVE  Lifo!PopEmpty(t) \/ UNCHANGED Lifo!vars
<1>1. /\ pc[t] = "pop_load"
      /\ pc' = [pc EXCEPT ![t] = IF top = Null THEN "empty" ELSE "pop_swing"]
      /\ UNCHANGED <<memory, new_node, val, got>>
  BY DEF PopLoad, Goto, array
<1>2. OnlyCallOf(t) /\ contents' = contents
  BY <1>1, SameContents DEF IInv, TypeOK, OnlyCallOf, memory
<1>3. callData'[t] = callData[t] /\ callPhase[t] = "pop"
  BY <1>1 DEF IInv, TypeOK, callPhase, callData, Pushing, MetPop, MetPush
<1>4. CASE top # Null
  <2>1. callPhase'[t] = "pop"
    BY <1>1, <1>4 DEF IInv, TypeOK, callPhase, Pushing, MetPop, MetPush
  <2> QED
    BY <1>2, <1>3, <2>1, Unseen
<1>5. CASE top = Null
  <2>1. callPhase'[t] = "popEmpty"
    BY <1>1, <1>5 DEF IInv, TypeOK, callPhase, Pushing, MetPop, MetPush
  <2>2. chain = <<>>
    <3>1. SUFFICES ASSUME chain # <<>> PROVE FALSE
      OBVIOUS
    <3>2. 1 \in 1 .. Len(chain) /\ top = chain[1]
      BY <3>1, EmptySeq DEF IInv, TypeOK, ChainShape
    <3> QED
      BY <1>5, <3>2, NullAssumption DEF IInv, TypeOK, ChainShape
  <2>3. contents = <<>>
    BY <2>2, EmptySeq DEF ContentsOK
  <2>4. MovesOn(t, "pop", callData[t], "popEmpty", callData[t])
    BY <1>2, <1>3, <2>1, CallMovesOn
  <2>5. UNCHANGED callData
    BY <2>4 DEF MovesOn, callData, Pushing, MetPop, MetPush
  <2> QED
    BY <1>2, <2>3, <2>4, <2>5 DEF MovesOn, Lifo!PopEmpty, Lifo!Move
<1> QED
  BY <1>4, <1>5

LEMMA PopSwingLifo ==
  ASSUME IInv, ContentsOK, ContentsOK', NEW t \in Threads, PopSwing(t)
  PROVE  Lifo!Pop(t) \/ UNCHANGED Lifo!vars
<1>1. /\ pc[t] = "pop_swing" /\ new_node[t] = Null
      /\ UNCHANGED <<next, value, heap, new_node, expected_top, got>>
  BY DEF PopSwing, array, Array!Offer, IInv, CallOK, PopPcs
<1>2. CASE top # expected_top[t]
  <2>1. /\ pc' = [pc EXCEPT ![t] = "pop_visit"] /\ UNCHANGED <<chain, val>>
        /\ got[t] = NoValue
    BY <1>1, <1>2 DEF PopSwing, Goto, IInv, VisitOK, Array!Offer
  <2>2. OnlyCallOf(t) /\ contents' = contents
    BY <1>1, <2>1, SameContents DEF IInv, TypeOK, OnlyCallOf
  <2>3. callPhase'[t] = callPhase[t] /\ callData'[t] = callData[t]
    BY <1>1, <2>1, ValuesAssumption
    DEF IInv, TypeOK, callPhase, callData, Pushing, MetPop, MetPush
  <2> QED
    BY <2>2, <2>3, Unseen
<1>3. CASE top = expected_top[t]
  <2>1. /\ pc' = [pc EXCEPT ![t] = "return"] /\ chain' = Tail(chain)
        /\ val' = [val EXCEPT ![t] = value[top]]
    BY <1>3 DEF PopSwing, Goto
  <2>2. chain # <<>> /\ top = chain[1]
    BY <1>1, <1>3, TopOfChain, NullAssumption DEF IInv, TypeOK, NoReuse
  <2>3. OnlyCallOf(t)
    BY <1>1, <2>1 DEF IInv, TypeOK, OnlyCallOf
  <2>4. callPhase[t] = "pop" /\ callPhase'[t] = "popDone" /\ callData'[t] = value[top]
    BY <1>1, <2>1
    DEF IInv, TypeOK, callPhase, callData, Pushing, MetPop, MetPush
  <2>5. contents # <<>> /\ Head(contents) = value[top] /\ contents' = Tail(contents)
    BY <1>1, <2>1, <2>2, PopContents DEF IInv, TypeOK
  <2>6. MovesOn(t, "pop", callData[t], "popDone", value[top])
    BY <2>3, <2>4, CallMovesOn
  <2> QED
    BY <2>5, <2>6 DEF MovesOn, Lifo!Pop, Lifo!Move
<1> QED
  BY <1>2, <1>3

\* A pop that met a push took effect when they met.
LEMMA PopCollectLifo ==
  ASSUME IInv, ContentsOK, ContentsOK', NEW t \in Threads, PopCollect(t)
  PROVE  UNCHANGED Lifo!vars
<1>1. /\ pc[t] = "pop_visit" /\ new_node[t] = Null
      /\ pc' = [pc EXCEPT ![t] = IF got[t] \in Values THEN "return" ELSE "pop_load"]
      /\ val' = IF got[t] \in Values THEN [val EXCEPT ![t] = got[t]] ELSE val
      /\ got' = [got EXCEPT ![t] = NoValue]
      /\ UNCHANGED <<value, chain, new_node>>
  BY DEF PopCollect, Array!Collect, Goto, IInv, CallOK, PopPcs, memory
<1>2. OnlyCallOf(t) /\ contents' = contents
  BY <1>1, SameContents DEF IInv, TypeOK, OnlyCallOf
<1>3. callPhase'[t] = callPhase[t] /\ callData'[t] = callData[t]
  BY <1>1, ValuesAssumption
  DEF IInv, TypeOK, callPhase, callData, Pushing, MetPop, MetPush
<1> QED
  BY <1>2, <1>3, Unseen

LEMMA ReturnLifo ==
  ASSUME IInv, ContentsOK, ContentsOK', NEW t \in Threads, Return(t)
  PROVE  Lifo!End(t)
<1>1. /\ pc[t] \in {"return", "empty"} /\ pc' = [pc EXCEPT ![t] = "idle"]
      /\ new_node' = [new_node EXCEPT ![t] = Null]
      /\ val' = [val EXCEPT ![t] = NoValue]
      /\ UNCHANGED <<memory, got>>
  BY DEF Return, Goto, array
<1>2. OnlyCallOf(t) /\ contents' = contents
  BY <1>1, SameContents DEF IInv, TypeOK, OnlyCallOf, memory
<1>3. /\ callPhase[t] \in {"pushDone", "popDone", "popEmpty"} /\ callPhase'[t] = "idle"
      /\ callData'[t] = NoValue
  BY <1>1 DEF IInv, TypeOK, callPhase, callData, Pushing, MetPop, MetPush
<1>4. MovesOn(t, callPhase[t], callData[t], "idle", NoValue)
  BY <1>2, <1>3, CallMovesOn
<1> QED
  BY <1>2, <1>3, <1>4 DEF MovesOn, Lifo!End, Lifo!Move

LEMMA TimeOutLifo ==
  ASSUME IInv, ContentsOK, ContentsOK', NEW t \in Threads, TimeOut(t)
  PROVE  UNCHANGED Lifo!vars
<1>1. UNCHANGED <<memory, locals, pc, got>>
  BY DEF TimeOut, Array!Miss
<1>2. contents' = contents
  BY <1>1, SameContents DEF memory
<1> QED
  BY <1>1, <1>2 DEF Lifo!vars, callPhase, callData, Pushing, MetPop, MetPush, locals

\* A push and a pop that meet take effect together; two pushes or two pops
\* get nothing that they can use.
LEMMA MeetLifo ==
  ASSUME IInv, ContentsOK, ContentsOK', NEW t \in Threads, NEW u \in Threads, Meet(t, u)
  PROVE  Lifo!PushAndPop(t, u) \/ Lifo!PushAndPop(u, t) \/ UNCHANGED Lifo!vars
<1>1. /\ t # u /\ phase[t] = "offered" /\ phase[u] = "offered"
      /\ got' = [got EXCEPT ![t] = offer[u], ![u] = offer[t]]
      /\ UNCHANGED <<memory, locals, pc>>
  BY DEF Meet, Array!Match
<1>2. contents' = contents
  BY <1>1, SameContents DEF memory
<1>3. \A w \in {t, u} :
        /\ got[w] = NoValue
        /\ pc[w] \in {"push_visit", "pop_visit"}
        /\ pc[w] = "push_visit" => offer[w] = val[w] /\ val[w] \in Values
        /\ pc[w] = "pop_visit" => offer[w] = PopToken
        /\ callData[w] = val[w]
        /\ callPhase[w] = IF pc[w] = "push_visit" THEN "push" ELSE "pop"
  <2> TAKE w \in {t, u}
  <2>1. /\ got[w] = NoValue
        /\ pc[w] \in {"push_visit", "pop_visit"}
        /\ pc[w] = "push_visit" => offer[w] = val[w] /\ val[w] \in Values
        /\ pc[w] = "pop_visit" => offer[w] = PopToken
    BY <1>1 DEF IInv, VisitOK, CallOK, PushPcs
  <2> QED
    BY <2>1, ValuesAssumption DEF callPhase, callData, Pushing, MetPop, MetPush
<1>4. got'[t] = offer[u] /\ got'[u] = offer[t] /\ \A w \in Threads \ {t, u} : got'[w] = got[w]
  BY <1>1 DEF IInv, TypeOK
<1>5. \A w \in Threads \ {t, u} : callPhase'[w] = callPhase[w] /\ callData'[w] = callData[w]
  BY <1>1, <1>4 DEF callPhase, callData, Pushing, MetPop, MetPush, locals
<1>6. /\ callPhase = [w \in Threads |-> callPhase[w]]
      /\ callPhase' = [w \in Threads |-> callPhase'[w]]
      /\ callData = [w \in Threads |-> callData[w]]
      /\ callData' = [w \in Threads |-> callData'[w]]
  BY DEF callPhase, callData, Pushing, MetPop, MetPush
<1>7. ASSUME NEW p \in {t, u}, NEW q \in {t, u}, p # q,
             pc[p] = "push_visit", pc[q] = "pop_visit"
      PROVE  Lifo!PushAndPop(p, q)
  <2>1. got'[p] = PopToken /\ got'[q] = val[p] /\ val[p] \in Values
    BY <1>3, <1>4, <1>7
  <2>2. /\ callPhase'[p] = "pushDone" /\ callPhase'[q] = "popDone"
        /\ callData'[p] = val[p] /\ callData'[q] = val[p]
    BY <1>1, <1>7, <2>1 DEF callPhase, callData, Pushing, MetPop, MetPush, locals
  <2>3. callPhase[p] = "push" /\ callPhase[q] = "pop" /\ callData[p] = val[p]
    BY <1>3, <1>7
  <2>4. callPhase' = [callPhase EXCEPT ![p] = "pushDone", ![q] = "popDone"]
    BY <1>5, <1>6, <1>7, <2>2
  <2>5. callData' = [callData EXCEPT ![q] = callData[p]]
    BY <1>5, <1>6, <1>7, <2>2, <2>3
  <2> QED
    BY <1>2, <2>3, <2>4, <2>5 DEF Lifo!PushAndPop
<1>8. ASSUME pc[t] = pc[u]
      PROVE  UNCHANGED Lifo!vars
  <2>1. \A w \in {t, u} : callPhase'[w] = callPhase[w] /\ callData'[w] = callData[w]
    BY <1>1, <1>3, <1>4, <1>8, ValuesAssumption
    DEF callPhase, callData, Pushing, MetPop, MetPush, locals
  <2>2. callPhase' = callPhase /\ callData' = callData
    BY <1>5, <1>6, <2>1
  <2> QED
    BY <1>2, <2>2 DEF Lifo!vars
<1> QED
  BY <1>1, <1>3, <1>7, <1>8

----------------------------------------------------------------------------
(* The theorem *)

LEMMA InitLifo == Init => Lifo!Init
<1> SUFFICES ASSUME Init PROVE Lifo!Init
  OBVIOUS
<1>1. contents = <<>>
  BY InitIInv, ContentsHold, EmptySeq DEF Init, ContentsOK
<1>2. callPhase = [t \in Threads |-> "idle"] /\ callData = [t \in Threads |-> NoValue]
  BY DEF Init, callPhase, callData, MetPush
<1> QED
  BY <1>1, <1>2 DEF Lifo!Init

LEMMA NextLifo ==
  IInv /\ ContentsOK /\ ContentsOK' /\ [Next]_vars => [Lifo!Next]_(Lifo!vars)
<1> SUFFICES ASSUME IInv, ContentsOK, ContentsOK', [Next]_vars
             PROVE  [Lifo!Next]_(Lifo!vars)
  OBVIOUS
<1>1. CASE UNCHANGED vars
  BY <1>1, SameContents
  DEF vars, memory, locals, array, Lifo!vars, callPhase, callData, Pushing, MetPop, MetPush
<1>2. ASSUME NEW t \in Threads, PushBegin(t) \/ PopBegin(t) \/ Step(t)
      PROVE  \/ Lifo!BeginPush(t) \/ Lifo!Push(t) \/ Lifo!BeginPop(t) \/ Lifo!Pop(t)
             \/ Lifo!PopEmpty(t) \/ Lifo!End(t) \/ UNCHANGED Lifo!vars
  BY <1>2, PushBeginLifo, PushLoadLifo, PushSwingLifo, PushCollectLifo, PopBeginLifo,
     PopLoadLifo, PopSwingLifo, PopCollectLifo, ReturnLifo, TimeOutLifo DEF Step
<1>3. ASSUME NEW t \in Threads, NEW u \in Threads, Meet(t, u)
      PROVE  Lifo!PushAndPop(t, u) \/ Lifo!PushAndPop(u, t) \/ UNCHANGED Lifo!vars
  BY <1>3, MeetLifo
<1> QED
  BY <1>1, <1>2, <1>3 DEF Next, Lifo!Next

\* The stack is linearizable: each push and each pop takes effect at one instant
\* between its call and its return, at the top or with a partner in the array.
THEOREM ImplementsStackHolds == Spec => ImplementsStack
BY IInvHolds, ContentsHold, InitLifo, NextLifo, PTL DEF Spec, ImplementsStack, Lifo!Spec

=============================================================================
