------------------------- MODULE CombiningTree_proofs -------------------------
(***************************************************************************)
(* Proofs about CombiningTree, for any number of leaves, of threads and of *)
(* calls, one layer on the other: who is at work at which node (IInv), the *)
(* length of a path, what is carried up (Sums), where every number is      *)
(* (Places), who carries which call (Groups), and in what order the        *)
(* results come (Floors).                                                  *)
(***************************************************************************)
EXTENDS CombiningTree, TLAPS, SequenceTheorems, FiniteSetTheorems,
        NaturalsInduction, WellFoundedInduction

----------------------------------------------------------------------------
(* The shape of the tree *)

LEMMA TreeShape ==
  /\ Nodes \subseteq Nat /\ Root \in Nodes
  /\ \A n \in Nodes \ {Root} :
       /\ Parent(n) \in Nodes /\ Parent(n) < n
       /\ n = 2 * Parent(n) + 1 \/ n = 2 * Parent(n) + 2
  /\ \A t \in Threads : Leaf(t) \in Nodes
  /\ \A t, u \in Threads : Leaf(t) = Leaf(u) => t = u
<1> USE NumThreadsAssumption, ThreadsAssumption
<1>1. Nodes \subseteq Nat /\ Root \in Nodes
  BY DEF Nodes, Root
<1>2. ASSUME NEW n \in Nodes \ {Root}
      PROVE  /\ Parent(n) \in Nodes /\ Parent(n) < n
             /\ n = 2 * Parent(n) + 1 \/ n = 2 * Parent(n) + 2
  <2>1. n \in Nat /\ n >= 1 /\ n <= 2 * NUM_THREADS - 2
    BY DEF Nodes, Root
  <2>2. Parent(n) \in Int /\ (n - 1 = 2 * Parent(n) \/ n - 1 = 2 * Parent(n) + 1)
    BY <2>1 DEF Parent
  <2> QED BY <2>1, <2>2 DEF Nodes
<1>3. \A t \in Threads : Leaf(t) \in Nodes
  BY DEF Leaf, Nodes
<1>4. \A t, u \in Threads : Leaf(t) = Leaf(u) => t = u
  BY DEF Leaf
<1> QED BY <1>1, <1>2, <1>3, <1>4

\* A leaf has no children.
LEMMA LeafHasNoChild ==
  ASSUME NEW t \in Threads, NEW n \in Nodes \ {Root}
  PROVE  Parent(n) # Leaf(t)
<1>1. 2 * Parent(n) + 1 <= 2 * NUM_THREADS - 2 /\ Parent(n) \in Nat
  <2>1. Parent(n) \in Nodes /\ (n = 2 * Parent(n) + 1 \/ n = 2 * Parent(n) + 2)
    BY TreeShape
  <2>2. n \in 0 .. 2 * NUM_THREADS - 2 /\ Parent(n) \in 0 .. 2 * NUM_THREADS - 2
    BY <2>1 DEF Nodes
  <2> HIDE DEF Parent
  <2> QED BY <2>1, <2>2, NumThreadsAssumption
<1>2. Leaf(t) >= NUM_THREADS - 1 /\ Leaf(t) \in Nat
  BY TreeShape, NumThreadsAssumption, ThreadsAssumption DEF Leaf
<1> QED BY <1>1, <1>2, NumThreadsAssumption

----------------------------------------------------------------------------
(* Paths *)

Elems(s) == {s[i] : i \in 1 .. Len(s)}

\* The node above the path p of thread t.
End(p, t) == IF p = <<>> THEN Leaf(t) ELSE Parent(p[Len(p)])

\* p leads up from the leaf of t.
Chain(p, t) ==
  /\ p \in Seq(Nodes \ {Root})
  /\ p # <<>> => p[1] = Leaf(t)
  /\ \A i \in 1 .. Len(p) - 1 : p[i + 1] = Parent(p[i])
  /\ \A i, j \in 1 .. Len(p) : i < j => p[j] < p[i]

LEMMA Prefix ==
  ASSUME NEW S, NEW p \in Seq(S), NEW n \in Nat, n <= Len(p)
  PROVE  /\ SubSeq(p, 1, n) \in Seq(S) /\ Len(SubSeq(p, 1, n)) = n
         /\ \A i \in 1 .. n : SubSeq(p, 1, n)[i] = p[i]
OBVIOUS

LEMMA PrefixAppend ==
  ASSUME NEW S, NEW p \in Seq(S), NEW k \in Nat, k + 1 \in 1 .. Len(p)
  PROVE  Append(SubSeq(p, 1, k), p[k + 1]) = SubSeq(p, 1, k + 1)
<1>1. 1 \in 1 .. Len(p) /\ Len(p) \in Nat /\ k + 1 <= Len(p) /\ k <= Len(p)
      /\ k + 1 \in Nat /\ p[k + 1] \in S
  OBVIOUS
<1>2. /\ SubSeq(p, 1, k) \in Seq(S) /\ Len(SubSeq(p, 1, k)) = k
      /\ \A i \in 1 .. k : SubSeq(p, 1, k)[i] = p[i]
  BY <1>1, Prefix
<1>3. /\ SubSeq(p, 1, k + 1) \in Seq(S) /\ Len(SubSeq(p, 1, k + 1)) = k + 1
      /\ \A i \in 1 .. k + 1 : SubSeq(p, 1, k + 1)[i] = p[i]
  BY <1>1, Prefix
<1> DEFINE q == SubSeq(p, 1, k)
           r == SubSeq(p, 1, k + 1)
           e == p[k + 1]
<1> HIDE DEF q, r
<1>4. /\ Append(q, e) \in Seq(S) /\ Len(Append(q, e)) = k + 1
      /\ Append(q, e)[k + 1] = e /\ \A i \in 1 .. k : Append(q, e)[i] = p[i]
  BY <1>1, <1>2, AppendProperties DEF q
<1>5. r \in Seq(S) /\ Len(r) = k + 1 /\ \A i \in 1 .. k + 1 : r[i] = p[i]
  BY <1>3 DEF r
<1>6. \A i \in 1 .. k + 1 : Append(q, e)[i] = r[i]
  <2> TAKE i \in 1 .. k + 1
  <2>1. i \in 1 .. k \/ i = k + 1
    OBVIOUS
  <2> QED BY <1>4, <1>5, <2>1
<1>7. Append(q, e) = r
  BY <1>4, <1>5, <1>6, SeqEqual
<1> QED BY <1>7 DEF q, r

LEMMA ChainFacts ==
  ASSUME NEW t \in Threads, NEW p, Chain(p, t)
  PROVE  /\ End(p, t) \in Nodes
         /\ \A n \in Elems(p) : n \in Nodes \ {Root} /\ End(p, t) < n
         /\ End(p, t) = Leaf(t) <=> p = <<>>
         /\ \A n \in Elems(p) :
              n = Leaf(t) \/ \E c \in Elems(p) : Parent(c) = n
<1>1. p \in Seq(Nodes \ {Root}) /\ Len(p) \in Nat
  BY DEF Chain
<1>2. CASE p = <<>>
  BY <1>2, TreeShape DEF End, Elems
<1>3. CASE p # <<>>
  <2>1. Len(p) \in 1 .. Len(p) /\ p[Len(p)] \in Nodes \ {Root} /\ 1 \in 1 .. Len(p)
    BY <1>1, <1>3, EmptySeq
  <2>2. End(p, t) \in Nodes /\ End(p, t) < p[Len(p)]
    BY <1>3, <2>1, TreeShape DEF End
  <2>3. ASSUME NEW i \in 1 .. Len(p)
        PROVE  p[i] \in Nodes \ {Root} /\ p[Len(p)] <= p[i]
    <3>1. p[i] \in Nodes \ {Root} /\ p[i] \in Nat
      <4>1. p[i] \in Nodes \ {Root}
        BY <1>1
      <4> QED BY <4>1, TreeShape
    <3>2. i < Len(p) => p[Len(p)] < p[i]
      BY <2>1, Zenon DEF Chain
    <3>3. i = Len(p) \/ i < Len(p)
      BY <1>1
    <3>4. p[Len(p)] \in Nat
      BY <2>1, TreeShape
    <3>5. \A x, y \in Nat : x < y \/ x = y => x <= y
      OBVIOUS
    <3> QED BY <3>1, <3>2, <3>3, <3>4, <3>5
  <2>4. ASSUME NEW i \in 1 .. Len(p) PROVE End(p, t) < p[i]
    <3>1. p[i] \in Nat /\ p[Len(p)] \in Nat /\ End(p, t) \in Nat
      BY <2>1, <2>2, <2>3, TreeShape
    <3> QED BY <2>2, <2>3, <3>1
  <2>5. ASSUME NEW i \in 1 .. Len(p), p[i] # Leaf(t)
        PROVE  \E c \in Elems(p) : Parent(c) = p[i]
    <3>1. i # 1
      BY <1>3, <2>5 DEF Chain
    <3>2. i - 1 \in 1 .. Len(p) - 1 /\ i - 1 \in 1 .. Len(p) /\ (i - 1) + 1 = i
      BY <1>1, <3>1
    <3>3. p[i] = Parent(p[i - 1])
      BY <3>2 DEF Chain
    <3> QED BY <3>2, <3>3 DEF Elems
  <2>6. End(p, t) # Leaf(t)
    BY <1>3, <2>1, LeafHasNoChild DEF End
  <2> QED BY <1>3, <2>2, <2>3, <2>4, <2>5, <2>6 DEF Elems
<1> QED BY <1>2, <1>3

LEMMA ChainUp ==
  ASSUME NEW t \in Threads, NEW p, Chain(p, t), End(p, t) # Root
  PROVE  /\ Chain(Append(p, End(p, t)), t)
         /\ End(Append(p, End(p, t)), t) = Parent(End(p, t))
         /\ Elems(Append(p, End(p, t))) = Elems(p) \cup {End(p, t)}
<1> DEFINE n == End(p, t)
           q == Append(p, n)
<1>1. p \in Seq(Nodes \ {Root}) /\ Len(p) \in Nat /\ n \in Nodes \ {Root}
  BY ChainFacts DEF Chain
<1>2. \A i \in 1 .. Len(p) : n < p[i]
  BY ChainFacts DEF Elems
<1>3. p # <<>> => n = Parent(p[Len(p)])
  BY DEF End
<1>4. p = <<>> => n = Leaf(t)
  BY DEF End
<1> HIDE DEF n
<1>5. /\ q \in Seq(Nodes \ {Root}) /\ Len(q) = Len(p) + 1 /\ q[Len(p) + 1] = n
      /\ \A i \in 1 .. Len(p) : q[i] = p[i]
  BY <1>1, AppendProperties
<1>6. p = <<>> => Len(p) = 0
  OBVIOUS
<1> HIDE DEF q
<1>7. q # <<>> /\ q[1] = Leaf(t)
  <2>1. p # <<>> => Len(p) >= 1
    BY <1>1, EmptySeq
  <2> QED BY <1>1, <1>4, <1>5, <1>6, <2>1 DEF Chain
<1>8. ASSUME NEW i \in 1 .. Len(q) - 1 PROVE q[i + 1] = Parent(q[i])
  <2>1. CASE i = Len(p)
    <3>1. p # <<>>
      BY <1>6, <2>1
    <3> QED BY <1>1, <1>3, <1>5, <2>1, <3>1
  <2>2. CASE i # Len(p)
    <3>1. i \in 1 .. Len(p) - 1 /\ i \in 1 .. Len(p) /\ i + 1 \in 1 .. Len(p)
      BY <1>1, <1>5, <2>2
    <3> QED BY <1>5, <3>1 DEF Chain
  <2> QED BY <2>1, <2>2
<1>9. ASSUME NEW i \in 1 .. Len(q), NEW j \in 1 .. Len(q), i < j PROVE q[j] < q[i]
  <2>1. i \in 1 .. Len(p)
    BY <1>1, <1>5, <1>9
  <2>2. j \in 1 .. Len(p) \/ j = Len(p) + 1
    BY <1>1, <1>5
  <2> QED BY <1>2, <1>5, <1>9, <2>1, <2>2 DEF Chain
<1>10. Chain(q, t)
  BY <1>5, <1>7, <1>8, <1>9 DEF Chain
<1>11. End(q, t) = Parent(n)
  BY <1>5, <1>7 DEF End
<1>12. Elems(q) = Elems(p) \cup {n}
  <2>1. 1 .. Len(q) = (1 .. Len(p)) \cup {Len(p) + 1}
    BY <1>1, <1>5
  <2> QED BY <1>5, <2>1 DEF Elems
<1> QED BY <1>10, <1>11, <1>12 DEF q, n

LEMMA ChainDown ==
  ASSUME NEW t \in Threads, NEW p, Chain(p, t), p # <<>>
  PROVE  LET q == SubSeq(p, 1, Len(p) - 1) IN
         /\ Chain(q, t) /\ End(q, t) = p[Len(p)]
         /\ Elems(p) = Elems(q) \cup {p[Len(p)]} /\ p[Len(p)] \notin Elems(q)
         /\ p[Len(p)] \in Nodes \ {Root}
         /\ q # <<>> => q[Len(q)] \in Nodes
<1> DEFINE q == SubSeq(p, 1, Len(p) - 1)
<1>1. p \in Seq(Nodes \ {Root}) /\ Len(p) \in Nat \ {0}
  BY EmptySeq DEF Chain
<1>2. /\ q \in Seq(Nodes \ {Root}) /\ Len(q) = Len(p) - 1
      /\ \A i \in 1 .. Len(p) - 1 : q[i] = p[i]
  <2>1. Len(p) - 1 \in Nat /\ Len(p) - 1 <= Len(p)
    BY <1>1
  <2> QED BY <1>1, <2>1, Prefix
<1>3. Len(p) \in 1 .. Len(p) /\ p[Len(p)] \in Nodes \ {Root}
  BY <1>1
<1> HIDE DEF q
<1>4. q # <<>> => Len(q) \in 1 .. Len(q) /\ 1 \in 1 .. Len(q)
  BY <1>1, <1>2, EmptySeq
<1>5. Chain(q, t)
  <2>1. q # <<>> => q[1] = Leaf(t)
    BY <1>1, <1>2, <1>4 DEF Chain
  <2>2. \A i \in 1 .. Len(q) - 1 : q[i + 1] = Parent(q[i])
    <3> TAKE i \in 1 .. Len(q) - 1
    <3>1. i \in 1 .. Len(p) - 1 /\ i + 1 \in 1 .. Len(p) - 1
      BY <1>1, <1>2
    <3> QED BY <1>2, <3>1 DEF Chain
  <2>3. \A i, j \in 1 .. Len(q) : i < j => q[j] < q[i]
    <3> TAKE i, j \in 1 .. Len(q)
    <3>1. i \in 1 .. Len(p) - 1 /\ j \in 1 .. Len(p) - 1 /\ i \in 1 .. Len(p) /\ j \in 1 .. Len(p)
      BY <1>1, <1>2
    <3> QED BY <1>2, <3>1 DEF Chain
  <2> QED BY <1>2, <2>1, <2>2, <2>3 DEF Chain
<1>6. End(q, t) = p[Len(p)]
  <2>1. CASE q = <<>>
    <3>1. Len(p) = 1
      BY <1>1, <1>2, <2>1
    <3> QED BY <2>1, <3>1 DEF End, Chain
  <2>2. CASE q # <<>>
    <3>1. Len(q) \in 1 .. Len(p) - 1 /\ Len(q) + 1 = Len(p)
      BY <1>1, <1>2, <1>4, <2>2
    <3> QED BY <1>2, <2>2, <3>1 DEF End, Chain
  <2> QED BY <2>1, <2>2
<1>7. Elems(p) = Elems(q) \cup {p[Len(p)]}
  <2>1. 1 .. Len(p) = (1 .. Len(p) - 1) \cup {Len(p)}
    BY <1>1
  <2> QED BY <1>2, <2>1 DEF Elems
<1>8. p[Len(p)] \notin Elems(q)
  <2>1. ASSUME NEW i \in 1 .. Len(p) - 1 PROVE p[i] # p[Len(p)]
    <3>1. i \in 1 .. Len(p) /\ i < Len(p)
      BY <1>1
    <3>2. p[Len(p)] < p[i]
      BY <1>3, <3>1, Zenon DEF Chain
    <3>3. p[i] \in Nodes \ {Root}
      BY <1>1, <3>1
    <3>4. p[i] \in Nat
      BY <3>3, TreeShape
    <3> QED BY <3>2, <3>4
  <2> QED BY <1>2, <2>1 DEF Elems
<1>9. q # <<>> => q[Len(q)] \in Nodes
  BY <1>2, <1>4
<1> QED BY <1>3, <1>5, <1>6, <1>7, <1>8, <1>9 DEF q

----------------------------------------------------------------------------
(* The protocol of the tree *)

ClimbPcs == {"precombine", "precombine_wait"}
CombinePcs == {"combine", "combine_wait"}
CarryPcs == CombinePcs \cup {"op"}
WaitPcs == {"op_wait", "op_result"}
ResultPcs == {"distribute", "return"}

TypeOK ==
  /\ state \in [Nodes -> {"IDLE", "FIRST", "SECOND", "RESULT", "ROOT"}]
  /\ is_locked \in [Nodes -> BOOLEAN]
  /\ first \in [Nodes -> Nat] /\ second \in [Nodes -> Nat] /\ result \in [Nodes -> Nat]
  /\ pc \in [Threads -> {"idle"} \cup ClimbPcs \cup CarryPcs \cup WaitPcs \cup ResultPcs]
  /\ node \in [Threads -> Nodes] /\ stop \in [Threads -> Nodes]
  /\ combined \in [Threads -> Nat]
  /\ stack \in [Threads -> Seq(Nodes)]
  /\ before \in [Threads -> Nat \cup {-1}]
  /\ \A t \in Threads : pc[t] \in ResultPcs => before[t] \in Nat
  /\ started \in Nat /\ returned \subseteq Nat

\* Where t is on its path p: the nodes where it came first.
PathOK(p, t) ==
  /\ Chain(p, t)
  /\ pc[t] \in {"idle", "return"} => p = <<>> /\ stack[t] = <<>>
  /\ pc[t] \in ClimbPcs => stack[t] = <<>> /\ node[t] = End(p, t)
  /\ pc[t] \in CarryPcs \cup WaitPcs => stop[t] = End(p, t)
  /\ pc[t] \in CombinePcs => /\ Len(stack[t]) < Len(p)
                             /\ stack[t] = SubSeq(p, 1, Len(stack[t]))
                             /\ node[t] = p[Len(stack[t]) + 1]
  /\ pc[t] \in {"op"} \cup WaitPcs => stack[t] = p /\ node[t] = stop[t]
  /\ pc[t] = "distribute" => stack[t] = p /\ p # <<>> /\ node[t] = p[Len(p)]

\* t came second to n, and has not left its amount there yet.
Second(t, n) == pc[t] \in CarryPcs \cup WaitPcs /\ stop[t] = n
Carrying(t, n) == pc[t] \in CarryPcs /\ stop[t] = n

\* The first thread has combined at n and not distributed there yet.
Combined(n) == \E t \in Threads : n \in Elems(stack[t])

NodeOK(path, n) ==
  /\ state[n] # "ROOT"
  /\ state[n] \in {"FIRST", "SECOND"} <=> \E t \in Threads : n \in Elems(path[t])
  /\ state[n] \in {"SECOND", "RESULT"} <=> \E t \in Threads : Second(t, n)
  /\ is_locked[n] <=> \/ state[n] = "RESULT"
                      \/ Combined(n)
                      \/ \E t \in Threads : Carrying(t, n)
  /\ (\E t \in Threads : Carrying(t, n)) => state[n] = "SECOND" /\ ~Combined(n)
  /\ \A t, u \in Threads : Second(t, n) /\ Second(u, n) => t = u

Tree(path) ==
  /\ path \in [Threads -> Seq(Nodes)]
  /\ \A t \in Threads : PathOK(path[t], t)
  /\ \A t, u \in Threads : t # u => Elems(path[t]) \cap Elems(path[u]) = {}
  /\ state[Root] = "ROOT" /\ ~is_locked[Root]
  /\ \A n \in Nodes \ {Root} : NodeOK(path, n)

IInv == TypeOK /\ \E path : Tree(path)

LEMMA InitIInv == Init => IInv
<1> SUFFICES ASSUME Init PROVE IInv
  OBVIOUS
<1> DEFINE path == [t \in Threads |-> <<>>]
<1>1. <<>> \in Seq(Nodes) /\ <<>> \in Seq(Nodes \ {Root}) /\ Elems(<<>>) = {}
  BY EmptySeq DEF Elems
<1>2. TypeOK
  BY <1>1, TreeShape DEF Init, TypeOK, State, ResultPcs
<1>3. \A t \in Threads : PathOK(<<>>, t)
  BY <1>1, EmptySeq DEF Init, PathOK, Chain, ClimbPcs, CarryPcs, CombinePcs, WaitPcs
<1>4. \A n \in Nodes \ {Root} : NodeOK(path, n)
  BY <1>1 DEF Init, NodeOK, Combined, Carrying, Second, State, CarryPcs, CombinePcs, WaitPcs
<1>5. state[Root] = "ROOT" /\ ~is_locked[Root]
  BY TreeShape DEF Init, State
<1>6. Tree(path)
  BY <1>1, <1>3, <1>4, <1>5 DEF Tree
<1> QED BY <1>2, <1>6 DEF IInv

\* A thread is woken up, or goes back to its wait.
SameKind(u) == \/ pc'[u] = pc[u]
               \/ pc[u] \in ClimbPcs /\ pc'[u] \in ClimbPcs
               \/ pc[u] \in CombinePcs /\ pc'[u] \in CombinePcs
               \/ pc[u] \in WaitPcs /\ pc'[u] \in WaitPcs

\* Nobody but t moves.
Aside(t) == \A u \in Threads \ {t} :
              /\ SameKind(u) /\ node'[u] = node[u] /\ stop'[u] = stop[u]
              /\ stack'[u] = stack[u] /\ combined'[u] = combined[u]
              /\ before'[u] = before[u]

LEMMA Notified ==
  ASSUME TypeOK, NEW t \in Threads, NEW to, NotifyAndGoto(t, to)
  PROVE  pc'[t] = to /\ \A u \in Threads \ {t} : SameKind(u)
BY DEF TypeOK, NotifyAndGoto, SameKind, Awake, Waiting, ClimbPcs, CombinePcs, WaitPcs

LEMMA Moved ==
  ASSUME TypeOK, NEW t \in Threads, NEW from, NEW to, Goto(t, from, to)
  PROVE  pc[t] = from /\ pc'[t] = to /\ \A u \in Threads \ {t} : pc'[u] = pc[u] /\ SameKind(u)
BY DEF TypeOK, Goto, SameKind

LEMMA PathKept ==
  ASSUME NEW u \in Threads, NEW p, PathOK(p, u), SameKind(u),
         node'[u] = node[u], stop'[u] = stop[u], stack'[u] = stack[u]
  PROVE  PathOK(p, u)'
BY DEF PathOK, SameKind, ClimbPcs, CarryPcs, CombinePcs, WaitPcs

\* The stack of a thread is the part of its path where it has combined.
LEMMA StackOnPath ==
  ASSUME NEW t \in Threads, NEW p, PathOK(p, t), TypeOK
  PROVE  Elems(stack[t]) \subseteq Elems(p)
<1>1. CASE pc[t] \in CombinePcs
  <2>1. Chain(p, t) /\ Len(stack[t]) < Len(p) /\ Len(stack[t]) \in Nat
        /\ stack[t] = SubSeq(p, 1, Len(stack[t]))
    BY <1>1 DEF PathOK, TypeOK
  <2>2. \A i \in 1 .. Len(stack[t]) : stack[t][i] = p[i] /\ i \in 1 .. Len(p)
    <3>1. p \in Seq(Nodes \ {Root}) /\ Len(stack[t]) <= Len(p) /\ Len(p) \in Nat
      BY <2>1 DEF Chain
    <3>2. \A i \in 1 .. Len(stack[t]) : stack[t][i] = p[i]
      BY <2>1, <3>1, Prefix
    <3>3. \A i \in 1 .. Len(stack[t]) : i \in 1 .. Len(p)
      BY <2>1, <3>1
    <3> QED BY <3>2, <3>3
  <2> QED BY <2>2 DEF Elems
<1>2. CASE stack[t] = <<>>
  BY <1>2 DEF Elems
<1>3. CASE stack[t] = p
  BY <1>3
<1> QED
  BY <1>1, <1>2, <1>3 DEF PathOK, TypeOK, ClimbPcs, CarryPcs, WaitPcs, ResultPcs

\* A node that a step leaves alone.
LEMMA NodeKept ==
  ASSUME NEW path, Tree(path), NEW t \in Threads, NEW p, Aside(t),
         NEW n \in Nodes \ {Root}, state'[n] = state[n], is_locked'[n] = is_locked[n],
         n \in Elems(p) <=> n \in Elems(path[t]),
         n \in Elems(stack'[t]) <=> n \in Elems(stack[t]),
         Second(t, n)' <=> Second(t, n), Carrying(t, n)' <=> Carrying(t, n)
  PROVE  NodeOK([path EXCEPT ![t] = p], n)'
<1> DEFINE path2 == [path EXCEPT ![t] = p]
<1>1. NodeOK(path, n) /\ path2 \in [Threads -> {path2[u] : u \in Threads}]
  BY DEF Tree
<1>2. \A u \in Threads : n \in Elems(path2[u]) <=> n \in Elems(path[u])
  BY DEF Tree
<1>3. \A u \in Threads : /\ n \in Elems(stack'[u]) <=> n \in Elems(stack[u])
                         /\ Second(u, n)' <=> Second(u, n)
                         /\ Carrying(u, n)' <=> Carrying(u, n)
  <2> SUFFICES ASSUME NEW u \in Threads \ {t}
               PROVE  /\ stack'[u] = stack[u]
                      /\ Second(u, n)' <=> Second(u, n)
                      /\ Carrying(u, n)' <=> Carrying(u, n)
    OBVIOUS
  <2> QED BY DEF Aside, SameKind, Second, Carrying, ClimbPcs, CarryPcs, CombinePcs, WaitPcs
<1>4. Combined(n)' <=> Combined(n)
  BY <1>3 DEF Combined
<1> HIDE DEF path2
<1> QED BY <1>1, <1>2, <1>3, <1>4 DEF NodeOK

\* A step of t, at node m.
LEMMA TreeStep ==
  ASSUME NEW path, Tree(path), NEW t \in Threads, NEW p, Aside(t),
         p \in Seq(Nodes), PathOK(p, t)',
         \A u \in Threads \ {t} : Elems(p) \cap Elems(path[u]) = {},
         NEW m \in Nodes,
         \A n \in Nodes \ {m} : state'[n] = state[n] /\ is_locked'[n] = is_locked[n],
         \A n \in Nodes \ {Root, m} :
           /\ n \in Elems(p) <=> n \in Elems(path[t])
           /\ n \in Elems(stack'[t]) <=> n \in Elems(stack[t])
           /\ Second(t, n)' <=> Second(t, n)
           /\ Carrying(t, n)' <=> Carrying(t, n),
         IF m = Root THEN state'[m] = state[m] /\ is_locked'[m] = is_locked[m]
                     ELSE NodeOK([path EXCEPT ![t] = p], m)'
  PROVE  Tree([path EXCEPT ![t] = p])'
<1> DEFINE path2 == [path EXCEPT ![t] = p]
<1>1. path2 \in [Threads -> Seq(Nodes)] /\ path2[t] = p
      /\ \A u \in Threads \ {t} : path2[u] = path[u]
  BY DEF Tree
<1>2. \A n \in Nodes \ {Root, m} : NodeOK(path2, n)'
  BY NodeKept
<1>3. \A u \in Threads \ {t} : PathOK(path[u], u)'
  BY PathKept DEF Tree, Aside
<1>4. \A u, v \in Threads : u # v => Elems(path2[u]) \cap Elems(path2[v]) = {}
  <2>1. \A u, v \in Threads \ {t} : u # v => Elems(path2[u]) \cap Elems(path2[v]) = {}
    BY <1>1 DEF Tree
  <2>2. \A u \in Threads \ {t} : Elems(path2[t]) \cap Elems(path2[u]) = {}
    BY <1>1
  <2> HIDE DEF path2
  <2> QED BY <2>1, <2>2
<1>5. state'[Root] = "ROOT" /\ ~is_locked'[Root]
  <2>1. state'[Root] = state[Root] /\ is_locked'[Root] = is_locked[Root]
    BY TreeShape
  <2> QED BY <2>1 DEF Tree
<1>6. \A n \in Nodes \ {Root} : NodeOK(path2, n)'
  BY <1>2
<1>7. \A u \in Threads : PathOK(path2[u], u)'
  BY <1>1, <1>3
<1> HIDE DEF path2
<1>8. Tree(path2)'
  BY <1>1, <1>4, <1>5, <1>6, <1>7 DEF Tree
<1> QED BY <1>8 DEF path2

\* Steps of one thread to the same place or another of its kind.
LEMMA KindStep ==
  ASSUME IInv, NEW t \in Threads, SameKind(t), UNCHANGED <<fields, locals, history>>,
         \A u \in Threads \ {t} : pc'[u] = pc[u], pc' \in [Threads -> {pc'[u] : u \in Threads}]
  PROVE  IInv'
<1>1. PICK path : Tree(path)
  BY DEF IInv
<1>2. UNCHANGED <<state, is_locked, first, second, result, node, stop, combined, stack,
                  before, started, returned>>
  BY DEF fields, locals, history
<1>3. \A u \in Threads : SameKind(u)
  BY DEF SameKind
<1>4. TypeOK'
  BY <1>2, <1>3
  DEF IInv, TypeOK, SameKind, ClimbPcs, CarryPcs, CombinePcs, WaitPcs, ResultPcs
<1>5. Tree(path)'
  <2>1. \A u \in Threads : PathOK(path[u], u)'
    BY <1>1, <1>2, <1>3, PathKept DEF Tree
  <2>2. ASSUME NEW n \in Nodes \ {Root} PROVE NodeOK(path, n)'
    <3>1. \A u \in Threads : /\ Second(u, n)' <=> Second(u, n)
                             /\ Carrying(u, n)' <=> Carrying(u, n)
      BY <1>2, <1>3 DEF SameKind, Second, Carrying, ClimbPcs, CarryPcs, CombinePcs, WaitPcs
    <3>2. Combined(n)' <=> Combined(n)
      BY <1>2 DEF Combined
    <3> QED BY <1>1, <1>2, <3>1, <3>2 DEF Tree, NodeOK
  <2> QED BY <1>1, <1>2, <2>1, <2>2 DEF Tree
<1> QED BY <1>4, <1>5 DEF IInv

LEMMA WaitSteps ==
  ASSUME IInv, NEW t \in Threads,
         PrecombineWait(t) \/ CombineWait(t) \/ OpWait(t) \/ SpuriousWakeup(t)
  PROVE  /\ SameKind(t) /\ UNCHANGED <<fields, locals, history>>
         /\ \A u \in Threads \ {t} : pc'[u] = pc[u]
         /\ pc' \in [Threads -> {pc'[u] : u \in Threads}]
<1>1. \E to : pc' = [pc EXCEPT ![t] = to]
  BY DEF PrecombineWait, CombineWait, OpWait, SpuriousWakeup, Goto
<1>2. SameKind(t)
  BY DEF IInv, TypeOK, PrecombineWait, CombineWait, OpWait, SpuriousWakeup, Goto, SameKind,
         Awake, Waiting, ClimbPcs, CombinePcs, WaitPcs
<1>3. UNCHANGED <<fields, locals, history>>
  BY DEF PrecombineWait, CombineWait, OpWait, SpuriousWakeup
<1>4. /\ \A u \in Threads \ {t} : pc'[u] = pc[u]
      /\ pc' \in [Threads -> {pc'[u] : u \in Threads}]
  BY <1>1 DEF IInv, TypeOK
<1> QED BY <1>2, <1>3, <1>4

LEMMA CallStep ==
  ASSUME IInv, NEW t \in Threads, Call(t)
  PROVE  IInv'
<1>1. PICK path : Tree(path)
  BY DEF IInv
<1>2. /\ pc[t] = "idle" /\ pc'[t] = "precombine" /\ node'[t] = Leaf(t)
      /\ \A u \in Threads \ {t} : SameKind(u) /\ node'[u] = node[u]
      /\ UNCHANGED <<state, is_locked, stop, combined, stack, before>>
  BY Moved DEF IInv, TypeOK, Call, fields
<1>3. TypeOK'
  BY TreeShape DEF IInv, TypeOK, Call, Goto, fields, ClimbPcs, ResultPcs
<1>4. Aside(t)
  BY <1>2 DEF Aside
<1>5. path[t] = <<>> /\ stack[t] = <<>> /\ PathOK(path[t], t)
  BY <1>1, <1>2 DEF Tree, PathOK
<1>6. PathOK(path[t], t)'
  BY <1>2, <1>5 DEF PathOK, End, ClimbPcs, CarryPcs, CombinePcs, WaitPcs
<1>7. \A n \in Nodes \ {Root} : ~Second(t, n)' /\ ~Second(t, n) /\ ~Carrying(t, n)' /\ ~Carrying(t, n)
  BY <1>2 DEF Second, Carrying, ClimbPcs, CarryPcs, CombinePcs, WaitPcs
<1>8. Tree([path EXCEPT ![t] = path[t]])'
  BY <1>1, <1>2, <1>4, <1>6, <1>7, TreeStep, TreeShape DEF Tree
<1> QED BY <1>3, <1>8 DEF IInv

\* A third thread does not come to a node in use: it would come up a branch of
\* its own, and there are only two.
LEMMA NoThirdThread ==
  ASSUME NEW path, Tree(path), NEW t \in Threads, pc[t] = "precombine",
         ~is_locked[node[t]], TypeOK
  PROVE  state[node[t]] \in {"IDLE", "FIRST", "ROOT"}
<1> DEFINE n == node[t]
<1> SUFFICES ASSUME n # Root, state[n] \in {"SECOND", "RESULT"} PROVE FALSE
  BY DEF TypeOK, Tree
<1>1. n \in Nodes \ {Root} /\ NodeOK(path, n) /\ state[n] = "SECOND"
  BY DEF TypeOK, Tree, NodeOK
<1>2. PICK f \in Threads : n \in Elems(path[f])
  BY <1>1 DEF NodeOK
<1>3. PICK s \in Threads : Second(s, n)
  BY <1>1 DEF NodeOK
<1>4. /\ PathOK(path[t], t) /\ PathOK(path[f], f) /\ PathOK(path[s], s)
      /\ Chain(path[t], t) /\ Chain(path[f], f) /\ Chain(path[s], s)
      /\ n = End(path[t], t) /\ n = End(path[s], s)
  BY <1>3 DEF Tree, PathOK, Second, ClimbPcs
<1> HIDE DEF n
<1>5. n \notin Elems(path[t]) /\ n \notin Elems(path[s])
  <2>1. \A c \in Elems(path[t]) : End(path[t], t) < c
    BY <1>4, ChainFacts
  <2>2. \A c \in Elems(path[s]) : End(path[s], s) < c
    BY <1>4, ChainFacts
  <2>3. n \in Nat /\ ~(n < n)
    BY <1>1, TreeShape
  <2> QED BY <1>4, <2>1, <2>2, <2>3
<1>6. t # f /\ s # f /\ t # s
  BY <1>2, <1>3, <1>5 DEF Second, CarryPcs, CombinePcs, WaitPcs
<1>7. path[t] # <<>> /\ n # Leaf(t)
  <2>1. n # Leaf(t)
    <3>1. ASSUME n = Leaf(t) PROVE FALSE
      <4>1. n = Leaf(f) \/ \E c \in Elems(path[f]) : Parent(c) = n
        BY <1>2, <1>4, ChainFacts
      <4>2. \A c \in Elems(path[f]) : Parent(c) # Leaf(t)
        BY <1>4, ChainFacts, LeafHasNoChild
      <4> QED BY <1>6, <3>1, <4>1, <4>2, TreeShape
    <3> QED BY <3>1
  <2> QED BY <1>4, <2>1, ChainFacts
<1>8. \A p, u : Chain(p, u) /\ p # <<>> => End(p, u) = Parent(p[Len(p)]) /\ p[Len(p)] \in Elems(p)
  <2> TAKE p, u
  <2> HAVE Chain(p, u) /\ p # <<>>
  <2>1. Len(p) \in 1 .. Len(p)
    BY EmptySeq DEF Chain
  <2> QED BY <2>1 DEF End, Elems
<1>9. PICK c1 \in Elems(path[t]) : Parent(c1) = n
  BY <1>4, <1>7, <1>8
<1>10. \A u \in Threads : n # Leaf(u)
  BY <1>4, <1>9, ChainFacts, LeafHasNoChild
<1>11. PICK c2 \in Elems(path[s]) : Parent(c2) = n
  BY <1>4, <1>8, <1>10, ChainFacts
<1>12. PICK c3 \in Elems(path[f]) : Parent(c3) = n
  BY <1>2, <1>4, <1>10, ChainFacts
<1>13. c1 # c2 /\ c1 # c3 /\ c2 # c3
  BY <1>6 DEF Tree
<1>14. c1 \in Nodes \ {Root} /\ c2 \in Nodes \ {Root} /\ c3 \in Nodes \ {Root}
  BY <1>4, ChainFacts
<1>15. \A c \in {c1, c2, c3} : c = 2 * n + 1 \/ c = 2 * n + 2
  BY <1>9, <1>11, <1>12, <1>14, TreeShape
<1> QED BY <1>13, <1>15

LEMMA PrecombineFirstStep ==
  ASSUME TypeOK, NEW path, Tree(path), NEW t \in Threads, Precombine(t),
         state[node[t]] = "IDLE"
  PROVE  \E q : Tree(q)'
<1> DEFINE p == path[t]
<1>0. PICK n \in Nodes : n = node[t]
  BY DEF TypeOK
<1> DEFINE q == Append(p, n)
<1>1. /\ pc[t] = "precombine" /\ ~is_locked[n]
      /\ state' = [state EXCEPT ![n] = "FIRST"] /\ node' = [node EXCEPT ![t] = Parent(n)]
      /\ UNCHANGED <<is_locked, stop, combined, stack, before, pc>>
  BY <1>0 DEF Precombine
<1>2. n \in Nodes \ {Root} /\ NodeOK(path, n) /\ state[n] = "IDLE"
  BY <1>0 DEF TypeOK, Tree
<1>3. Aside(t)
  BY <1>1 DEF TypeOK, Aside, SameKind
<1>4. PathOK(p, t) /\ Chain(p, t) /\ n = End(p, t) /\ stack[t] = <<>>
  BY <1>0, <1>1 DEF Tree, PathOK, ClimbPcs
<1>5. Chain(q, t) /\ Parent(n) = End(q, t) /\ Elems(q) = Elems(p) \cup {n}
  BY <1>2, <1>4, ChainUp
<1>6. node'[t] = Parent(n) /\ state'[n] = "FIRST"
      /\ \A m \in Nodes \ {n} : state'[m] = state[m]
  BY <1>1, <1>2 DEF TypeOK
<1>7. \A u \in Threads \ {t} : n \notin Elems(path[u])
  BY <1>2 DEF NodeOK
<1> HIDE DEF q
<1>8. PathOK(q, t)'
  BY <1>1, <1>4, <1>5, <1>6
  DEF PathOK, Chain, End, ClimbPcs, CarryPcs, CombinePcs, WaitPcs
<1>9. \A u \in Threads \ {t} : Elems(q) \cap Elems(path[u]) = {}
  BY <1>5, <1>7 DEF Tree
<1>10. \A m \in Nodes : /\ ~Second(t, m)' /\ ~Second(t, m)
                        /\ ~Carrying(t, m)' /\ ~Carrying(t, m)
  BY <1>1 DEF Second, Carrying, CarryPcs, CombinePcs, WaitPcs
<1>11. NodeOK([path EXCEPT ![t] = q], n)'
  <2>1. n \in Elems([path EXCEPT ![t] = q][t])
    BY <1>5 DEF Tree
  <2>2. \A u \in Threads : /\ Second(u, n)' <=> Second(u, n)
                           /\ Carrying(u, n)' <=> Carrying(u, n)
    BY <1>1 DEF Second, Carrying
  <2>3. Combined(n)' <=> Combined(n)
    BY <1>1 DEF Combined
  <2> QED BY <1>1, <1>2, <1>6, <2>1, <2>2, <2>3 DEF NodeOK
<1>12. q \in Seq(Nodes)
  BY <1>2, AppendProperties DEF q, Tree
<1>13. \A m \in Nodes \ {Root, n} :
           /\ m \in Elems(q) <=> m \in Elems(path[t])
           /\ m \in Elems(stack'[t]) <=> m \in Elems(stack[t])
           /\ Second(t, m)' <=> Second(t, m)
           /\ Carrying(t, m)' <=> Carrying(t, m)
  BY <1>1, <1>5, <1>10
<1>14. \A m \in Nodes \ {n} : state'[m] = state[m] /\ is_locked'[m] = is_locked[m]
  BY <1>1, <1>6
<1> HIDE DEF p
<1>15. Tree([path EXCEPT ![t] = q])'
  <2>1. IF n = Root THEN state'[n] = state[n] /\ is_locked'[n] = is_locked[n]
                    ELSE NodeOK([path EXCEPT ![t] = q], n)'
    BY <1>2, <1>11
  <2> HIDE DEF q
  <2> QED BY <1>3, <1>8, <1>9, <1>12, <1>13, <1>14, <2>1, TreeStep
<1> QED BY <1>15

\* What StopAtNode does for the path of t.
LEMMA Stops ==
  ASSUME TypeOK, NEW t \in Threads, NEW p, PathOK(p, t), StopAtNode(t)
  PROVE  /\ PathOK(p, t)' /\ pc[t] = "precombine" /\ pc'[t] \in {"combine", "op"}
         /\ stop'[t] = node[t] /\ Aside(t) /\ UNCHANGED stack
         /\ stack[t] = <<>> /\ node'[t] = Leaf(t) /\ combined'[t] = 1
         /\ node[t] = End(p, t)
<1>1. /\ stop' = [stop EXCEPT ![t] = node[t]] /\ node' = [node EXCEPT ![t] = Leaf(t)]
      /\ combined' = [combined EXCEPT ![t] = 1] /\ UNCHANGED <<stack, before>>
      /\ pc[t] = "precombine" /\ pc'[t] = (IF node[t] = Leaf(t) THEN "op" ELSE "combine")
      /\ \A u \in Threads \ {t} : pc'[u] = pc[u]
  BY DEF TypeOK, StopAtNode, Goto
<1>2. /\ stop'[t] = node[t] /\ node'[t] = Leaf(t) /\ Aside(t) /\ combined'[t] = 1
  BY <1>1 DEF TypeOK, Aside, SameKind
<1>3. stack[t] = <<>> /\ node[t] = End(p, t) /\ Chain(p, t) /\ stack'[t] = <<>>
  BY <1>1 DEF PathOK, ClimbPcs
<1>4. CASE p = <<>>
  <2>1. node[t] = Leaf(t) /\ pc'[t] = "op"
    BY <1>1, <1>3, <1>4, ChainFacts
  <2>2. PathOK(p, t)'
    BY <1>2, <1>3, <1>4, <2>1 DEF PathOK, Chain, End, ClimbPcs, CarryPcs, CombinePcs, WaitPcs
  <2> QED BY <1>1, <1>2, <1>3, <2>1, <2>2
<1>5. CASE p # <<>>
  <2>1. node[t] # Leaf(t) /\ pc'[t] = "combine"
    BY <1>1, <1>3, <1>5, ChainFacts
  <2>2. Len(<<>>) = 0 /\ 0 < Len(p) /\ SubSeq(p, 1, 0) = <<>> /\ p[1] = Leaf(t)
    BY <1>3, <1>5, EmptySeq, SubSeqEmpty DEF Chain
  <2>3. PathOK(p, t)'
    BY <1>2, <1>3, <1>5, <2>1, <2>2
    DEF PathOK, Chain, End, ClimbPcs, CarryPcs, CombinePcs, WaitPcs
  <2> QED BY <1>1, <1>2, <1>3, <2>1, <2>3
<1> QED BY <1>4, <1>5

LEMMA PrecombineSecondStep ==
  ASSUME TypeOK, NEW path, Tree(path), NEW t \in Threads, Precombine(t),
         state[node[t]] = "FIRST"
  PROVE  Tree([path EXCEPT ![t] = path[t]])'
<1> DEFINE p == path[t]
<1>0. PICK n \in Nodes : n = node[t]
  BY DEF TypeOK
<1>1. /\ StopAtNode(t) /\ ~is_locked[n]
      /\ state' = [state EXCEPT ![n] = "SECOND"] /\ is_locked' = [is_locked EXCEPT ![n] = TRUE]
  BY <1>0 DEF Precombine
<1>2. n \in Nodes \ {Root} /\ NodeOK(path, n) /\ state[n] = "FIRST"
  BY <1>0 DEF TypeOK, Tree
<1>3. /\ PathOK(p, t)' /\ pc[t] = "precombine" /\ pc'[t] \in {"combine", "op"}
      /\ stop'[t] = n /\ Aside(t) /\ UNCHANGED stack
  BY <1>0, <1>1, Stops DEF Tree
<1>4. /\ state'[n] = "SECOND" /\ is_locked'[n]
      /\ \A m \in Nodes \ {n} : state'[m] = state[m] /\ is_locked'[m] = is_locked[m]
  BY <1>1, <1>2 DEF TypeOK
<1>5. /\ \A m \in Nodes \ {n} : /\ ~Second(t, m)' /\ ~Second(t, m)
                                /\ ~Carrying(t, m)' /\ ~Carrying(t, m)
      /\ Second(t, n)' /\ Carrying(t, n)'
  BY <1>3 DEF Second, Carrying, CarryPcs, CombinePcs, WaitPcs
<1>6. NodeOK([path EXCEPT ![t] = p], n)'
  <2>1. [path EXCEPT ![t] = p] = path
    BY DEF Tree
  <2>2. \A u \in Threads \ {t} : ~Second(u, n) /\ ~Second(u, n)'
    <3>1. \A u \in Threads : ~Second(u, n)
      BY <1>2 DEF NodeOK
    <3> QED BY <1>3, <3>1
        DEF Second, Aside, SameKind, ClimbPcs, CarryPcs, CombinePcs, WaitPcs
  <2>3. ~Combined(n)'
    BY <1>1, <1>2, <1>3 DEF Combined, NodeOK
  <2>4. \E u \in Threads : n \in Elems(path[u])
    BY <1>2 DEF NodeOK
  <2> HIDE DEF p
  <2> QED BY <1>4, <1>5, <2>1, <2>2, <2>3, <2>4 DEF NodeOK
<1>7. \A u \in Threads \ {t} : Elems(p) \cap Elems(path[u]) = {}
  BY DEF Tree
<1>8. p \in Seq(Nodes)
  BY DEF Tree
<1>9. \A m \in Nodes \ {Root, n} :
           /\ m \in Elems(p) <=> m \in Elems(path[t])
           /\ m \in Elems(stack'[t]) <=> m \in Elems(stack[t])
           /\ Second(t, m)' <=> Second(t, m)
           /\ Carrying(t, m)' <=> Carrying(t, m)
  BY <1>3, <1>5
<1> HIDE DEF p
<1>10. Tree([path EXCEPT ![t] = p])'
  BY <1>2, <1>3, <1>4, <1>6, <1>7, <1>8, <1>9, TreeStep
<1> QED BY <1>10 DEF p

LEMMA PrecombineRootStep ==
  ASSUME TypeOK, NEW path, Tree(path), NEW t \in Threads, Precombine(t),
         state[node[t]] = "ROOT"
  PROVE  Tree([path EXCEPT ![t] = path[t]])'
<1>1. StopAtNode(t) /\ UNCHANGED <<state, is_locked>>
  BY DEF Precombine
<1>2. node[t] = Root
  BY DEF TypeOK, Tree, NodeOK
<1>3. /\ PathOK(path[t], t)' /\ pc[t] = "precombine" /\ stop'[t] = Root
      /\ Aside(t) /\ UNCHANGED stack
  BY <1>1, <1>2, Stops DEF Tree
<1>4. \A m \in Nodes \ {Root} : /\ ~Second(t, m)' /\ ~Second(t, m)
                                /\ ~Carrying(t, m)' /\ ~Carrying(t, m)
  BY <1>3 DEF Second, Carrying, CarryPcs, CombinePcs, WaitPcs
<1>5. path[t] \in Seq(Nodes) /\ \A u \in Threads \ {t} : Elems(path[t]) \cap Elems(path[u]) = {}
  BY DEF Tree
<1> QED BY <1>1, <1>3, <1>4, <1>5, TreeStep, TreeShape

LEMMA PrecombineStep ==
  ASSUME IInv, NEW t \in Threads, Precombine(t)
  PROVE  IInv'
<1>1. PICK path : Tree(path)
  BY DEF IInv
<1>2. state[node[t]] \in {"IDLE", "FIRST", "ROOT"}
  BY <1>1, NoThirdThread DEF IInv, Precombine
<1>3. TypeOK'
  <2> USE DEF Precombine, history
  <2>1. CASE state[node[t]] = "IDLE"
    <3>1. Parent(node[t]) \in Nodes
      BY <1>1, <2>1, TreeShape DEF IInv, TypeOK, Tree
    <3>2. /\ state' = [state EXCEPT ![node[t]] = "FIRST"]
          /\ node' = [node EXCEPT ![t] = Parent(node[t])]
          /\ UNCHANGED <<is_locked, first, second, result, stop, combined, stack, before,
                         pc, started, returned>>
      BY <2>1
    <3> QED BY <3>1, <3>2 DEF IInv, TypeOK
  <2>2. ASSUME StopAtNode(t) PROVE
           /\ UNCHANGED <<stack, before>> /\ stop' \in [Threads -> Nodes]
           /\ node' \in [Threads -> Nodes] /\ combined' \in [Threads -> Nat]
           /\ \E to \in CarryPcs : pc' = [pc EXCEPT ![t] = to]
    BY <2>2, TreeShape DEF IInv, TypeOK, StopAtNode, Goto, CarryPcs, CombinePcs
  <2>3. CASE state[node[t]] = "FIRST"
    <3>1. StopAtNode(t)
      BY <2>3
    <3>2. PICK to \in CarryPcs : pc' = [pc EXCEPT ![t] = to]
      BY <2>2, <3>1
    <3>3. /\ state' = [state EXCEPT ![node[t]] = "SECOND"]
          /\ is_locked' = [is_locked EXCEPT ![node[t]] = TRUE]
          /\ UNCHANGED <<first, second, result, started, returned>>
      BY <2>3
    <3> QED BY <2>2, <3>1, <3>2, <3>3
        DEF IInv, TypeOK, CarryPcs, CombinePcs, ResultPcs
  <2>4. CASE state[node[t]] = "ROOT"
    <3>1. StopAtNode(t)
      BY <2>4
    <3>2. PICK to \in CarryPcs : pc' = [pc EXCEPT ![t] = to]
      BY <2>2, <3>1
    <3>3. UNCHANGED <<state, is_locked, first, second, result, started, returned>>
      BY <2>4
    <3> QED BY <2>2, <3>1, <3>2, <3>3
        DEF IInv, TypeOK, CarryPcs, CombinePcs, ResultPcs
  <2> QED BY <1>2, <2>1, <2>3, <2>4
<1>4. \E q : Tree(q)'
  BY <1>1, <1>2, PrecombineFirstStep, PrecombineSecondStep, PrecombineRootStep DEF IInv
<1> QED BY <1>3, <1>4 DEF IInv

\* The thread that combines at a node came there first.
LEMMA CombineEffect ==
  ASSUME TypeOK, NEW path, Tree(path), NEW t \in Threads, Combine(t)
  PROVE  \E n \in Nodes \ {Root} :
           /\ node[t] = n /\ n \in Elems(path[t]) /\ NodeOK(path, n)
           /\ pc[t] = "combine" /\ pc'[t] \in {"combine", "op"} /\ ~is_locked[n]
           /\ ~Combined(n) /\ state[n] \in {"FIRST", "SECOND"} /\ Aside(t)
           /\ is_locked' = [is_locked EXCEPT ![n] = TRUE]
           /\ first' = [first EXCEPT ![n] = combined[t]]
           /\ combined' = [combined EXCEPT ![t] = combined[t] +
                             (IF state[n] = "SECOND" THEN second[n] ELSE 0)]
           /\ stack' = [stack EXCEPT ![t] = Append(stack[t], n)]
           /\ node' = [node EXCEPT ![t] = Parent(n)]
           /\ pc' = [pc EXCEPT ![t] = IF Parent(n) = stop[t] THEN "op" ELSE "combine"]
           /\ UNCHANGED <<state, second, result, stop, before, history>>
<1>1. PICK n \in Nodes : n = node[t]
  BY DEF TypeOK
<1>2. pc[t] = "combine" /\ ~is_locked[n]
  BY <1>1 DEF Combine
<1>3. PathOK(path[t], t) /\ Chain(path[t], t) /\ n \in Elems(path[t])
  <2>1. /\ PathOK(path[t], t) /\ Chain(path[t], t) /\ n = path[t][Len(stack[t]) + 1]
        /\ Len(stack[t]) < Len(path[t])
    BY <1>1, <1>2 DEF Tree, PathOK, CombinePcs
  <2>2. Len(stack[t]) \in Nat /\ Len(path[t]) \in Nat
    BY <2>1 DEF TypeOK, Chain
  <2> QED BY <2>1, <2>2 DEF Elems
<1>4. n \in Nodes \ {Root} /\ NodeOK(path, n)
  BY <1>3, ChainFacts DEF Tree
<1>5. state[n] \in {"FIRST", "SECOND"} /\ ~Combined(n)
  BY <1>2, <1>3, <1>4 DEF NodeOK
<1>6. /\ is_locked' = [is_locked EXCEPT ![n] = TRUE]
      /\ first' = [first EXCEPT ![n] = combined[t]]
      /\ combined' = [combined EXCEPT ![t] = combined[t] +
                             (IF state[n] = "SECOND" THEN second[n] ELSE 0)]
      /\ stack' = [stack EXCEPT ![t] = Append(stack[t], n)]
      /\ node' = [node EXCEPT ![t] = Parent(n)]
      /\ pc' = [pc EXCEPT ![t] = IF Parent(n) = stop[t] THEN "op" ELSE "combine"]
      /\ UNCHANGED <<state, second, result, stop, before, history>>
  <2>1. n = node[t] /\ (state[n] = "FIRST" \/ state[n] = "SECOND")
    BY <1>1, <1>5
  <2> HIDE DEF Parent, history
  <2> QED BY <2>1 DEF Combine, Goto
<1>7. Aside(t) /\ pc'[t] \in {"combine", "op"}
  BY <1>6 DEF TypeOK, Aside, SameKind
<1> QED BY <1>1, <1>2, <1>3, <1>4, <1>5, <1>6, <1>7

LEMMA CombineStep ==
  ASSUME IInv, NEW t \in Threads, Combine(t)
  PROVE  IInv'
<1>1. PICK path : Tree(path)
  BY DEF IInv
<1> DEFINE p == path[t]
           k == Len(stack[t])
<1>2. PICK n \in Nodes \ {Root} :
           /\ node[t] = n /\ n \in Elems(p) /\ NodeOK(path, n)
           /\ pc[t] = "combine" /\ pc'[t] \in {"combine", "op"}
           /\ ~is_locked[n] /\ ~Combined(n) /\ state[n] \in {"FIRST", "SECOND"} /\ Aside(t)
           /\ is_locked' = [is_locked EXCEPT ![n] = TRUE]
           /\ first' = [first EXCEPT ![n] = combined[t]]
           /\ combined' = [combined EXCEPT ![t] = combined[t] +
                             (IF state[n] = "SECOND" THEN second[n] ELSE 0)]
           /\ stack' = [stack EXCEPT ![t] = Append(stack[t], n)]
           /\ node' = [node EXCEPT ![t] = Parent(n)]
           /\ pc' = [pc EXCEPT ![t] = IF Parent(n) = stop[t] THEN "op" ELSE "combine"]
           /\ UNCHANGED <<state, second, result, stop, before, history>>
  BY <1>1, CombineEffect DEF IInv
<1>3. /\ Chain(p, t) /\ stop[t] = End(p, t) /\ k < Len(p) /\ stack[t] = SubSeq(p, 1, k)
      /\ n = p[k + 1] /\ k \in Nat
  <2>1. k \in Nat
    BY DEF IInv, TypeOK
  <2>2. PathOK(p, t)
    BY <1>1 DEF Tree
  <2> HIDE DEF p
  <2> QED BY <1>2, <2>1, <2>2 DEF PathOK, CombinePcs, CarryPcs
<1>4. p \in Seq(Nodes \ {Root}) /\ Len(p) \in Nat /\ k + 1 \in 1 .. Len(p)
  BY <1>3 DEF Chain
<1>5. Append(stack[t], n) = SubSeq(p, 1, k + 1) /\ Len(Append(stack[t], n)) = k + 1
  <2>1. Append(stack[t], n) = SubSeq(p, 1, k + 1)
    BY <1>3, <1>4, PrefixAppend
  <2> QED BY <2>1, <1>3, <1>4, Prefix
<1>6. TypeOK'
  <2>1. Parent(n) \in Nodes
    BY TreeShape
  <2>2. combined'[t] \in Nat
    BY <1>2 DEF IInv, TypeOK
  <2>3. Append(stack[t], n) \in Seq(Nodes)
    BY <1>2, AppendProperties DEF IInv, TypeOK
  <2> QED BY <1>2, <2>1, <2>2, <2>3
      DEF IInv, TypeOK, history, CarryPcs, CombinePcs, ResultPcs
<1>7. stack'[t] = SubSeq(p, 1, k + 1) /\ Len(stack'[t]) = k + 1 /\ node'[t] = Parent(n)
      /\ pc'[t] = (IF Parent(n) = stop[t] THEN "op" ELSE "combine") /\ stop'[t] = stop[t]
  BY <1>2, <1>5 DEF IInv, TypeOK
<1>8. Parent(n) = stop[t] <=> k + 1 = Len(p)
  <2>1. CASE k + 1 = Len(p)
    BY <1>3, <1>4, <2>1 DEF End
  <2>2. CASE k + 1 # Len(p)
    <3>1. k + 1 \in 1 .. Len(p) - 1 /\ k + 2 \in 1 .. Len(p) /\ (k + 1) + 1 = k + 2
      BY <1>3, <1>4, <2>2
    <3>2. p[k + 2] = Parent(n)
      BY <1>3, <3>1 DEF Chain
    <3>3. p[k + 2] \in Elems(p)
      BY <3>1 DEF Elems
    <3>4. End(p, t) < p[k + 2] /\ p[k + 2] \in Nat
      BY <1>3, <3>3, ChainFacts, TreeShape
    <3> QED BY <1>3, <2>2, <3>2, <3>4
  <2> QED BY <2>1, <2>2
<1>9. PathOK(p, t)'
  <2>1. CASE k + 1 = Len(p)
    <3>1. SubSeq(p, 1, k + 1) = p
      BY <1>4, <2>1, SubSeqFull
    <3>2. pc'[t] = "op" /\ stack'[t] = p /\ node'[t] = stop'[t]
      BY <1>7, <1>8, <2>1, <3>1
    <3> QED BY <1>3, <1>7, <3>2
        DEF PathOK, Chain, End, ClimbPcs, CarryPcs, CombinePcs, WaitPcs
  <2>2. CASE k + 1 # Len(p)
    <3>1. k + 1 \in 1 .. Len(p) - 1 /\ (k + 1) + 1 = k + 2 /\ k + 1 < Len(p)
      BY <1>3, <1>4, <2>2
    <3>2. p[k + 2] = Parent(n)
      BY <1>3, <3>1 DEF Chain
    <3>3. /\ pc'[t] = "combine" /\ stack'[t] = SubSeq(p, 1, Len(stack'[t]))
          /\ Len(stack'[t]) < Len(p) /\ node'[t] = p[Len(stack'[t]) + 1]
      BY <1>7, <1>8, <2>2, <3>1, <3>2
    <3> HIDE DEF p, k
    <3> QED BY <1>3, <1>7, <3>3
        DEF PathOK, Chain, End, ClimbPcs, CarryPcs, CombinePcs, WaitPcs
  <2> QED BY <2>1, <2>2
<1>10. Elems(stack'[t]) = Elems(stack[t]) \cup {n}
  <2>1. stack[t] \in Seq(Nodes) /\ stack'[t] = Append(stack[t], n)
    BY <1>2 DEF IInv, TypeOK
  <2>2. 1 .. k + 1 = (1 .. k) \cup {k + 1}
    BY <1>3
  <2>3. /\ Len(stack'[t]) = k + 1 /\ stack'[t][k + 1] = n
        /\ \A i \in 1 .. k : stack'[t][i] = stack[t][i]
    BY <2>1, AppendProperties
  <2> QED BY <2>2, <2>3 DEF Elems
<1>11. \A m \in Nodes : /\ Second(t, m)' <=> Second(t, m)
                        /\ Carrying(t, m)' <=> Carrying(t, m)
  BY <1>2, <1>7 DEF Second, Carrying, CarryPcs, CombinePcs, WaitPcs
<1>12. [path EXCEPT ![t] = p] = path
  BY <1>1 DEF Tree
<1>13. NodeOK([path EXCEPT ![t] = p], n)'
  <2>1. \A u \in Threads : Second(u, n)' <=> Second(u, n)
    BY <1>2, <1>11 DEF Aside, SameKind, Second, ClimbPcs, CarryPcs, CombinePcs, WaitPcs
  <2>2. \A u \in Threads : Carrying(u, n)' <=> Carrying(u, n)
    BY <1>2, <1>11 DEF Aside, SameKind, Carrying, ClimbPcs, CarryPcs, CombinePcs, WaitPcs
  <2>3. Combined(n)'
    BY <1>10 DEF Combined
  <2>4. \A u \in Threads : ~Carrying(u, n)
    BY <1>2 DEF NodeOK
  <2>5. is_locked'[n] /\ state'[n] = state[n]
    BY <1>2 DEF IInv, TypeOK
  <2> QED BY <1>2, <1>12, <2>1, <2>2, <2>3, <2>4, <2>5 DEF NodeOK
<1>14. \A m \in Nodes \ {Root, n} :
           /\ m \in Elems(p) <=> m \in Elems(path[t])
           /\ m \in Elems(stack'[t]) <=> m \in Elems(stack[t])
           /\ Second(t, m)' <=> Second(t, m)
           /\ Carrying(t, m)' <=> Carrying(t, m)
  BY <1>10, <1>11
<1>15. \A m \in Nodes \ {n} : state'[m] = state[m] /\ is_locked'[m] = is_locked[m]
  BY <1>2 DEF IInv, TypeOK
<1>16. p \in Seq(Nodes) /\ \A u \in Threads \ {t} : Elems(p) \cap Elems(path[u]) = {}
  BY <1>1 DEF Tree
<1>17. Tree([path EXCEPT ![t] = p])'
  <2> HIDE DEF p
  <2> QED BY <1>1, <1>2, <1>9, <1>13, <1>14, <1>15, <1>16, TreeStep
<1> QED BY <1>6, <1>17 DEF IInv

\* The way back starts at the top of the stack.
LEMMA TurnsBack ==
  ASSUME TypeOK, NEW t \in Threads, NEW p, PathOK(p, t), pc[t] \in {"op", "op_result"},
         NEW b, Distributing(t, b), pc'[t] = AfterOp(t), UNCHANGED stack
  PROVE  /\ PathOK(p, t)' /\ pc'[t] \in ResultPcs /\ before'[t] = b
         /\ node' \in [Threads -> Nodes] /\ stack[t] = p /\ node[t] = stop[t]
         /\ stop[t] = End(p, t) /\ Chain(p, t)
         /\ \A u \in Threads \ {t} : node'[u] = node[u] /\ before'[u] = before[u]
<1>1. stack[t] = p /\ Chain(p, t) /\ stack'[t] = p /\ node[t] = stop[t] /\ stop[t] = End(p, t)
  BY DEF PathOK, CarryPcs, WaitPcs
<1>2. /\ before'[t] = b
      /\ node' = [node EXCEPT ![t] = IF p = <<>> THEN node[t] ELSE p[Len(p)]]
      /\ \A u \in Threads \ {t} : before'[u] = before[u]
  BY <1>1 DEF TypeOK, Distributing
<1>3. \A u \in Threads \ {t} : node'[u] = node[u]
  BY <1>2 DEF TypeOK
<1>4. CASE p = <<>>
  BY <1>1, <1>2, <1>3, <1>4
  DEF TypeOK, PathOK, Chain, AfterOp, ClimbPcs, CarryPcs, CombinePcs, WaitPcs, ResultPcs
<1>5. CASE p # <<>>
  <2>1. p[Len(p)] \in Nodes
    BY <1>1, <1>5, ChainDown
  <2>2. node'[t] = p[Len(p)] /\ pc'[t] = "distribute" /\ node' \in [Threads -> Nodes]
    BY <1>1, <1>2, <1>5, <2>1 DEF TypeOK, AfterOp
  <2> QED BY <1>1, <1>2, <1>3, <1>5, <2>2
      DEF PathOK, Chain, ClimbPcs, CarryPcs, CombinePcs, WaitPcs, ResultPcs
<1> QED BY <1>4, <1>5

LEMMA OpRootEffect ==
  ASSUME TypeOK, NEW path, Tree(path), NEW t \in Threads, OpRoot(t)
  PROVE  /\ node[t] = Root /\ stop[t] = Root /\ stack[t] = path[t] /\ PathOK(path[t], t)'
         /\ pc[t] = "op" /\ pc' = [pc EXCEPT ![t] = AfterOp(t)]
         /\ pc'[t] = AfterOp(t) /\ pc'[t] \in ResultPcs
         /\ before' = [before EXCEPT ![t] = result[Root]]
         /\ before'[t] = result[Root] /\ node' \in [Threads -> Nodes]
         /\ result' = [result EXCEPT ![Root] = result[Root] + combined[t]]
         /\ UNCHANGED <<state, is_locked, first, second, stop, combined, stack, history>>
         /\ Aside(t) /\ \A u \in Threads \ {t} : pc'[u] = pc[u]
<1>1. node[t] = Root
  BY DEF TypeOK, Tree, NodeOK, OpRoot
<1>2. /\ pc[t] = "op" /\ pc' = [pc EXCEPT ![t] = AfterOp(t)]
      /\ result' = [result EXCEPT ![Root] = result[Root] + combined[t]]
      /\ UNCHANGED <<state, is_locked, first, second, stop, combined, stack, history>>
      /\ Distributing(t, result[Root])
  BY <1>1 DEF OpRoot, Goto
<1>3. /\ PathOK(path[t], t)' /\ pc'[t] \in ResultPcs /\ before'[t] = result[Root]
      /\ node' \in [Threads -> Nodes] /\ stack[t] = path[t] /\ node[t] = stop[t]
      /\ \A u \in Threads \ {t} : node'[u] = node[u] /\ before'[u] = before[u]
  <2>1. pc'[t] = AfterOp(t) /\ PathOK(path[t], t)
    BY <1>2 DEF TypeOK, Tree
  <2> QED BY <1>2, <2>1, TurnsBack
<1>4. Aside(t) /\ pc'[t] = AfterOp(t) /\ \A u \in Threads \ {t} : pc'[u] = pc[u]
  BY <1>2, <1>3 DEF TypeOK, Aside, SameKind
<1> QED BY <1>1, <1>2, <1>3, <1>4 DEF Distributing

LEMMA OpRootStep ==
  ASSUME IInv, NEW t \in Threads, OpRoot(t)
  PROVE  IInv'
<1>1. PICK path : Tree(path)
  BY DEF IInv
<1>2. /\ stop[t] = Root /\ PathOK(path[t], t)'
      /\ pc[t] = "op" /\ pc' = [pc EXCEPT ![t] = AfterOp(t)]
      /\ pc'[t] \in ResultPcs /\ before' = [before EXCEPT ![t] = result[Root]]
      /\ node' \in [Threads -> Nodes]
      /\ result' = [result EXCEPT ![Root] = result[Root] + combined[t]]
      /\ UNCHANGED <<state, is_locked, first, second, stop, combined, stack, history>>
      /\ Aside(t)
  BY <1>1, OpRootEffect DEF IInv
<1>3. TypeOK'
  <2>1. pc' \in [Threads -> {"idle"} \cup ClimbPcs \cup CarryPcs \cup WaitPcs \cup ResultPcs]
    BY <1>2 DEF IInv, TypeOK, AfterOp, ResultPcs
  <2>2. before' \in [Threads -> Nat \cup {-1}] /\ result' \in [Nodes -> Nat]
    BY <1>2, TreeShape DEF IInv, TypeOK
  <2>3. \A u \in Threads : pc'[u] \in ResultPcs => before'[u] \in Nat
    BY <1>2, TreeShape DEF IInv, TypeOK
  <2> QED BY <1>2, <2>1, <2>2, <2>3 DEF IInv, TypeOK, history
<1>4. \A m \in Nodes \ {Root} : /\ ~Second(t, m)' /\ ~Second(t, m)
                                /\ ~Carrying(t, m)' /\ ~Carrying(t, m)
  BY <1>2 DEF Second, Carrying
<1>5. path[t] \in Seq(Nodes) /\ \A u \in Threads \ {t} : Elems(path[t]) \cap Elems(path[u]) = {}
  BY <1>1 DEF Tree
<1>6. Tree([path EXCEPT ![t] = path[t]])'
  BY <1>1, <1>2, <1>4, <1>5, TreeStep, TreeShape
<1> QED BY <1>3, <1>6 DEF IInv

\* The thread that stops below the root came second there.
LEMMA OpSecondEffect ==
  ASSUME TypeOK, NEW path, Tree(path), NEW t \in Threads, OpSecond(t)
  PROVE  \E n \in Nodes \ {Root} :
           /\ node[t] = n /\ stop[t] = n /\ stack[t] = path[t] /\ PathOK(path[t], t)'
           /\ state[n] = "SECOND" /\ NodeOK(path, n) /\ Carrying(t, n) /\ ~Combined(n)
           /\ pc[t] = "op" /\ pc'[t] = "op_wait" /\ Aside(t)
           /\ second' = [second EXCEPT ![n] = combined[t]]
           /\ is_locked' = [is_locked EXCEPT ![n] = FALSE]
           /\ pc' \in [Threads -> {pc'[u] : u \in Threads}]
           /\ UNCHANGED <<state, first, result, locals, history>>
<1>1. PICK n \in Nodes : n = node[t]
  BY DEF TypeOK
<1>2. pc[t] = "op" /\ n # Root
  BY <1>1 DEF OpSecond, Tree
<1>3. PathOK(path[t], t) /\ stack[t] = path[t] /\ node[t] = stop[t]
  BY <1>2 DEF Tree, PathOK
<1>4. NodeOK(path, n) /\ Carrying(t, n) /\ state[n] = "SECOND" /\ ~Combined(n)
  <2>1. NodeOK(path, n) /\ Carrying(t, n)
    BY <1>1, <1>2, <1>3 DEF Tree, Carrying, CarryPcs
  <2> QED BY <2>1 DEF NodeOK
<1>5. /\ second' = [second EXCEPT ![n] = combined[t]]
      /\ is_locked' = [is_locked EXCEPT ![n] = FALSE]
      /\ NotifyAndGoto(t, "op_wait")
      /\ UNCHANGED <<state, first, result, locals, history>>
  BY <1>1, <1>4 DEF OpSecond
<1>6. /\ pc'[t] = "op_wait" /\ \A u \in Threads \ {t} : SameKind(u)
      /\ pc' \in [Threads -> {pc'[u] : u \in Threads}]
  BY <1>5, Notified DEF NotifyAndGoto
<1>7. Aside(t)
  BY <1>5, <1>6 DEF Aside, locals
<1>8. PathOK(path[t], t)'
  BY <1>2, <1>3, <1>5, <1>6
  DEF PathOK, Chain, End, locals, ClimbPcs, CarryPcs, CombinePcs, WaitPcs
<1> QED BY <1>1, <1>2, <1>3, <1>4, <1>5, <1>6, <1>7, <1>8

LEMMA OpSecondStep ==
  ASSUME IInv, NEW t \in Threads, OpSecond(t)
  PROVE  IInv'
<1>1. PICK path : Tree(path)
  BY DEF IInv
<1>2. PICK n \in Nodes \ {Root} :
           /\ node[t] = n /\ stop[t] = n /\ stack[t] = path[t] /\ PathOK(path[t], t)'
           /\ state[n] = "SECOND" /\ NodeOK(path, n) /\ Carrying(t, n) /\ ~Combined(n)
           /\ pc[t] = "op" /\ pc'[t] = "op_wait" /\ Aside(t)
           /\ second' = [second EXCEPT ![n] = combined[t]]
           /\ is_locked' = [is_locked EXCEPT ![n] = FALSE]
           /\ pc' \in [Threads -> {pc'[u] : u \in Threads}]
           /\ UNCHANGED <<state, first, result, locals, history>>
  BY <1>1, OpSecondEffect DEF IInv
<1>3. TypeOK'
  <2>1. \A u \in Threads : \/ pc'[u] = pc[u]
                           \/ pc'[u] \in ClimbPcs \cup CarryPcs \cup WaitPcs
    BY <1>2 DEF Aside, SameKind, CarryPcs, WaitPcs
  <2>2. \A u \in Threads : pc'[u] \in ResultPcs => pc[u] \in ResultPcs
    BY <2>1 DEF ResultPcs, ClimbPcs, CarryPcs, CombinePcs, WaitPcs
  <2>3. pc' \in [Threads -> {"idle"} \cup ClimbPcs \cup CarryPcs \cup WaitPcs \cup ResultPcs]
    BY <1>2, <2>1 DEF IInv, TypeOK
  <2> QED BY <1>2, <2>2, <2>3 DEF IInv, TypeOK, locals, history
<1>4. /\ Second(t, n)' /\ ~Carrying(t, n)'
      /\ \A m \in Nodes \ {n} : /\ ~Second(t, m)' /\ ~Second(t, m)
                                /\ ~Carrying(t, m)' /\ ~Carrying(t, m)
  BY <1>2 DEF Second, Carrying, locals, CarryPcs, CombinePcs, WaitPcs
<1>5. NodeOK([path EXCEPT ![t] = path[t]], n)'
  <2>1. [path EXCEPT ![t] = path[t]] = path
    BY <1>1 DEF Tree
  <2>2. \A u \in Threads : Second(u, n)' <=> Second(u, n)
    <3>1. Second(t, n)
      BY <1>2 DEF Second, Carrying
    <3> QED BY <1>2, <1>4, <3>1
        DEF Aside, SameKind, Second, ClimbPcs, CarryPcs, CombinePcs, WaitPcs
  <2>3. \A u \in Threads : ~Carrying(u, n)'
    <3>1. \A u \in Threads : Second(u, n) => u = t
      BY <1>2 DEF NodeOK, Second, Carrying
    <3>2. \A u \in Threads : Carrying(u, n)' => Second(u, n)'
      BY DEF Carrying, Second
    <3> QED BY <1>4, <2>2, <3>1, <3>2
  <2>4. ~Combined(n)'
    BY <1>2 DEF Combined, locals
  <2>5. ~is_locked'[n] /\ state'[n] = state[n]
    BY <1>2 DEF IInv, TypeOK
  <2> QED BY <1>2, <2>1, <2>2, <2>3, <2>4, <2>5 DEF NodeOK
<1>6. path[t] \in Seq(Nodes) /\ \A u \in Threads \ {t} : Elems(path[t]) \cap Elems(path[u]) = {}
  BY <1>1 DEF Tree
<1>7. \A m \in Nodes \ {n} : state'[m] = state[m] /\ is_locked'[m] = is_locked[m]
  BY <1>2 DEF IInv, TypeOK
<1>8. \A m \in Nodes \ {Root, n} :
           /\ m \in Elems(path[t]) <=> m \in Elems(path[t])
           /\ m \in Elems(stack'[t]) <=> m \in Elems(stack[t])
           /\ Second(t, m)' <=> Second(t, m)
           /\ Carrying(t, m)' <=> Carrying(t, m)
  BY <1>2, <1>4 DEF locals
<1>9. Tree([path EXCEPT ![t] = path[t]])'
  BY <1>1, <1>2, <1>5, <1>6, <1>7, <1>8, TreeStep
<1> QED BY <1>3, <1>9 DEF IInv

\* The thread that gets its result has been the second at a node that no thread
\* holds any more.
LEMMA OpResultEffect ==
  ASSUME TypeOK, NEW path, Tree(path), NEW t \in Threads, OpResult(t)
  PROVE  \E n \in Nodes \ {Root} :
           /\ node[t] = n /\ stop[t] = n /\ stack[t] = path[t] /\ PathOK(path[t], t)'
           /\ state[n] = "RESULT" /\ NodeOK(path, n) /\ Second(t, n)
           /\ pc[t] = "op_result" /\ pc'[t] \in ResultPcs /\ pc'[t] = AfterOp(t) /\ Aside(t)
           /\ before'[t] = result[n] /\ before' = [before EXCEPT ![t] = result[n]]
           /\ is_locked' = [is_locked EXCEPT ![n] = FALSE]
           /\ state' = [state EXCEPT ![n] = "IDLE"]
           /\ node' \in [Threads -> Nodes] /\ pc' \in [Threads -> {pc'[u] : u \in Threads}]
           /\ UNCHANGED <<first, second, result, stop, combined, stack, history>>
<1>1. PICK n \in Nodes : n = node[t]
  BY DEF TypeOK
<1>2. pc[t] = "op_result" /\ state[n] = "RESULT" /\ n # Root
  BY <1>1 DEF OpResult, Tree
<1>3. PathOK(path[t], t) /\ node[t] = stop[t]
  BY <1>2 DEF Tree, PathOK, WaitPcs
<1>4. NodeOK(path, n) /\ Second(t, n)
  BY <1>1, <1>2, <1>3 DEF Tree, Second, WaitPcs
<1>5. /\ is_locked' = [is_locked EXCEPT ![n] = FALSE]
      /\ state' = [state EXCEPT ![n] = "IDLE"]
      /\ NotifyAndGoto(t, AfterOp(t)) /\ Distributing(t, result[n])
      /\ UNCHANGED <<first, second, result, stop, combined, stack, history>>
  BY <1>1 DEF OpResult
<1>6. /\ pc'[t] = AfterOp(t) /\ \A u \in Threads \ {t} : SameKind(u)
      /\ pc' \in [Threads -> {pc'[u] : u \in Threads}]
  BY <1>5, Notified DEF NotifyAndGoto
<1>7. /\ PathOK(path[t], t)' /\ pc'[t] \in ResultPcs /\ before'[t] = result[n]
      /\ node' \in [Threads -> Nodes] /\ stack[t] = path[t]
      /\ \A u \in Threads \ {t} : node'[u] = node[u] /\ before'[u] = before[u]
  BY <1>2, <1>3, <1>5, <1>6, TurnsBack
<1>8. Aside(t)
  BY <1>5, <1>6, <1>7 DEF Aside
<1> QED
  BY <1>1, <1>2, <1>3, <1>4, <1>5, <1>6, <1>7, <1>8 DEF Distributing

LEMMA OpResultStep ==
  ASSUME IInv, NEW t \in Threads, OpResult(t)
  PROVE  IInv'
<1>1. PICK path : Tree(path)
  BY DEF IInv
<1>2. PICK n \in Nodes \ {Root} :
           /\ node[t] = n /\ stop[t] = n /\ stack[t] = path[t] /\ PathOK(path[t], t)'
           /\ state[n] = "RESULT" /\ NodeOK(path, n) /\ Second(t, n)
           /\ pc[t] = "op_result" /\ pc'[t] \in ResultPcs /\ pc'[t] = AfterOp(t) /\ Aside(t)
           /\ before'[t] = result[n] /\ before' = [before EXCEPT ![t] = result[n]]
           /\ is_locked' = [is_locked EXCEPT ![n] = FALSE]
           /\ state' = [state EXCEPT ![n] = "IDLE"]
           /\ node' \in [Threads -> Nodes] /\ pc' \in [Threads -> {pc'[u] : u \in Threads}]
           /\ UNCHANGED <<first, second, result, stop, combined, stack, history>>
  BY <1>1, OpResultEffect DEF IInv
<1>3. TypeOK'
  <2>1. \A u \in Threads \ {t} : \/ pc'[u] = pc[u]
                                 \/ pc'[u] \in ClimbPcs \cup CarryPcs \cup WaitPcs
    BY <1>2 DEF Aside, SameKind, CarryPcs, WaitPcs
  <2>2. \A u \in Threads \ {t} : pc'[u] \in ResultPcs => pc[u] \in ResultPcs
    BY <2>1 DEF ResultPcs, ClimbPcs, CarryPcs, CombinePcs, WaitPcs
  <2>3. pc' \in [Threads -> {"idle"} \cup ClimbPcs \cup CarryPcs \cup WaitPcs \cup ResultPcs]
    BY <1>2, <2>1 DEF IInv, TypeOK
  <2>4. result[n] \in Nat
    BY DEF IInv, TypeOK
  <2>5. \A u \in Threads : pc'[u] \in ResultPcs => before'[u] \in Nat
    BY <1>2, <2>2, <2>4 DEF IInv, TypeOK
  <2>6. /\ before' \in [Threads -> Nat \cup {-1}]
        /\ state' \in [Nodes -> {"IDLE", "FIRST", "SECOND", "RESULT", "ROOT"}]
        /\ is_locked' \in [Nodes -> BOOLEAN]
    BY <1>2, <2>4 DEF IInv, TypeOK
  <2> QED BY <1>2, <2>3, <2>5, <2>6 DEF IInv, TypeOK, history
<1>4. \A m \in Nodes : ~Second(t, m)' /\ ~Carrying(t, m)'
  BY <1>2 DEF Second, Carrying, ResultPcs, CarryPcs, CombinePcs, WaitPcs
<1>5. \A m \in Nodes \ {n} : ~Second(t, m) /\ ~Carrying(t, m)
  BY <1>2 DEF Second, Carrying
<1>6. \A m \in Nodes \ {n} : state'[m] = state[m] /\ is_locked'[m] = is_locked[m]
  BY <1>2 DEF IInv, TypeOK
<1>7. NodeOK([path EXCEPT ![t] = path[t]], n)'
  <2>1. [path EXCEPT ![t] = path[t]] = path
    BY <1>1 DEF Tree
  <2>2. \A u \in Threads : n \notin Elems(path[u])
    BY <1>2 DEF NodeOK
  <2>3. \A u \in Threads : ~Second(u, n)'
    <3>1. \A u \in Threads \ {t} : ~Second(u, n)
      BY <1>2 DEF NodeOK
    <3> QED BY <1>2, <1>4, <3>1
        DEF Aside, SameKind, Second, ClimbPcs, CarryPcs, CombinePcs, WaitPcs
  <2>4. \A u \in Threads : ~Carrying(u, n)'
    BY <2>3 DEF Second, Carrying
  <2>5. ~Combined(n)'
    <3>1. \A u \in Threads : n \notin Elems(stack[u])
      BY <1>1, <2>2, StackOnPath DEF IInv, Tree
    <3> QED BY <1>2, <3>1 DEF Combined
  <2>6. ~is_locked'[n] /\ state'[n] = "IDLE"
    BY <1>2 DEF IInv, TypeOK
  <2> QED BY <2>1, <2>2, <2>3, <2>4, <2>5, <2>6 DEF NodeOK
<1>8. path[t] \in Seq(Nodes) /\ \A u \in Threads \ {t} : Elems(path[t]) \cap Elems(path[u]) = {}
  BY <1>1 DEF Tree
<1>9. \A m \in Nodes \ {Root, n} :
           /\ m \in Elems(path[t]) <=> m \in Elems(path[t])
           /\ m \in Elems(stack'[t]) <=> m \in Elems(stack[t])
           /\ Second(t, m)' <=> Second(t, m)
           /\ Carrying(t, m)' <=> Carrying(t, m)
  BY <1>2, <1>4, <1>5
<1>10. Tree([path EXCEPT ![t] = path[t]])'
  BY <1>1, <1>2, <1>6, <1>7, <1>8, <1>9, TreeStep
<1> QED BY <1>3, <1>10 DEF IInv

\* The thread that distributes at a node came there first, and goes one node
\* down its path.
LEMMA DistributeEffect ==
  ASSUME TypeOK, NEW path, Tree(path), NEW t \in Threads, Distribute(t)
  PROVE  \E n \in Nodes \ {Root}, q \in Seq(Nodes) :
           /\ node[t] = n /\ stack[t] = path[t] /\ NodeOK(path, n) /\ Combined(n)
           /\ stack[t] # <<>> /\ n = stack[t][Len(stack[t])]
           /\ q = SubSeq(stack[t], 1, Len(stack[t]) - 1)
           /\ q \in Seq(Nodes) /\ Elems(path[t]) = Elems(q) \cup {n} /\ n \notin Elems(q)
           /\ pc[t] = "distribute" /\ pc'[t] = (IF q = <<>> THEN "return" ELSE "distribute")
           /\ pc'[t] \in ResultPcs
           /\ Aside(t) /\ PathOK(q, t)'
           /\ stack' = [stack EXCEPT ![t] = q] /\ node' \in [Threads -> Nodes]
           /\ pc' \in [Threads -> {pc'[u] : u \in Threads}]
           /\ \/ /\ state[n] = "FIRST" /\ state' = [state EXCEPT ![n] = "IDLE"]
                 /\ is_locked' = [is_locked EXCEPT ![n] = FALSE] /\ UNCHANGED result
              \/ /\ state[n] = "SECOND" /\ state' = [state EXCEPT ![n] = "RESULT"]
                 /\ result' = [result EXCEPT ![n] = before[t] + first[n]]
                 /\ UNCHANGED is_locked
           /\ UNCHANGED <<first, second, stop, combined, before, history>>
<1>1. PICK n \in Nodes : n = node[t]
  BY DEF TypeOK
<1>2. PICK p : p = path[t]
  OBVIOUS
<1>3. pc[t] = "distribute" /\ PathOK(p, t)
  BY <1>2 DEF Distribute, Tree
<1>4. stack[t] = p /\ p # <<>> /\ n = p[Len(p)] /\ Chain(p, t)
  BY <1>1, <1>3 DEF PathOK
<1>5. PICK q : q = SubSeq(p, 1, Len(p) - 1)
  OBVIOUS
<1>6. /\ Chain(q, t) /\ Elems(p) = Elems(q) \cup {n} /\ n \notin Elems(q)
      /\ n \in Nodes \ {Root}
      /\ q # <<>> => q[Len(q)] \in Nodes
  BY <1>4, <1>5, ChainDown
<1>7. NodeOK(path, n) /\ n \in Elems(path[t]) /\ state[n] \in {"FIRST", "SECOND"} /\ Combined(n)
  BY <1>2, <1>4, <1>6 DEF Tree, NodeOK, Combined
<1>8. /\ stack' = [stack EXCEPT ![t] = q]
      /\ node' = [node EXCEPT ![t] = IF q = <<>> THEN node[t] ELSE q[Len(q)]]
      /\ NotifyAndGoto(t, IF q = <<>> THEN "return" ELSE "distribute")
      /\ \/ /\ state[n] = "FIRST" /\ state' = [state EXCEPT ![n] = "IDLE"]
            /\ is_locked' = [is_locked EXCEPT ![n] = FALSE] /\ UNCHANGED result
         \/ /\ state[n] = "SECOND" /\ state' = [state EXCEPT ![n] = "RESULT"]
            /\ result' = [result EXCEPT ![n] = before[t] + first[n]]
            /\ UNCHANGED is_locked
      /\ UNCHANGED <<first, second, stop, combined, before, history>>
  <2>1. PopStack(t)
    BY <1>1, <1>7 DEF Distribute
  <2>2. PopStack(t) => /\ stack' = [stack EXCEPT ![t] = q]
                       /\ node' = [node EXCEPT ![t] = IF q = <<>> THEN node[t] ELSE q[Len(q)]]
                       /\ NotifyAndGoto(t, IF q = <<>> THEN "return" ELSE "distribute")
    BY <1>4, <1>5 DEF PopStack
  <2>3. /\ \/ /\ state[n] = "FIRST" /\ state' = [state EXCEPT ![n] = "IDLE"]
              /\ is_locked' = [is_locked EXCEPT ![n] = FALSE] /\ UNCHANGED result
           \/ /\ state[n] = "SECOND" /\ state' = [state EXCEPT ![n] = "RESULT"]
              /\ result' = [result EXCEPT ![n] = before[t] + first[n]]
              /\ UNCHANGED is_locked
        /\ UNCHANGED <<first, second, stop, combined, before, history>>
    BY <1>1, <1>7 DEF Distribute, SecondResult
  <2> QED BY <2>1, <2>2, <2>3
<1>9. /\ pc'[t] = (IF q = <<>> THEN "return" ELSE "distribute") /\ pc'[t] \in ResultPcs
      /\ \A u \in Threads \ {t} : SameKind(u)
      /\ pc' \in [Threads -> {pc'[u] : u \in Threads}]
  BY <1>8, Notified DEF NotifyAndGoto, ResultPcs
<1>10. node' \in [Threads -> Nodes] /\ stack'[t] = q
       /\ (q # <<>> => node'[t] = q[Len(q)])
       /\ \A u \in Threads \ {t} : node'[u] = node[u] /\ stack'[u] = stack[u]
  BY <1>6, <1>8 DEF TypeOK
<1>11. Aside(t)
  BY <1>8, <1>9, <1>10 DEF Aside
<1>12. PathOK(q, t)'
  BY <1>6, <1>9, <1>10 DEF PathOK, Chain, ClimbPcs, CarryPcs, CombinePcs, WaitPcs
<1>13. q \in Seq(Nodes)
  BY <1>6 DEF Chain
<1> QED
  BY <1>1, <1>2, <1>3, <1>4, <1>5, <1>6, <1>7, <1>8, <1>9, <1>10, <1>11, <1>12, <1>13

LEMMA DistributeStep ==
  ASSUME IInv, NEW t \in Threads, Distribute(t)
  PROVE  IInv'
<1>1. PICK path : Tree(path)
  BY DEF IInv
<1>2. PICK n \in Nodes \ {Root}, q \in Seq(Nodes) :
           /\ node[t] = n /\ stack[t] = path[t] /\ NodeOK(path, n) /\ Combined(n)
           /\ q \in Seq(Nodes) /\ Elems(path[t]) = Elems(q) \cup {n} /\ n \notin Elems(q)
           /\ pc[t] = "distribute" /\ pc'[t] \in ResultPcs
           /\ Aside(t) /\ PathOK(q, t)'
           /\ stack' = [stack EXCEPT ![t] = q] /\ node' \in [Threads -> Nodes]
           /\ pc' \in [Threads -> {pc'[u] : u \in Threads}]
           /\ \/ /\ state[n] = "FIRST" /\ state' = [state EXCEPT ![n] = "IDLE"]
                 /\ is_locked' = [is_locked EXCEPT ![n] = FALSE] /\ UNCHANGED result
              \/ /\ state[n] = "SECOND" /\ state' = [state EXCEPT ![n] = "RESULT"]
                 /\ result' = [result EXCEPT ![n] = before[t] + first[n]]
                 /\ UNCHANGED is_locked
           /\ UNCHANGED <<first, second, stop, combined, before, history>>
  BY <1>1, DistributeEffect DEF IInv
<1>3. TypeOK'
  <2>1. \A u \in Threads \ {t} : \/ pc'[u] = pc[u]
                                 \/ pc'[u] \in ClimbPcs \cup CarryPcs \cup WaitPcs
    BY <1>2 DEF Aside, SameKind, CarryPcs, WaitPcs
  <2>2. \A u \in Threads : pc'[u] \in ResultPcs => pc[u] \in ResultPcs
    BY <1>2, <2>1 DEF ResultPcs, ClimbPcs, CarryPcs, CombinePcs, WaitPcs
  <2>3. pc' \in [Threads -> {"idle"} \cup ClimbPcs \cup CarryPcs \cup WaitPcs \cup ResultPcs]
    BY <1>2, <2>1 DEF IInv, TypeOK
  <2>4. before[t] \in Nat /\ first[n] \in Nat
    BY <1>2 DEF IInv, TypeOK, ResultPcs
  <2>5. \A u \in Threads : pc'[u] \in ResultPcs => before'[u] \in Nat
    BY <1>2, <2>2 DEF IInv, TypeOK
  <2>6. /\ state' \in [Nodes -> {"IDLE", "FIRST", "SECOND", "RESULT", "ROOT"}]
        /\ is_locked' \in [Nodes -> BOOLEAN] /\ result' \in [Nodes -> Nat]
        /\ stack' \in [Threads -> Seq(Nodes)]
    <3>1. stack' \in [Threads -> Seq(Nodes)]
      BY <1>2 DEF IInv, TypeOK
    <3>2. \/ /\ state' = [state EXCEPT ![n] = "IDLE"]
             /\ is_locked' = [is_locked EXCEPT ![n] = FALSE] /\ UNCHANGED result
          \/ /\ state' = [state EXCEPT ![n] = "RESULT"]
             /\ result' = [result EXCEPT ![n] = before[t] + first[n]]
             /\ UNCHANGED is_locked
      BY <1>2
    <3>3. before[t] + first[n] \in Nat
      BY <2>4
    <3>4. result' \in [Nodes -> Nat]
      <4>1. PICK sum \in Nat : sum = before[t] + first[n]
        BY <3>3
      <4> QED BY <3>2, <4>1 DEF IInv, TypeOK
    <3> QED BY <3>1, <3>2, <3>4 DEF IInv, TypeOK
  <2> QED BY <1>2, <2>3, <2>5, <2>6 DEF IInv, TypeOK, history
<1>4. \A m \in Nodes : /\ ~Second(t, m)' /\ ~Carrying(t, m)'
                       /\ ~Second(t, m) /\ ~Carrying(t, m)
  BY <1>2 DEF Second, Carrying, ResultPcs, CarryPcs, CombinePcs, WaitPcs
<1>5. \A m \in Nodes \ {n} : state'[m] = state[m] /\ is_locked'[m] = is_locked[m]
  BY <1>2 DEF IInv, TypeOK
<1>6. stack'[t] = q /\ \A u \in Threads \ {t} : stack'[u] = stack[u]
  BY <1>2 DEF IInv, TypeOK
<1>7. \A u \in Threads \ {t} : n \notin Elems(path[u]) /\ Elems(q) \cap Elems(path[u]) = {}
  BY <1>1, <1>2 DEF Tree
<1>8. NodeOK([path EXCEPT ![t] = q], n)'
  <2>1. \A u \in Threads : n \notin Elems([path EXCEPT ![t] = q][u])
    BY <1>1, <1>2, <1>7 DEF Tree
  <2>2. \A u \in Threads : (Second(u, n)' <=> Second(u, n)) /\ (Carrying(u, n)' <=> Carrying(u, n))
    BY <1>2, <1>4
    DEF Aside, SameKind, Second, Carrying, ClimbPcs, CarryPcs, CombinePcs, WaitPcs
  <2>3. ~Combined(n)'
    <3>1. \A u \in Threads \ {t} : n \notin Elems(stack[u])
      BY <1>1, <1>7, StackOnPath DEF IInv, Tree
    <3> QED BY <1>2, <1>6, <3>1 DEF Combined
  <2>4. \A u \in Threads : ~Carrying(u, n)
    BY <1>2 DEF NodeOK
  <2>5. CASE state[n] = "FIRST"
    <3>1. ~is_locked'[n] /\ state'[n] = "IDLE"
      BY <1>2, <2>5 DEF IInv, TypeOK
    <3> QED BY <1>2, <2>1, <2>2, <2>3, <2>4, <2>5, <3>1 DEF NodeOK
  <2>6. CASE state[n] = "SECOND"
    <3>1. is_locked'[n] /\ state'[n] = "RESULT"
      BY <1>2, <2>6 DEF IInv, TypeOK, NodeOK
    <3> QED BY <1>2, <2>1, <2>2, <2>3, <2>4, <2>6, <3>1 DEF NodeOK
  <2> QED BY <1>2, <2>5, <2>6
<1>9. \A m \in Nodes \ {Root, n} :
           /\ m \in Elems(q) <=> m \in Elems(path[t])
           /\ m \in Elems(stack'[t]) <=> m \in Elems(stack[t])
           /\ Second(t, m)' <=> Second(t, m)
           /\ Carrying(t, m)' <=> Carrying(t, m)
  BY <1>2, <1>4, <1>6
<1>10. Tree([path EXCEPT ![t] = q])'
  BY <1>1, <1>2, <1>5, <1>7, <1>8, <1>9, TreeStep
<1> QED BY <1>3, <1>10 DEF IInv

LEMMA ReturnStep ==
  ASSUME IInv, NEW t \in Threads, Return(t)
  PROVE  IInv'
<1>1. PICK path : Tree(path)
  BY DEF IInv
<1>2. /\ pc[t] = "return" /\ pc'[t] = "idle"
      /\ \A u \in Threads \ {t} : SameKind(u)
      /\ UNCHANGED <<state, is_locked, stack>>
  BY Moved DEF IInv, Return, fields
<1>3. TypeOK'
  BY TreeShape DEF IInv, TypeOK, Return, Goto, fields, ResultPcs
<1>4. Aside(t)
  BY <1>2 DEF IInv, TypeOK, Return, Aside
<1>5. path[t] = <<>> /\ stack[t] = <<>> /\ PathOK(path[t], t)
  BY <1>1, <1>2 DEF Tree, PathOK
<1>6. PathOK(path[t], t)'
  BY <1>2, <1>5 DEF PathOK, Chain, ClimbPcs, CarryPcs, CombinePcs, WaitPcs
<1>7. \A n \in Nodes \ {Root} : ~Second(t, n)' /\ ~Second(t, n) /\ ~Carrying(t, n)' /\ ~Carrying(t, n)
  BY <1>2 DEF Second, Carrying, CarryPcs, CombinePcs, WaitPcs
<1>8. Tree([path EXCEPT ![t] = path[t]])'
  BY <1>1, <1>2, <1>4, <1>6, <1>7, TreeStep, TreeShape DEF Tree
<1> QED BY <1>3, <1>8 DEF IInv

LEMMA NextIInv == IInv /\ [Next]_vars => IInv'
<1> SUFFICES ASSUME IInv, [Next]_vars PROVE IInv'
  OBVIOUS
<1>1. CASE UNCHANGED vars
  <2>1. UNCHANGED <<pc, state, is_locked, first, second, result, node, stop, combined, stack,
                    before, started, returned>>
    BY <1>1 DEF vars, fields, locals, history
  <2>2. PICK path : Tree(path)
    BY DEF IInv
  <2>3. TypeOK' /\ Tree(path)'
    BY <2>1, <2>2 DEF IInv, TypeOK, Tree, PathOK, NodeOK, Combined, Second, Carrying
  <2> QED BY <2>3 DEF IInv
<1>2. ASSUME NEW t \in Threads, Call(t) \/ Step(t) \/ SpuriousWakeup(t) PROVE IInv'
  <2>1. CASE PrecombineWait(t) \/ CombineWait(t) \/ OpWait(t) \/ SpuriousWakeup(t)
    BY <2>1, WaitSteps, KindStep
  <2> QED BY <1>2, <2>1, CallStep, PrecombineStep, CombineStep, OpRootStep, OpSecondStep,
             OpResultStep, DistributeStep, ReturnStep DEF Step
<1> QED BY <1>1, <1>2 DEF Next

\* The inductive invariant of the protocol: every thread has a path of nodes it
\* came first to, the paths are disjoint, and the state and the lock of every
\* node are those of the first and the second thread it has.
THEOREM IInvHolds == Spec => []IInv
BY InitIInv, NextIInv, PTL DEF Spec

\* None of the three switches of Node meets a state it does not expect: the
\* exceptions of precombine, combine, op and distribute are never thrown.
THEOREM NoInvalidStateHolds == Spec => []NoInvalidState
<1>1. IInv => NoInvalidState
  BY DEF IInv, TypeOK, NoInvalidState, ClimbPcs, CarryPcs, CombinePcs, WaitPcs, ResultPcs
<1> QED BY <1>1, IInvHolds, PTL

----------------------------------------------------------------------------
(* The length of a path *)

\* 2^n is the number of sets of n elements: that is all there is to know it by.
LEMMA PowerNat == \A n \in Nat : 2^n \in Nat
<1> TAKE n \in Nat
<1>1. IsFiniteSet(1 .. n) /\ Cardinality(1 .. n) = n
  BY FS_Interval
<1>2. 2^n = Cardinality(SUBSET (1 .. n)) /\ IsFiniteSet(SUBSET (1 .. n))
  BY <1>1, FS_SUBSET
<1> QED BY <1>2, FS_CardinalityType

\* One more element doubles it: each set with the new element and without.
LEMMA PowerNext == ASSUME NEW n \in Nat PROVE 2^(n + 1) = 2 * 2^n
<1> DEFINE S == SUBSET (1 .. n)
           x == n + 1
           U == {A \cup {x} : A \in S}
           f == [A \in S |-> A \cup {x}]
<1>1. IsFiniteSet(1 .. n) /\ Cardinality(1 .. n) = n /\ IsFiniteSet(1 .. x) /\ Cardinality(1 .. x) = x
  BY FS_Interval
<1>2. /\ 2^n = Cardinality(S) /\ IsFiniteSet(S)
      /\ 2^x = Cardinality(SUBSET (1 .. x))
  BY <1>1, FS_SUBSET
<1>3. x \notin 1 .. n /\ 1 .. x = (1 .. n) \cup {x}
  OBVIOUS
<1>4. \A A \in S : x \notin A
  BY <1>3
<1>5. f \in Bijection(S, U)
  <2>1. f \in [S -> U]
    OBVIOUS
  <2>2. \A A, B \in S : f[A] = f[B] => A = B
    BY <1>4
  <2>3. \A C \in U : \E A \in S : f[A] = C
    OBVIOUS
  <2> QED
    BY <2>1, <2>2, <2>3 DEF Bijection, Injection, Surjection, IsInjective
<1>6. IsFiniteSet(U) /\ Cardinality(U) = Cardinality(S)
  BY <1>2, <1>5, FS_Bijection DEF ExistsBijection
<1>7. SUBSET (1 .. x) = S \cup U
  <2>1. ASSUME NEW C \in SUBSET (1 .. x), C \notin S
        PROVE  C \in U
    <3>1. x \in C /\ C \ {x} \in S /\ C = (C \ {x}) \cup {x}
      BY <1>3, <2>1
    <3> QED BY <3>1
  <2>2. \A C \in U : C \in SUBSET (1 .. x)
    BY <1>3
  <2>3. \A C \in S : C \in SUBSET (1 .. x)
    BY <1>3
  <2> HIDE DEF S, U
  <2> QED BY <2>1, <2>2, <2>3
<1>8. S \cap U = {}
  BY <1>4
<1> HIDE DEF S, U, x
<1>9. Cardinality(S \cup U) = Cardinality(S) + Cardinality(U) - Cardinality(S \cap U)
  BY <1>2, <1>6, FS_Union
<1>10. Cardinality(S) \in Nat /\ Cardinality(S \cap U) = 0
  BY <1>2, <1>8, FS_CardinalityType, FS_EmptySet
<1> HIDE DEF f
<1>11. 2^x = Cardinality(S) + Cardinality(S)
  <2>1. 2^x = Cardinality(S \cup U)
    BY <1>2, <1>7, Zenon
  <2>2. Cardinality(U) = Cardinality(S)
    BY <1>6
  <2>3. Cardinality(S \cup U) = Cardinality(S) + Cardinality(S) - 0
    BY <2>2, <1>9, <1>10, Zenon
  <2> QED BY <1>10, <2>1, <2>3
<1>12. 2^x = 2 * 2^n
  <2>1. \A c \in Nat : c + c = 2 * c
    OBVIOUS
  <2> QED BY <1>2, <1>10, <1>11, <2>1
<1> QED
  BY <1>12 DEF x

\* A set of naturals has a least element; it stands in for induction.
LEMMA LeastNatural ==
  ASSUME NEW D \in SUBSET Nat, D # {}
  PROVE  \E m \in D : \A k \in D : m <= k
<1>1. PICK m \in D : \A k \in D : <<k, m>> \notin OpToRel(<, Nat)
  BY NatLessThanWellFounded, WFMin, Zenon
<1>2. \A k \in D : ~(k < m)
  BY <1>1, Zenon DEF OpToRel
<1> QED
  BY <1>2

LEMMA PowerZero == 2^0 = 1
<1>1. IsFiniteSet({}) /\ Cardinality({}) = 0
  BY FS_EmptySet
<1>2. SUBSET {} = {{}} /\ Cardinality({{}}) = 1
  BY FS_Singleton
<1> QED BY <1>1, <1>2, FS_SUBSET

\* A node of a path is at least twice as near to the root as the one before.
LEMMA ChainHeight ==
  ASSUME NEW t \in Threads, NEW p, Chain(p, t)
  PROVE  \A i \in Nat : i + 1 \in 1 .. Len(p) => (p[i + 1] + 1) * 2^i <= Leaf(t) + 1
<1> SUFFICES ASSUME NEW i \in Nat, i + 1 \in 1 .. Len(p),
                    ~((p[i + 1] + 1) * 2^i <= Leaf(t) + 1)
             PROVE  FALSE
  OBVIOUS
<1> DEFINE D == {j \in Nat : /\ j + 1 \in 1 .. Len(p)
                             /\ ~((p[j + 1] + 1) * 2^j <= Leaf(t) + 1)}
<1>1. PICK j \in D : \A k \in D : j <= k
  <2>1. D \in SUBSET Nat /\ i \in D
    OBVIOUS
  <2> HIDE DEF D
  <2> QED BY <2>1, LeastNatural
<1>2. p \in Seq(Nodes \ {Root}) /\ Len(p) \in Nat /\ p # <<>>
  BY EmptySeq DEF Chain
<1>3. \A k \in 1 .. Len(p) : p[k] \in Nat /\ p[k] \in Nodes \ {Root}
  <2> TAKE k \in 1 .. Len(p)
  <2>1. p[k] \in Nodes \ {Root}
    BY <1>2
  <2> QED BY <2>1, TreeShape
<1>4. j # 0
  <2>1. p[1] = Leaf(t) /\ Leaf(t) \in Nat
    BY <1>2, TreeShape DEF Chain
  <2>2. (Leaf(t) + 1) * 1 <= Leaf(t) + 1
    BY <2>1
  <2>3. ASSUME j = 0 PROVE FALSE
    <3>1. 0 + 1 = 1
      OBVIOUS
    <3>2. (p[1] + 1) * 2^0 <= Leaf(t) + 1
      BY <2>1, <2>2, PowerZero, Zenon
    <3> QED BY <1>1, <2>3, <3>1, <3>2
  <2> QED BY <2>3
<1>5. PICK k \in Nat : j = k + 1
  <2>1. j - 1 \in Nat /\ j = (j - 1) + 1
    BY <1>1, <1>4
  <2> QED BY <2>1
<1>6. j \in 1 .. Len(p) - 1 /\ j \in 1 .. Len(p) /\ j + 1 \in 1 .. Len(p)
  BY <1>1, <1>2, <1>5
<1>7. (p[j] + 1) * 2^k <= Leaf(t) + 1
  <2>1. k \notin D
    BY <1>1, <1>5
  <2> QED BY <2>1, <1>5, <1>6
<1>8. 2 * (p[j + 1] + 1) <= p[j] + 1
  <2>1. p[j + 1] = Parent(p[j])
    BY <1>6 DEF Chain
  <2>2. p[j] = 2 * Parent(p[j]) + 1 \/ p[j] = 2 * Parent(p[j]) + 2
    BY <1>3, <1>6, TreeShape
  <2>3. p[j] \in Nat /\ p[j + 1] \in Nat
    BY <1>3, <1>6
  <2> QED BY <2>1, <2>2, <2>3
<1>9. 2^j = 2 * 2^k /\ 2^k \in Nat
  BY <1>5, PowerNext, PowerNat
<1>10. \A x, y, w, l \in Nat : 2 * (x + 1) <= y + 1 /\ (y + 1) * w <= l + 1 => (x + 1) * (2 * w) <= l + 1
  <2> TAKE x, y, w, l \in Nat
  <2> HAVE 2 * (x + 1) <= y + 1 /\ (y + 1) * w <= l + 1
  <2>1. \A a, b \in Nat : a <= b => a * w <= b * w
    OBVIOUS
  <2>2. (2 * (x + 1)) * w <= (y + 1) * w
    BY <2>1
  <2>3. (x + 1) * (2 * w) = (2 * (x + 1)) * w
    OBVIOUS
  <2>4. (y + 1) * w \in Nat /\ (2 * (x + 1)) * w \in Nat
    OBVIOUS
  <2> QED BY <2>2, <2>3, <2>4
<1>11. p[j] \in Nat /\ p[j + 1] \in Nat /\ Leaf(t) \in Nat
  BY <1>3, <1>6, TreeShape
<1>12. (p[j + 1] + 1) * (2 * 2^k) <= Leaf(t) + 1
  BY <1>7, <1>8, <1>9, <1>10, <1>11
<1> QED BY <1>1, <1>9, <1>12

\* The size of the array is defined: a power of two above every number.
LEMMA MaxStackDepth ==
  max_stack_depth \in Nat /\ NUM_THREADS <= 2^max_stack_depth
<1>1. \A n \in Nat : n <= 2^n
  <2> SUFFICES ASSUME NEW n \in Nat, ~(n <= 2^n) PROVE FALSE
    OBVIOUS
  <2> DEFINE D == {m \in Nat : ~(m <= 2^m)}
  <2>1. PICK m \in D : \A k \in D : m <= k
    <3>1. D \in SUBSET Nat /\ n \in D
      OBVIOUS
    <3> HIDE DEF D
    <3> QED BY <3>1, LeastNatural
  <2>2. m # 0
    <3>1. \A z : z = 1 => 0 <= z
      OBVIOUS
    <3>2. 0 <= 2^0
      BY <3>1, PowerZero, Zenon
    <3> QED BY <2>1, <3>2
  <2>3. PICK k \in Nat : m = k + 1
    <3>1. m - 1 \in Nat /\ m = (m - 1) + 1
      BY <2>1, <2>2
    <3> QED BY <3>1
  <2>4. k <= 2^k
    BY <2>1, <2>3
  <2>5. k = 0 => m <= 2^m
    <3>1. 2^(0 + 1) = 2 * 2^0
      BY PowerNext
    <3>2. ASSUME k = 0 PROVE m <= 2^m
      <4>1. 2^m = 2 * 1
        BY <2>3, <3>1, <3>2, PowerZero
      <4> QED BY <2>3, <3>2, <4>1
    <3> QED BY <3>2
  <2>6. 2^m = 2 * 2^k /\ 2^k \in Nat
    BY <2>3, PowerNext, PowerNat
  <2>7. k # 0 => k + 1 <= 2 * 2^k
    BY <2>4, <2>6
  <2> QED BY <2>1, <2>3, <2>5, <2>6, <2>7
<1> DEFINE E == {m \in Nat : NUM_THREADS <= 2^m}
<1>2. PICK d \in E : \A k \in E : d <= k
  <2>1. E \in SUBSET Nat /\ NUM_THREADS \in E
    BY <1>1, NumThreadsAssumption
  <2> HIDE DEF E
  <2> QED BY <2>1, LeastNatural
<1>3. d \in 0 .. NUM_THREADS
  BY <1>1, <1>2, NumThreadsAssumption
<1>4. \A e \in 0 .. d - 1 : 2^e < NUM_THREADS
  <2> TAKE e \in 0 .. d - 1
  <2>1. e \in Nat /\ e < d /\ e \notin E /\ 2^e \in Nat
    BY <1>2, <1>3, PowerNat
  <2> QED BY <2>1, NumThreadsAssumption
<1>5. \E c \in 0 .. NUM_THREADS : /\ NUM_THREADS <= 2^c
                                  /\ \A e \in 0 .. c - 1 : 2^e < NUM_THREADS
  BY <1>2, <1>3, <1>4
<1>6. max_stack_depth \in 0 .. NUM_THREADS /\ NUM_THREADS <= 2^max_stack_depth
  BY <1>5 DEF max_stack_depth
<1> QED BY <1>6, NumThreadsAssumption

\* The array of a call, of ceil(log2(NUM_THREADS)) nodes, is long enough for
\* the path of every thread, whatever the number of leaves.
THEOREM StackInBoundsHolds == Spec => []StackInBounds
<1>1. ASSUME IInv, NEW t \in Threads PROVE Len(stack[t]) <= max_stack_depth
  <2>1. PICK path : TypeOK /\ Tree(path)
    BY <1>1 DEF IInv
  <2>2. PICK p : p = path[t] /\ PathOK(p, t) /\ Chain(p, t)
    BY <2>1 DEF Tree, PathOK
  <2>3. Len(stack[t]) \in Nat /\ Len(p) \in Nat /\ Len(stack[t]) <= Len(p)
    <3>1. Len(stack[t]) \in Nat /\ Len(p) \in Nat
      BY <2>1, <2>2 DEF TypeOK, Chain
    <3>2. \/ pc[t] \in CombinePcs /\ Len(stack[t]) < Len(p)
          \/ stack[t] = <<>>
          \/ stack[t] = p
      BY <2>1, <2>2 DEF PathOK, TypeOK, ClimbPcs, CarryPcs, WaitPcs, ResultPcs
    <3> QED BY <3>1, <3>2
  <2>4. PICK d \in Nat : d = max_stack_depth /\ NUM_THREADS <= 2^d
    BY MaxStackDepth
  <2> SUFFICES ASSUME ~(Len(p) <= d) PROVE FALSE
    BY <2>3, <2>4
  <2>5. d + 1 \in 1 .. Len(p)
    BY <2>3
  <2>6. (p[d + 1] + 1) * 2^d <= Leaf(t) + 1
    BY <2>2, <2>5, ChainHeight
  <2>7. p[d + 1] \in Nat /\ p[d + 1] >= 1
    <3>1. p[d + 1] \in Nodes \ {Root}
      BY <2>2, <2>5 DEF Chain
    <3>2. p[d + 1] \in Nat /\ p[d + 1] # 0
      BY <3>1, TreeShape DEF Root
    <3> QED BY <3>2
  <2>8. Leaf(t) + 1 < 2 * NUM_THREADS /\ Leaf(t) \in Nat
    BY TreeShape, NumThreadsAssumption, ThreadsAssumption DEF Leaf
  <2>9. \A x, w, n, l \in Nat : x >= 1 /\ (x + 1) * w <= l + 1 /\ n <= w => 2 * n <= l + 1
    <3> TAKE x, w, n, l \in Nat
    <3> HAVE x >= 1 /\ (x + 1) * w <= l + 1 /\ n <= w
    <3>1. \A a, b \in Nat : a <= b => a * w <= b * w
      OBVIOUS
    <3>2. 2 * w <= (x + 1) * w /\ (x + 1) * w \in Nat
      BY <3>1
    <3> QED BY <3>2
  <2>10. 2^d \in Nat
    BY PowerNat
  <2>11. 2 * NUM_THREADS <= Leaf(t) + 1
    <3>1. PICK x, w, l \in Nat : x = p[d + 1] /\ w = 2^d /\ l = Leaf(t)
      BY <2>7, <2>8, <2>10
    <3>2. (x + 1) * w <= l + 1
      BY <2>6, <3>1, Zenon
    <3>3. NUM_THREADS <= w /\ x >= 1 /\ NUM_THREADS \in Nat
      BY <2>4, <2>7, <3>1, NumThreadsAssumption
    <3> QED BY <2>9, <3>1, <3>2, <3>3
  <2> QED BY <2>8, <2>11, NumThreadsAssumption
<1>2. IInv => StackInBounds
  BY <1>1 DEF StackInBounds
<1> QED BY <1>2, IInvHolds, PTL

----------------------------------------------------------------------------
(* What the steps of a call do, as far as the values are concerned *)

LEMMA StackFacts ==
  ASSUME IInv
  PROVE  /\ \A u \in Threads : \A n \in Elems(stack[u]) :
              /\ n \in Nodes \ {Root} /\ state[n] \in {"FIRST", "SECOND"} /\ is_locked[n]
              /\ Combined(n) /\ \A w \in Threads : ~Carrying(w, n)
         /\ \A u, w \in Threads : u # w => Elems(stack[u]) \cap Elems(stack[w]) = {}
         /\ \A u \in Threads : \A i, j \in 1 .. Len(stack[u]) :
              stack[u][i] = stack[u][j] => i = j
         /\ \A u \in Threads : stack[u] \in Seq(Nodes) /\ Len(stack[u]) \in Nat
         /\ \A u \in Threads : pc[u] \in {"idle", "return"} \cup ClimbPcs => stack[u] = <<>>
<1>1. PICK path : TypeOK /\ Tree(path)
  BY DEF IInv
<1>2. \A u \in Threads : stack[u] \in Seq(Nodes) /\ Len(stack[u]) \in Nat
  BY <1>1 DEF TypeOK
<1>3. \A u \in Threads : PathOK(path[u], u) /\ Elems(stack[u]) \subseteq Elems(path[u])
  BY <1>1, StackOnPath DEF Tree
<1>4. ASSUME NEW u \in Threads, NEW n \in Elems(stack[u])
      PROVE  /\ n \in Nodes \ {Root} /\ state[n] \in {"FIRST", "SECOND"} /\ is_locked[n]
             /\ Combined(n) /\ \A w \in Threads : ~Carrying(w, n)
  <2>1. n \in Elems(path[u]) /\ Chain(path[u], u)
    BY <1>3 DEF PathOK
  <2>2. n \in Nodes \ {Root}
    BY <2>1, ChainFacts
  <2>3. NodeOK(path, n)
    BY <1>1, <2>2 DEF Tree
  <2>4. Combined(n)
    BY DEF Combined
  <2> QED BY <2>1, <2>2, <2>3, <2>4 DEF NodeOK
<1>5. \A u, w \in Threads : u # w => Elems(stack[u]) \cap Elems(stack[w]) = {}
  BY <1>1, <1>3 DEF Tree
<1>6. ASSUME NEW u \in Threads, NEW i \in 1 .. Len(stack[u]), NEW j \in 1 .. Len(stack[u]),
             stack[u][i] = stack[u][j]
      PROVE  i = j
  <2>1. PICK p : p = path[u] /\ PathOK(p, u) /\ Chain(p, u)
    BY <1>3 DEF PathOK
  <2>2. p \in Seq(Nodes \ {Root}) /\ Len(p) \in Nat
    BY <2>1 DEF Chain
  <2>3. i \in 1 .. Len(p) /\ j \in 1 .. Len(p) /\ stack[u][i] = p[i] /\ stack[u][j] = p[j]
    <3>1. CASE pc[u] \in CombinePcs
      <4>1. stack[u] = SubSeq(p, 1, Len(stack[u])) /\ Len(stack[u]) <= Len(p)
        BY <1>2, <2>1, <2>2, <3>1 DEF PathOK
      <4>2. \A k \in 1 .. Len(stack[u]) : SubSeq(p, 1, Len(stack[u]))[k] = p[k]
        BY <1>2, <2>2, <4>1, Prefix
      <4> QED BY <1>2, <2>2, <4>1, <4>2
    <3>2. CASE stack[u] = <<>>
      BY <3>2
    <3>3. CASE stack[u] = p
      BY <3>3
    <3> QED BY <1>1, <2>1, <3>1, <3>2, <3>3
        DEF PathOK, TypeOK, ClimbPcs, CarryPcs, WaitPcs, ResultPcs
  <2>4. p[i] \in Nat /\ p[j] \in Nat /\ p[i] = p[j]
    <3>1. p[i] \in Nodes \ {Root} /\ p[j] \in Nodes \ {Root}
      BY <2>2, <2>3
    <3> QED BY <1>6, <2>3, <3>1, TreeShape
  <2>5. ~(i < j) /\ ~(j < i)
    <3>1. i < j => p[j] < p[i]
      BY <2>1, <2>3, Zenon DEF Chain
    <3>2. j < i => p[i] < p[j]
      BY <2>1, <2>3, Zenon DEF Chain
    <3> QED BY <2>4, <3>1, <3>2
  <2> QED BY <2>2, <2>3, <2>5
<1>7. \A u \in Threads : pc[u] \in {"idle", "return"} \cup ClimbPcs => stack[u] = <<>>
  BY <1>3 DEF PathOK
<1> QED BY <1>2, <1>4, <1>5, <1>6, <1>7

\* No thread has combined at the node that precombine changes.
LEMMA PrecombineEffect ==
  ASSUME IInv, NEW t \in Threads, Precombine(t)
  PROVE  \E n \in Nodes :
           /\ pc[t] = "precombine" /\ Aside(t) /\ stack[t] = <<>> /\ stack'[t] = <<>>
           /\ \/ pc'[t] = "precombine" /\ combined'[t] = combined[t]
              \/ pc'[t] \in {"combine", "op"} /\ combined'[t] = 1
           /\ \A u \in Threads \ {t} : pc'[u] = pc[u]
           /\ ~Combined(n) /\ state[n] \in {"IDLE", "FIRST", "ROOT"} /\ state'[n] # "RESULT"
           /\ \A m \in Nodes \ {n} : state'[m] = state[m]
           /\ state'[n] = "SECOND" => state[n] = "FIRST"
           /\ UNCHANGED <<first, second, result, stack, before, history>>
<1>1. PICK path : TypeOK /\ Tree(path)
  BY DEF IInv
<1>2. PICK n \in Nodes : n = node[t]
  BY <1>1 DEF TypeOK
<1>3. pc[t] = "precombine" /\ ~is_locked[n] /\ state[n] \in {"IDLE", "FIRST", "ROOT"}
  BY <1>1, <1>2, NoThirdThread DEF Precombine
<1>4. ~Combined(n) /\ stack[t] = <<>>
  BY <1>3, StackFacts DEF Combined, ClimbPcs
<1>5. UNCHANGED <<first, second, result, stack, before, history>>
  BY <1>2, <1>3 DEF Precombine, StopAtNode
<1>6. ASSUME StopAtNode(t)
      PROVE  /\ Aside(t) /\ pc'[t] \in {"combine", "op"} /\ combined'[t] = 1
             /\ \A u \in Threads \ {t} : pc'[u] = pc[u]
  <2>1. Aside(t) /\ pc'[t] \in {"combine", "op"} /\ combined'[t] = 1
    BY <1>1, <1>6, Stops DEF Tree
  <2>2. \A u \in Threads \ {t} : pc'[u] = pc[u]
    BY <1>1, <1>6 DEF TypeOK, StopAtNode, Goto
  <2> QED BY <2>1, <2>2
<1>7. CASE state[n] = "IDLE"
  <2>1. /\ state' = [state EXCEPT ![n] = "FIRST"] /\ node' = [node EXCEPT ![t] = Parent(n)]
        /\ UNCHANGED <<is_locked, stop, combined, stack, before, pc>>
    BY <1>2, <1>7 DEF Precombine
  <2>2. Aside(t) /\ state'[n] = "FIRST" /\ \A m \in Nodes \ {n} : state'[m] = state[m]
    BY <1>1, <2>1 DEF TypeOK, Aside, SameKind
  <2> QED BY <1>3, <1>4, <1>5, <1>7, <2>1, <2>2
<1>8. CASE state[n] = "FIRST"
  <2>1. state' = [state EXCEPT ![n] = "SECOND"] /\ StopAtNode(t)
    BY <1>2, <1>8 DEF Precombine
  <2>2. state'[n] = "SECOND" /\ \A m \in Nodes \ {n} : state'[m] = state[m]
    BY <1>1, <2>1 DEF TypeOK
  <2> QED BY <1>3, <1>4, <1>5, <1>6, <1>8, <2>1, <2>2
<1>9. CASE state[n] = "ROOT"
  <2>1. UNCHANGED state /\ StopAtNode(t)
    BY <1>2, <1>9 DEF Precombine
  <2> QED BY <1>3, <1>4, <1>5, <1>6, <1>9, <2>1
<1> QED BY <1>3, <1>7, <1>8, <1>9

\* Call, Return and the waits leave the nodes alone.
LEMMA FieldsKept ==
  ASSUME IInv, NEW t \in Threads,
         \/ Call(t) \/ Return(t)
         \/ PrecombineWait(t) \/ CombineWait(t) \/ OpWait(t) \/ SpuriousWakeup(t)
  PROVE  /\ UNCHANGED <<fields, stack>> /\ Aside(t)
         /\ \A u \in Threads \ {t} : pc'[u] = pc[u]
<1>1. CASE Call(t)
  BY <1>1 DEF IInv, TypeOK, Call, Goto, Aside, SameKind
<1>2. CASE Return(t)
  BY <1>2 DEF IInv, TypeOK, Return, Goto, Aside, SameKind
<1>3. CASE PrecombineWait(t) \/ CombineWait(t) \/ OpWait(t) \/ SpuriousWakeup(t)
  BY <1>3, WaitSteps DEF Aside, SameKind, locals
<1> QED BY <1>1, <1>2, <1>3

----------------------------------------------------------------------------
(* The sums that are carried up *)

Amount(n) == IF state[n] = "SECOND" THEN second[n] ELSE 0

\* What t carried when it came to the node i of its stack.
Sum(t, i) == IF i = 1 THEN 1 ELSE first[stack[t][i - 1]] + Amount(stack[t][i - 1])

SumsOK(t) ==
  /\ \A i \in 1 .. Len(stack[t]) : first[stack[t][i]] = Sum(t, i)
  /\ pc[t] \in CarryPcs \cup WaitPcs => combined[t] = Sum(t, Len(stack[t]) + 1)
  /\ pc[t] \in WaitPcs => second[stop[t]] = combined[t]

Sums == \A t \in Threads : SumsOK(t)

LEMMA SumKept ==
  ASSUME IInv, NEW u \in Threads, stack'[u] = stack[u],
         \A n \in Elems(stack[u]) : first'[n] = first[n] /\ Amount(n)' = Amount(n)
  PROVE  \A i \in 1 .. Len(stack[u]) + 1 : Sum(u, i)' = Sum(u, i)
<1> TAKE i \in 1 .. Len(stack[u]) + 1
<1>1. CASE i = 1
  BY <1>1 DEF Sum
<1>2. CASE i # 1
  <2>1. Len(stack[u]) \in Nat
    BY StackFacts
  <2>2. PICK j \in 1 .. Len(stack[u]) : j = i - 1
    BY <1>2, <2>1
  <2>3. PICK n \in Elems(stack[u]) : n = stack[u][j]
    BY <2>2 DEF Elems
  <2>4. Sum(u, i) = first[n] + Amount(n)
    BY <1>2, <2>2, <2>3 DEF Sum
  <2>5. stack'[u][i - 1] = n
    BY <2>2, <2>3
  <2>6. Sum(u, i)' = first'[n] + Amount(n)'
    BY <1>2, <2>5 DEF Sum, Amount
  <2> QED BY <2>4, <2>6
<1> QED BY <1>1, <1>2

LEMMA SumsKept ==
  ASSUME IInv, NEW u \in Threads, SumsOK(u), stack'[u] = stack[u],
         \A n \in Elems(stack[u]) : first'[n] = first[n] /\ Amount(n)' = Amount(n),
         pc'[u] \in CarryPcs \cup WaitPcs =>
           pc[u] \in CarryPcs \cup WaitPcs /\ combined'[u] = combined[u],
         pc'[u] \in WaitPcs => pc[u] \in WaitPcs /\ second'[stop'[u]] = second[stop[u]]
  PROVE  SumsOK(u)'
<1>1. \A i \in 1 .. Len(stack[u]) + 1 : Sum(u, i)' = Sum(u, i)
  BY SumKept
<1>2. Len(stack[u]) \in Nat /\ Len(stack[u]) + 1 \in 1 .. Len(stack[u]) + 1
      /\ \A i \in 1 .. Len(stack[u]) : i \in 1 .. Len(stack[u]) + 1
  BY StackFacts
<1>3. \A i \in 1 .. Len(stack'[u]) : first'[stack'[u][i]] = Sum(u, i)'
  <2> TAKE i \in 1 .. Len(stack'[u])
  <2>1. stack[u][i] \in Elems(stack[u]) /\ first[stack[u][i]] = Sum(u, i)
    BY DEF Elems, SumsOK
  <2> QED BY <1>1, <1>2, <2>1
<1>4. PICK k \in Nat : k = Len(stack[u])
  BY <1>2
<1>5. pc'[u] \in CarryPcs \cup WaitPcs => combined'[u] = Sum(u, k + 1)'
  BY <1>1, <1>2, <1>4 DEF SumsOK
<1>6. pc'[u] \in WaitPcs => second'[stop'[u]] = combined'[u]
  BY DEF SumsOK
<1> QED BY <1>3, <1>4, <1>5, <1>6 DEF SumsOK

\* A step of t changes no node where another thread has combined, and none
\* where another thread waits.
LEMMA SumsAside ==
  ASSUME IInv, Sums, NEW t \in Threads, Aside(t), SumsOK(t)',
         \A u \in Threads \ {t} :
           /\ \A n \in Elems(stack[u]) : first'[n] = first[n] /\ Amount(n)' = Amount(n)
           /\ pc[u] \in WaitPcs => second'[stop[u]] = second[stop[u]]
  PROVE  Sums'
<1> SUFFICES ASSUME NEW u \in Threads \ {t} PROVE SumsOK(u)'
  BY DEF Sums
<1>1. SumsOK(u) /\ SameKind(u) /\ stack'[u] = stack[u] /\ stop'[u] = stop[u]
      /\ combined'[u] = combined[u]
  BY DEF Sums, Aside
<1>2. /\ pc'[u] \in WaitPcs => pc[u] \in WaitPcs
      /\ pc'[u] \in CarryPcs \cup WaitPcs => pc[u] \in CarryPcs \cup WaitPcs
  BY <1>1 DEF SameKind, ClimbPcs, CarryPcs, CombinePcs, WaitPcs
<1> QED BY <1>1, <1>2, SumsKept

LEMMA SumsInit == Init => Sums
<1> SUFFICES ASSUME Init, NEW t \in Threads PROVE SumsOK(t)
  BY DEF Sums
<1>1. stack[t] = <<>> /\ pc[t] = "idle"
  BY DEF Init
<1> QED BY <1>1, EmptySeq DEF SumsOK, CarryPcs, CombinePcs, WaitPcs

LEMMA SumsFields ==
  ASSUME IInv, Sums, NEW t \in Threads,
         \/ Call(t) \/ Return(t)
         \/ PrecombineWait(t) \/ CombineWait(t) \/ OpWait(t) \/ SpuriousWakeup(t)
  PROVE  Sums'
<1>1. /\ UNCHANGED <<state, first, second, stack>> /\ Aside(t)
  BY FieldsKept DEF fields
<1>2. \A n \in Nodes : Amount(n)' = Amount(n)
  BY <1>1 DEF Amount
<1>3. \A u \in Threads : Elems(stack[u]) \subseteq Nodes
  BY StackFacts
<1>4. \/ pc'[t] \in {"precombine", "idle"}
      \/ SameKind(t) /\ UNCHANGED <<stop, combined>>
  <2>1. CASE Call(t) \/ Return(t)
    BY <2>1 DEF IInv, TypeOK, Call, Return, Goto
  <2> QED BY <2>1, WaitSteps DEF locals
<1>5. SumsOK(t)'
  <2>1. /\ pc'[t] \in CarryPcs \cup WaitPcs =>
             pc[t] \in CarryPcs \cup WaitPcs /\ combined'[t] = combined[t]
        /\ pc'[t] \in WaitPcs => pc[t] \in WaitPcs /\ stop'[t] = stop[t]
    BY <1>4 DEF SameKind, ClimbPcs, CarryPcs, CombinePcs, WaitPcs
  <2> QED BY <1>1, <1>2, <1>3, <2>1, SumsKept DEF Sums
<1> QED BY <1>1, <1>2, <1>3, <1>5, SumsAside

LEMMA SumsPrecombine ==
  ASSUME IInv, Sums, NEW t \in Threads, Precombine(t)
  PROVE  Sums'
<1>1. PICK n \in Nodes :
           /\ pc[t] = "precombine" /\ Aside(t) /\ stack[t] = <<>> /\ stack'[t] = <<>>
           /\ \/ pc'[t] = "precombine" /\ combined'[t] = combined[t]
              \/ pc'[t] \in {"combine", "op"} /\ combined'[t] = 1
           /\ ~Combined(n)
           /\ \A m \in Nodes \ {n} : state'[m] = state[m]
           /\ UNCHANGED <<first, second, stack>>
  BY PrecombineEffect
<1>2. \A u \in Threads : \A m \in Elems(stack[u]) : m \in Nodes \ {n}
  BY <1>1, StackFacts DEF Combined
<1>3. \A m \in Nodes \ {n} : Amount(m)' = Amount(m)
  BY <1>1 DEF Amount
<1>4. SumsOK(t)'
  <2>1. Sum(t, 1)' = 1 /\ Len(stack'[t]) = 0
    BY <1>1, EmptySeq DEF Sum
  <2> QED BY <1>1, <2>1 DEF SumsOK, CarryPcs, CombinePcs, WaitPcs
<1> QED BY <1>1, <1>2, <1>3, <1>4, SumsAside

LEMMA SumsCombine ==
  ASSUME IInv, Sums, NEW t \in Threads, Combine(t)
  PROVE  Sums'
<1>1. PICK n \in Nodes \ {Root} :
           /\ pc[t] = "combine" /\ pc'[t] \in {"combine", "op"} /\ ~Combined(n) /\ Aside(t)
           /\ first' = [first EXCEPT ![n] = combined[t]]
           /\ combined' = [combined EXCEPT ![t] = combined[t] +
                             (IF state[n] = "SECOND" THEN second[n] ELSE 0)]
           /\ stack' = [stack EXCEPT ![t] = Append(stack[t], n)]
           /\ UNCHANGED <<state, second>>
  <2>1. PICK path : TypeOK /\ Tree(path)
    BY DEF IInv
  <2> QED BY <2>1, CombineEffect
<1>2. PICK s, k : s = stack[t] /\ k = Len(s) /\ s \in Seq(Nodes) /\ k \in Nat
  BY StackFacts
<1>3. /\ stack'[t] = Append(s, n) /\ Len(stack'[t]) = k + 1 /\ stack'[t][k + 1] = n
      /\ \A i \in 1 .. k : stack'[t][i] = s[i]
  <2>1. stack'[t] = Append(s, n)
    BY <1>1, <1>2 DEF IInv, TypeOK
  <2> QED BY <1>2, <2>1, AppendProperties
<1>4. \A u \in Threads : \A m \in Elems(stack[u]) : m \in Nodes \ {n}
  BY <1>1, StackFacts DEF Combined
<1>5. /\ first'[n] = combined[t] /\ combined'[t] = combined[t] + Amount(n)
      /\ \A m \in Nodes \ {n} : first'[m] = first[m]
      /\ \A m \in Nodes : Amount(m)' = Amount(m)
  BY <1>1 DEF IInv, TypeOK, Amount
<1>6. \A i \in 1 .. k + 1 : Sum(t, i)' = Sum(t, i)
  <2> TAKE i \in 1 .. k + 1
  <2>1. CASE i = 1
    BY <2>1 DEF Sum
  <2>2. CASE i # 1
    <3>1. PICK j \in 1 .. k : j = i - 1
      BY <1>2, <2>2
    <3>2. PICK m \in Elems(stack[t]) : m = s[j]
      BY <1>2, <3>1 DEF Elems
    <3>3. stack'[t][i - 1] = m /\ stack[t][i - 1] = m
      BY <1>2, <1>3, <3>1, <3>2
    <3>4. Sum(t, i) = first[m] + Amount(m)
      BY <2>2, <3>3 DEF Sum
    <3>5. Sum(t, i)' = first'[m] + Amount(m)'
      BY <2>2, <3>3 DEF Sum, Amount
    <3> QED BY <1>4, <1>5, <3>4, <3>5
  <2> QED BY <2>1, <2>2
<1>7. combined[t] = Sum(t, k + 1) /\ \A i \in 1 .. k : first[s[i]] = Sum(t, i)
  BY <1>1, <1>2 DEF Sums, SumsOK, CarryPcs, CombinePcs
<1>8. SumsOK(t)'
  <2>1. \A i \in 1 .. k + 1 : first'[stack'[t][i]] = Sum(t, i)'
    <3> TAKE i \in 1 .. k + 1
    <3>1. CASE i = k + 1
      BY <1>3, <1>5, <1>6, <1>7, <3>1
    <3>2. CASE i # k + 1
      <4>1. i \in 1 .. k
        BY <1>2, <3>2
      <4>2. s[i] \in Elems(stack[t])
        BY <1>2, <4>1 DEF Elems
      <4> QED BY <1>3, <1>4, <1>5, <1>6, <1>7, <4>1, <4>2
    <3> QED BY <3>1, <3>2
  <2>2. Sum(t, k + 2)' = first'[n] + Amount(n)'
    <3>1. k + 2 # 1 /\ (k + 2) - 1 = k + 1
      BY <1>2
    <3> QED BY <1>3, <3>1 DEF Sum, Amount
  <2>3. combined'[t] = Sum(t, k + 2)'
    BY <1>5, <2>2
  <2>4. (k + 1) + 1 = k + 2
    BY <1>2
  <2> QED BY <1>1, <1>3, <2>1, <2>3, <2>4 DEF SumsOK, CarryPcs, CombinePcs, WaitPcs
<1> QED BY <1>1, <1>4, <1>5, <1>8, SumsAside

LEMMA SumsOp ==
  ASSUME IInv, Sums, NEW t \in Threads, OpRoot(t) \/ OpSecond(t) \/ OpResult(t)
  PROVE  Sums'
<1>1. PICK path : TypeOK /\ Tree(path)
  BY DEF IInv
<1>2. CASE OpRoot(t)
  <2>1. /\ pc'[t] \in ResultPcs /\ Aside(t) /\ UNCHANGED <<state, first, second, stop, stack>>
    BY <1>1, <1>2, OpRootEffect
  <2>2. \A n \in Nodes : Amount(n)' = Amount(n)
    BY <2>1 DEF Amount
  <2>3. \A u \in Threads : Elems(stack[u]) \subseteq Nodes
    BY StackFacts
  <2>4. SumsOK(t)'
    <3>1. pc'[t] \notin CarryPcs \cup WaitPcs
      BY <2>1 DEF ResultPcs, CarryPcs, CombinePcs, WaitPcs
    <3> QED BY <2>1, <2>2, <2>3, <3>1, SumsKept DEF Sums
  <2> QED BY <2>1, <2>2, <2>3, <2>4, SumsAside
<1>3. CASE OpSecond(t)
  <2>1. PICK n \in Nodes \ {Root} :
           /\ stop[t] = n /\ NodeOK(path, n) /\ Carrying(t, n) /\ ~Combined(n)
           /\ pc[t] = "op" /\ pc'[t] = "op_wait" /\ Aside(t)
           /\ second' = [second EXCEPT ![n] = combined[t]]
           /\ UNCHANGED <<state, first, locals>>
    BY <1>1, <1>3, OpSecondEffect
  <2>2. \A u \in Threads : \A m \in Elems(stack[u]) : m \in Nodes \ {n}
    BY <2>1, StackFacts DEF Combined
  <2>3. /\ \A m \in Nodes \ {n} : Amount(m)' = Amount(m) /\ second'[m] = second[m]
        /\ second'[n] = combined[t]
    BY <2>1 DEF IInv, TypeOK, Amount
  <2>4. \A u \in Threads \ {t} : pc[u] \in WaitPcs => stop[u] \in Nodes \ {n}
    <3>1. \A u \in Threads \ {t} : ~Second(u, n) /\ stop[u] \in Nodes
      BY <1>1, <2>1 DEF NodeOK, Second, Carrying, TypeOK
    <3> QED BY <3>1 DEF Second
  <2>5. SumsOK(t)'
    <3>1. PICK k \in Nat : k = Len(stack[t])
      BY StackFacts
    <3>2. \A i \in 1 .. k + 1 : Sum(t, i)' = Sum(t, i)
      BY <2>1, <2>2, <2>3, <3>1, SumKept DEF locals
    <3>3. \A i \in 1 .. k : i \in 1 .. k + 1 /\ first'[stack'[t][i]] = Sum(t, i)'
      BY <2>1, <3>1, <3>2 DEF Sums, SumsOK, locals
    <3>4. combined[t] = Sum(t, k + 1) /\ k + 1 \in 1 .. k + 1
      BY <2>1, <3>1 DEF Sums, SumsOK, CarryPcs
    <3> QED BY <2>1, <2>3, <3>1, <3>2, <3>3, <3>4 DEF SumsOK, locals
  <2> QED BY <2>1, <2>2, <2>3, <2>4, <2>5, SumsAside
<1>4. CASE OpResult(t)
  <2>1. PICK n \in Nodes \ {Root} :
           /\ state[n] = "RESULT" /\ pc'[t] \in ResultPcs /\ Aside(t)
           /\ state' = [state EXCEPT ![n] = "IDLE"] /\ UNCHANGED <<first, second, stop, stack>>
    BY <1>1, <1>4, OpResultEffect
  <2>2. \A m \in Nodes : Amount(m)' = Amount(m)
    BY <2>1 DEF IInv, TypeOK, Amount
  <2>3. \A u \in Threads : Elems(stack[u]) \subseteq Nodes
    BY StackFacts
  <2>4. SumsOK(t)'
    <3>1. pc'[t] \notin CarryPcs \cup WaitPcs
      BY <2>1 DEF ResultPcs, CarryPcs, CombinePcs, WaitPcs
    <3> QED BY <2>1, <2>2, <2>3, <3>1, SumsKept DEF Sums
  <2> QED BY <2>1, <2>2, <2>3, <2>4, SumsAside
<1> QED BY <1>2, <1>3, <1>4

\* What distribute does to the stack.
LEMMA Popped ==
  ASSUME IInv, NEW t \in Threads, Distribute(t)
  PROVE  \E n \in Nodes \ {Root}, k \in Nat :
           /\ Len(stack[t]) = k + 1 /\ n = stack[t][k + 1] /\ Len(stack'[t]) = k
           /\ \A i \in 1 .. k : stack'[t][i] = stack[t][i]
           /\ Elems(stack[t]) = Elems(stack'[t]) \cup {n} /\ n \notin Elems(stack'[t])
           /\ \A u \in Threads \ {t} : n \notin Elems(stack[u])
           /\ pc[t] = "distribute" /\ pc'[t] = (IF k = 0 THEN "return" ELSE "distribute")
           /\ Aside(t)
           /\ \/ /\ state[n] = "FIRST" /\ state' = [state EXCEPT ![n] = "IDLE"] /\ UNCHANGED result
              \/ /\ state[n] = "SECOND" /\ state' = [state EXCEPT ![n] = "RESULT"]
                 /\ result' = [result EXCEPT ![n] = before[t] + first[n]]
           /\ UNCHANGED <<first, second, stop, combined, before, history>>
<1>1. PICK path : TypeOK /\ Tree(path)
  BY DEF IInv
<1>2. PICK n \in Nodes \ {Root}, q \in Seq(Nodes) :
           /\ node[t] = n /\ stack[t] = path[t] /\ NodeOK(path, n) /\ Combined(n)
           /\ stack[t] # <<>> /\ n = stack[t][Len(stack[t])]
           /\ q = SubSeq(stack[t], 1, Len(stack[t]) - 1)
           /\ q \in Seq(Nodes) /\ Elems(path[t]) = Elems(q) \cup {n} /\ n \notin Elems(q)
           /\ pc[t] = "distribute" /\ pc'[t] = (IF q = <<>> THEN "return" ELSE "distribute")
           /\ pc'[t] \in ResultPcs
           /\ Aside(t) /\ PathOK(q, t)'
           /\ stack' = [stack EXCEPT ![t] = q] /\ node' \in [Threads -> Nodes]
           /\ pc' \in [Threads -> {pc'[u] : u \in Threads}]
           /\ \/ /\ state[n] = "FIRST" /\ state' = [state EXCEPT ![n] = "IDLE"]
                 /\ is_locked' = [is_locked EXCEPT ![n] = FALSE] /\ UNCHANGED result
              \/ /\ state[n] = "SECOND" /\ state' = [state EXCEPT ![n] = "RESULT"]
                 /\ result' = [result EXCEPT ![n] = before[t] + first[n]]
                 /\ UNCHANGED is_locked
           /\ UNCHANGED <<first, second, stop, combined, before, history>>
  BY <1>1, DistributeEffect
<1>3. PICK s : s = stack[t]
  OBVIOUS
<1>4. s \in Seq(Nodes) /\ Len(s) \in Nat /\ Len(s) # 0
  BY <1>2, <1>3, StackFacts, EmptySeq
<1>5. PICK k \in Nat : Len(s) = k + 1 /\ k = Len(s) - 1
  <2>1. Len(s) - 1 \in Nat /\ Len(s) = (Len(s) - 1) + 1
    BY <1>4
  <2> QED BY <2>1
<1>6. q \in Seq(Nodes) /\ Len(q) = k /\ \A i \in 1 .. k : q[i] = s[i]
  <2>1. q = SubSeq(s, 1, k) /\ k <= Len(s)
    BY <1>2, <1>3, <1>5
  <2> QED BY <1>4, <2>1, Prefix
<1>7. stack'[t] = q
  BY <1>1, <1>2 DEF TypeOK
<1>8. q = <<>> <=> k = 0
  BY <1>6, EmptySeq
<1>9. \A u \in Threads \ {t} : n \notin Elems(stack[u])
  BY <1>2, StackFacts
<1>10. /\ Len(stack[t]) = k + 1 /\ n = stack[t][k + 1] /\ Len(stack'[t]) = k
       /\ \A i \in 1 .. k : stack'[t][i] = stack[t][i]
       /\ Elems(stack[t]) = Elems(stack'[t]) \cup {n} /\ n \notin Elems(stack'[t])
  BY <1>2, <1>3, <1>5, <1>6, <1>7
<1>11. pc'[t] = (IF k = 0 THEN "return" ELSE "distribute")
  BY <1>2, <1>8
<1> QED BY <1>2, <1>9, <1>10, <1>11

LEMMA SumsDistribute ==
  ASSUME IInv, Sums, NEW t \in Threads, Distribute(t)
  PROVE  Sums'
<1>1. PICK n \in Nodes \ {Root}, k \in Nat :
           /\ Len(stack[t]) = k + 1 /\ n = stack[t][k + 1] /\ Len(stack'[t]) = k
           /\ \A i \in 1 .. k : stack'[t][i] = stack[t][i]
           /\ Elems(stack[t]) = Elems(stack'[t]) \cup {n} /\ n \notin Elems(stack'[t])
           /\ \A u \in Threads \ {t} : n \notin Elems(stack[u])
           /\ pc[t] = "distribute" /\ pc'[t] = (IF k = 0 THEN "return" ELSE "distribute")
           /\ Aside(t)
           /\ \/ /\ state[n] = "FIRST" /\ state' = [state EXCEPT ![n] = "IDLE"] /\ UNCHANGED result
              \/ /\ state[n] = "SECOND" /\ state' = [state EXCEPT ![n] = "RESULT"]
                 /\ result' = [result EXCEPT ![n] = before[t] + first[n]]
           /\ UNCHANGED <<first, second, stop, combined, before, history>>
  BY Popped
<1>6. pc'[t] \in ResultPcs
  BY <1>1 DEF ResultPcs
<1>2. \A m \in Nodes \ {n} : Amount(m)' = Amount(m)
  BY <1>1 DEF IInv, TypeOK, Amount
<1>3. \A u \in Threads : \A m \in Elems(stack[u]) : m \in Nodes
  BY StackFacts
<1>4. SumsOK(t)'
  <2>1. ASSUME NEW i \in 1 .. k PROVE first'[stack'[t][i]] = Sum(t, i)'
    <3>1. i \in 1 .. Len(stack[t]) /\ first[stack[t][i]] = Sum(t, i)
      BY <1>1 DEF Sums, SumsOK
    <3>2. CASE i = 1
      BY <1>1, <3>1, <3>2 DEF Sum
    <3>3. CASE i # 1
      <4>1. PICK j \in 1 .. k : j = i - 1
        BY <3>3
      <4>2. PICK m : m = stack'[t][j]
        OBVIOUS
      <4>3. m \in Elems(stack'[t]) /\ m = stack[t][j]
        BY <1>1, <4>1, <4>2 DEF Elems
      <4>4. m \in Nodes \ {n}
        BY <1>1, <1>3, <4>3
      <4>5. Sum(t, i) = first[m] + Amount(m)
        BY <3>3, <4>1, <4>3 DEF Sum
      <4>6. Sum(t, i)' = first'[m] + Amount(m)'
        BY <3>3, <4>1, <4>2 DEF Sum, Amount
      <4> QED BY <1>1, <1>2, <3>1, <4>4, <4>5, <4>6
    <3> QED BY <3>2, <3>3
  <2>2. pc'[t] \notin CarryPcs \cup WaitPcs
    BY <1>1, <1>6 DEF ResultPcs, CarryPcs, CombinePcs, WaitPcs
  <2> QED BY <1>1, <2>1, <2>2 DEF SumsOK
<1>5. \A u \in Threads \ {t} : \A m \in Elems(stack[u]) : m \in Nodes \ {n}
  BY <1>1, <1>3
<1> QED BY <1>1, <1>2, <1>4, <1>5, SumsAside

LEMMA SumsNext == IInv /\ Sums /\ [Next]_vars => Sums'
<1> SUFFICES ASSUME IInv, Sums, [Next]_vars PROVE Sums'
  OBVIOUS
<1>1. CASE UNCHANGED vars
  BY <1>1 DEF vars, fields, locals, Sums, SumsOK, Sum, Amount
<1>2. ASSUME NEW t \in Threads, Call(t) \/ Step(t) \/ SpuriousWakeup(t) PROVE Sums'
  BY <1>2, SumsFields, SumsPrecombine, SumsCombine, SumsOp, SumsDistribute DEF Step
<1> QED BY <1>1, <1>2 DEF Next

\* What a thread carries up is the sum of what it found at the nodes below, and
\* the second thread of a node has left there what it carries.
THEOREM SumsHold == Spec => []Sums
BY SumsInit, SumsNext, IInvHolds, PTL DEF Spec

----------------------------------------------------------------------------
(* The values *)

\* A growing sequence of bounds cuts an interval into parts.
LEMMA Bounds ==
  ASSUME NEW k \in Nat, NEW c \in [1 .. k + 1 -> Nat], \A i \in 1 .. k : c[i] <= c[i + 1]
  PROVE  /\ \A i, j \in 1 .. k + 1 : i <= j => c[i] <= c[j]
         /\ \A x \in Nat : c[1] <= x /\ x < c[k + 1] =>
              \E i \in 1 .. k : c[i] <= x /\ x < c[i + 1]
<1>1. ASSUME NEW i \in 1 .. k + 1, NEW j \in 1 .. k + 1, i <= j, ~(c[i] <= c[j]) PROVE FALSE
  <2> DEFINE D == {m \in Nat : m \in 1 .. k + 1 /\ i <= m /\ ~(c[i] <= c[m])}
  <2>1. PICK m \in D : \A l \in D : m <= l
    <3>1. D \in SUBSET Nat /\ j \in D
      BY <1>1
    <3> HIDE DEF D
    <3> QED BY <3>1, LeastNatural
  <2>2. m # i
    BY <2>1
  <2>3. PICK l \in 1 .. k : l + 1 = m /\ i <= l
    <3>1. m - 1 \in 1 .. k /\ (m - 1) + 1 = m /\ i <= m - 1
      BY <2>1, <2>2
    <3> QED BY <3>1
  <2>4. c[i] <= c[l]
    <3>1. l \notin D
      BY <2>1, <2>3
    <3> QED BY <2>3, <3>1
  <2>5. c[l] <= c[m] /\ c[l] \in Nat /\ c[m] \in Nat /\ c[i] \in Nat
    BY <2>1, <2>3
  <2> QED BY <2>1, <2>4, <2>5
<1>2. ASSUME NEW x \in Nat, c[1] <= x, x < c[k + 1]
      PROVE  \E i \in 1 .. k : c[i] <= x /\ x < c[i + 1]
  <2> DEFINE D == {m \in Nat : m \in 1 .. k + 1 /\ x < c[m]}
  <2>1. PICK m \in D : \A l \in D : m <= l
    <3>1. D \in SUBSET Nat /\ k + 1 \in D
      BY <1>2
    <3> HIDE DEF D
    <3> QED BY <3>1, LeastNatural
  <2>2. m # 1
    <3>1. c[1] \in Nat
      OBVIOUS
    <3> QED BY <1>2, <2>1, <3>1
  <2>3. PICK l \in 1 .. k : l + 1 = m
    <3>1. m - 1 \in 1 .. k /\ (m - 1) + 1 = m
      BY <2>1, <2>2
    <3> QED BY <3>1
  <2>4. l \notin D /\ l \in 1 .. k + 1 /\ l \in Nat
    BY <2>1, <2>3
  <2>5. c[l] \in Nat
    BY <2>4
  <2> QED BY <2>1, <2>3, <2>4, <2>5
<1> QED BY <1>1, <1>2

\* The part of the second thread of n in what the first thread of n obtains.
Part(n, x) == first[n] <= x /\ x < first[n] + Amount(n)

\* The nodes of a stack share out all that a thread carries but its own value.
LEMMA Parts ==
  ASSUME IInv, Sums, NEW t \in Threads, NEW k, k = Len(stack[t])
  PROVE  /\ k \in Nat /\ Sum(t, k + 1) \in Nat \ {0}
         /\ \A x \in Nat :
              /\ \A m \in Elems(stack[t]) : Part(m, x) => 1 <= x /\ x < Sum(t, k + 1)
              /\ \A m, n \in Elems(stack[t]) : Part(m, x) /\ Part(n, x) => m = n
              /\ 1 <= x /\ x < Sum(t, k + 1) => \E m \in Elems(stack[t]) : Part(m, x)
<1> DEFINE c == [i \in 1 .. k + 1 |-> Sum(t, i)]
<1>1. PICK s : s = stack[t] /\ s \in Seq(Nodes) /\ k = Len(s) /\ k \in Nat
  BY StackFacts
<1>2. \A n \in Nodes : first[n] \in Nat /\ Amount(n) \in Nat
  BY DEF IInv, TypeOK, Amount
<1>3. \A i \in 1 .. k : s[i] \in Nodes /\ s[i] \in Elems(stack[t])
  BY <1>1 DEF Elems
<1>4. \A i \in 1 .. k : /\ first[s[i]] = Sum(t, i)
                        /\ Sum(t, i + 1) = first[s[i]] + Amount(s[i])
  <2> TAKE i \in 1 .. k
  <2>1. first[s[i]] = Sum(t, i)
    BY <1>1 DEF Sums, SumsOK
  <2>2. i + 1 # 1 /\ (i + 1) - 1 = i
    OBVIOUS
  <2>3. Sum(t, i + 1) = first[s[i]] + Amount(s[i])
    BY <1>1, <2>2 DEF Sum
  <2> QED BY <2>1, <2>3
<1>5. \A i \in 1 .. k + 1 : Sum(t, i) \in Nat
  <2> TAKE i \in 1 .. k + 1
  <2>1. CASE i = 1
    BY <2>1 DEF Sum
  <2>2. CASE i # 1
    <3>1. PICK j \in 1 .. k : j + 1 = i
      <4>1. i - 1 \in 1 .. k /\ (i - 1) + 1 = i
        BY <1>1, <2>2
      <4> QED BY <4>1
    <3>2. Sum(t, j + 1) = first[s[j]] + Amount(s[j])
      BY <1>4
    <3> QED BY <1>2, <1>3, <3>1, <3>2
  <2> QED BY <2>1, <2>2
<1>6. c \in [1 .. k + 1 -> Nat]
  BY <1>5
<1>7. \A i \in 1 .. k : c[i] = first[s[i]] /\ c[i + 1] = first[s[i]] + Amount(s[i])
  <2> TAKE i \in 1 .. k
  <2>1. i \in 1 .. k + 1 /\ i + 1 \in 1 .. k + 1
    BY <1>1
  <2> QED BY <1>4, <2>1
<1>8. c[1] = 1 /\ c[k + 1] = Sum(t, k + 1) /\ 1 \in 1 .. k + 1 /\ k + 1 \in 1 .. k + 1
  BY <1>1 DEF Sum
<1> HIDE DEF c
<1>9. \A i \in 1 .. k : c[i] <= c[i + 1]
  BY <1>2, <1>3, <1>7
<1>10. /\ \A i, j \in 1 .. k + 1 : i <= j => c[i] <= c[j]
       /\ \A x \in Nat : c[1] <= x /\ x < c[k + 1] =>
            \E i \in 1 .. k : c[i] <= x /\ x < c[i + 1]
  BY <1>1, <1>6, <1>9, Bounds
<1>11. Sum(t, k + 1) \in Nat \ {0}
  <2>1. c[1] <= c[k + 1] /\ c[k + 1] \in Nat
    BY <1>1, <1>6, <1>8, <1>10
  <2> QED BY <1>8, <2>1
<1>12. \A x \in Nat : \A i \in 1 .. k : Part(s[i], x) <=> c[i] <= x /\ x < c[i + 1]
  BY <1>7 DEF Part
<1>13. \A m \in Elems(stack[t]) : \E i \in 1 .. k : m = s[i]
  BY <1>1 DEF Elems
<1>14. ASSUME NEW x \in Nat, NEW i \in 1 .. k, c[i] <= x, x < c[i + 1]
       PROVE  /\ 1 <= x /\ x < c[k + 1]
              /\ \A j \in 1 .. k : c[j] <= x /\ x < c[j + 1] => i = j
  <2>1. i \in 1 .. k + 1 /\ i + 1 \in 1 .. k + 1 /\ 1 <= i /\ i + 1 <= k + 1
    BY <1>1
  <2>2. c[1] <= c[i] /\ c[i + 1] <= c[k + 1]
    BY <1>8, <1>10, <2>1
  <2>3. c[i] \in Nat /\ c[i + 1] \in Nat /\ c[k + 1] \in Nat
    BY <1>6, <1>8, <2>1
  <2>4. 1 <= x /\ x < c[k + 1]
    BY <1>8, <1>14, <2>2, <2>3
  <2>5. ASSUME NEW j \in 1 .. k, c[j] <= x, x < c[j + 1] PROVE i = j
    <3>1. j \in 1 .. k + 1 /\ j + 1 \in 1 .. k + 1
      BY <1>1
    <3>2. c[j] \in Nat /\ c[j + 1] \in Nat
      BY <1>6, <3>1
    <3>3. ~(i + 1 <= j)
      <4>1. i + 1 <= j => c[i + 1] <= c[j]
        BY <1>10, <2>1, <3>1
      <4> QED BY <1>14, <2>3, <2>5, <3>2, <4>1
    <3>4. ~(j + 1 <= i)
      <4>1. j + 1 <= i => c[j + 1] <= c[i]
        BY <1>10, <2>1, <3>1
      <4> QED BY <1>14, <2>3, <2>5, <3>2, <4>1
    <3> QED BY <3>3, <3>4
  <2> QED BY <2>4, <2>5
<1>15. ASSUME NEW x \in Nat
       PROVE  /\ \A m \in Elems(stack[t]) : Part(m, x) => 1 <= x /\ x < Sum(t, k + 1)
              /\ \A m, n \in Elems(stack[t]) : Part(m, x) /\ Part(n, x) => m = n
              /\ 1 <= x /\ x < Sum(t, k + 1) => \E m \in Elems(stack[t]) : Part(m, x)
  <2>1. \A m \in Elems(stack[t]) : Part(m, x) => 1 <= x /\ x < Sum(t, k + 1)
    BY <1>8, <1>12, <1>13, <1>14
  <2>2. \A m, n \in Elems(stack[t]) : Part(m, x) /\ Part(n, x) => m = n
    BY <1>12, <1>13, <1>14
  <2>3. 1 <= x /\ x < Sum(t, k + 1) => \E m \in Elems(stack[t]) : Part(m, x)
    BY <1>3, <1>8, <1>10, <1>12
  <2> QED BY <2>1, <2>2, <2>3
<1> QED BY <1>1, <1>11, <1>15

\* The value v is the result of t, belongs to the second thread of n in what t
\* is to distribute, or is promised to the second thread of n.
Owns(t, v) == pc[t] \in ResultPcs /\ before[t] = v
Share(t, n, v) == pc[t] = "distribute" /\ n \in Elems(stack[t]) /\ Part(n, v - before[t])
Promised(n, v) == state[n] = "RESULT" /\ result[n] <= v /\ v < result[n] + second[n]
Keeps(n, v) == Promised(n, v) \/ \E t \in Threads : Share(t, n, v)

\* A value below the root's is in one place, and no other value is anywhere.
OnePlace(v) ==
  /\ v \in returned => /\ \A t \in Threads : ~Owns(t, v)
                       /\ \A n \in Nodes \ {Root} : ~Keeps(n, v)
  /\ \A t, u \in Threads : Owns(t, v) /\ Owns(u, v) => t = u
  /\ \A t \in Threads, n \in Nodes \ {Root} : ~(Owns(t, v) /\ Keeps(n, v))
  /\ \A m, n \in Nodes \ {Root} : Keeps(m, v) /\ Keeps(n, v) => m = n
  /\ v < result[Root] <=> \/ v \in returned
                          \/ \E t \in Threads : Owns(t, v)
                          \/ \E n \in Nodes \ {Root} : Keeps(n, v)

Places == \A v \in Nat : OnePlace(v)

LEMMA PlaceKept ==
  ASSUME NEW v, OnePlace(v), returned' = returned, result'[Root] = result[Root],
         \A u \in Threads : Owns(u, v)' <=> Owns(u, v),
         \A n \in Nodes \ {Root} : Keeps(n, v)' <=> Keeps(n, v)
  PROVE  OnePlace(v)'
BY DEF OnePlace

\* What another thread has stays as it is.
LEMMA OwnsAside ==
  ASSUME IInv, NEW t \in Threads, Aside(t), NEW v, NEW u \in Threads \ {t},
         \A n \in Elems(stack[u]) : first'[n] = first[n] /\ Amount(n)' = Amount(n)
  PROVE  /\ Owns(u, v)' <=> Owns(u, v)
         /\ \A n : Share(u, n, v)' <=> Share(u, n, v)
<1>1. /\ pc'[u] \in ResultPcs <=> pc[u] \in ResultPcs
      /\ pc'[u] = "distribute" <=> pc[u] = "distribute"
  BY DEF Aside, SameKind, ClimbPcs, CombinePcs, WaitPcs, ResultPcs
<1>2. stack'[u] = stack[u] /\ before'[u] = before[u]
  BY DEF Aside
<1>3. \A n \in Elems(stack[u]) : Part(n, v - before[u])' <=> Part(n, v - before[u])
  BY <1>2 DEF Part
<1> QED BY <1>1, <1>2, <1>3 DEF Owns, Share

\* A step with no result taken or left.
LEMMA PlacesAside ==
  ASSUME IInv, Places, NEW t \in Threads, Aside(t),
         pc[t] \notin ResultPcs, pc'[t] \notin ResultPcs, UNCHANGED <<returned, result>>,
         \A u \in Threads \ {t} : \A n \in Elems(stack[u]) :
           first'[n] = first[n] /\ Amount(n)' = Amount(n),
         \A n \in Nodes \ {Root} :
           /\ state'[n] = "RESULT" <=> state[n] = "RESULT"
           /\ state[n] = "RESULT" => second'[n] = second[n]
  PROVE  Places'
<1> SUFFICES ASSUME NEW v \in Nat PROVE OnePlace(v)'
  BY DEF Places
<1>1. \A u \in Threads \ {t} : /\ Owns(u, v)' <=> Owns(u, v)
                               /\ \A n : Share(u, n, v)' <=> Share(u, n, v)
  BY OwnsAside
<1>2. /\ ~Owns(t, v) /\ ~Owns(t, v)'
      /\ \A n \in Nodes \ {Root} : ~Share(t, n, v) /\ ~Share(t, n, v)'
  BY DEF Owns, Share, ResultPcs
<1>3. \A n \in Nodes \ {Root} : Promised(n, v)' <=> Promised(n, v)
  BY DEF Promised
<1>4. \A n \in Nodes \ {Root} : Keeps(n, v)' <=> Keeps(n, v)
  BY <1>1, <1>2, <1>3 DEF Keeps
<1> QED BY <1>1, <1>2, <1>4, PlaceKept DEF Places

LEMMA PlacesInit == Init => Places
<1> SUFFICES ASSUME Init, NEW v \in Nat PROVE OnePlace(v)
  BY DEF Places
<1>1. \A u \in Threads : ~Owns(u, v) /\ \A n : ~Share(u, n, v)
  BY DEF Init, Owns, Share, ResultPcs
<1>2. \A n \in Nodes : ~Promised(n, v)
  BY DEF Init, Promised, State
<1>3. result[Root] = 0 /\ returned = {}
  BY TreeShape DEF Init
<1> QED BY <1>1, <1>2, <1>3 DEF OnePlace, Keeps

LEMMA PlacesQuietSteps ==
  ASSUME IInv, Places, NEW t \in Threads,
         \/ Call(t) \/ Precombine(t) \/ Combine(t) \/ OpSecond(t)
         \/ PrecombineWait(t) \/ CombineWait(t) \/ OpWait(t) \/ SpuriousWakeup(t)
  PROVE  Places'
<1>1. PICK path : TypeOK /\ Tree(path)
  BY DEF IInv
<1>2. \A u \in Threads : \A m \in Elems(stack[u]) : m \in Nodes
  BY StackFacts
<1>3. CASE \/ Call(t)
           \/ PrecombineWait(t) \/ CombineWait(t) \/ OpWait(t) \/ SpuriousWakeup(t)
  <2>1. /\ UNCHANGED <<state, first, second, result>> /\ Aside(t)
    BY <1>3, FieldsKept DEF fields
  <2>2. \A n \in Nodes : Amount(n)' = Amount(n)
    BY <2>1 DEF Amount
  <2>3. pc[t] \notin ResultPcs /\ pc'[t] \notin ResultPcs /\ UNCHANGED returned
    <3>1. CASE Call(t)
      BY <1>1, <3>1 DEF TypeOK, Call, Goto, ResultPcs
    <3>2. CASE PrecombineWait(t) \/ CombineWait(t) \/ OpWait(t) \/ SpuriousWakeup(t)
      <4>1. pc[t] \notin ResultPcs /\ UNCHANGED history
        BY <3>2 DEF PrecombineWait, CombineWait, OpWait, SpuriousWakeup, Goto, Waiting,
                    ResultPcs
      <4>2. SameKind(t)
        BY <3>2, WaitSteps
      <4> QED BY <4>1, <4>2
          DEF SameKind, ClimbPcs, CombinePcs, WaitPcs, ResultPcs, history
    <3> QED BY <1>3, <3>1, <3>2
  <2> QED BY <1>2, <2>1, <2>2, <2>3, PlacesAside
<1>4. CASE Precombine(t)
  <2>1. PICK n \in Nodes :
           /\ pc[t] = "precombine" /\ Aside(t) /\ pc'[t] \in {"precombine", "combine", "op"}
           /\ ~Combined(n) /\ state[n] # "RESULT" /\ state'[n] # "RESULT"
           /\ \A m \in Nodes \ {n} : state'[m] = state[m]
           /\ UNCHANGED <<first, second, result, returned>>
    BY <1>4, PrecombineEffect DEF history
  <2>2. \A u \in Threads : \A m \in Elems(stack[u]) : m \in Nodes \ {n}
    BY <2>1, StackFacts DEF Combined
  <2>3. \A m \in Nodes \ {n} : Amount(m)' = Amount(m)
    BY <2>1 DEF Amount
  <2>4. pc[t] \notin ResultPcs /\ pc'[t] \notin ResultPcs
    BY <2>1 DEF ResultPcs
  <2> QED BY <2>1, <2>2, <2>3, <2>4, PlacesAside
<1>5. CASE Combine(t)
  <2>1. PICK n \in Nodes \ {Root} :
           /\ pc[t] = "combine" /\ pc'[t] \in {"combine", "op"} /\ ~Combined(n) /\ Aside(t)
           /\ first' = [first EXCEPT ![n] = combined[t]]
           /\ UNCHANGED <<state, second, result, returned>>
    BY <1>1, <1>5, CombineEffect DEF history
  <2>2. \A u \in Threads : \A m \in Elems(stack[u]) : m \in Nodes \ {n}
    BY <2>1, StackFacts DEF Combined
  <2>3. \A m \in Nodes \ {n} : Amount(m)' = Amount(m) /\ first'[m] = first[m]
    BY <1>1, <2>1 DEF Amount, TypeOK
  <2>4. pc[t] \notin ResultPcs /\ pc'[t] \notin ResultPcs
    BY <2>1 DEF ResultPcs
  <2> QED BY <2>1, <2>2, <2>3, <2>4, PlacesAside
<1>6. CASE OpSecond(t)
  <2>1. PICK n \in Nodes \ {Root} :
           /\ pc[t] = "op" /\ pc'[t] = "op_wait" /\ ~Combined(n) /\ Aside(t)
           /\ state[n] = "SECOND" /\ second' = [second EXCEPT ![n] = combined[t]]
           /\ UNCHANGED <<state, first, result, returned>>
    BY <1>1, <1>6, OpSecondEffect DEF history
  <2>2. \A u \in Threads : \A m \in Elems(stack[u]) : m \in Nodes \ {n}
    BY <2>1, StackFacts DEF Combined
  <2>3. \A m \in Nodes \ {n} : Amount(m)' = Amount(m) /\ second'[m] = second[m]
    BY <1>1, <2>1 DEF Amount, TypeOK
  <2>4. pc[t] \notin ResultPcs /\ pc'[t] \notin ResultPcs
    BY <2>1 DEF ResultPcs
  <2> QED BY <2>1, <2>2, <2>3, <2>4, PlacesAside
<1> QED BY <1>3, <1>4, <1>5, <1>6

LEMMA PlacesReturn ==
  ASSUME IInv, Places, NEW t \in Threads, Return(t)
  PROVE  Places'
<1> SUFFICES ASSUME NEW v \in Nat PROVE OnePlace(v)'
  BY DEF Places
<1>1. /\ UNCHANGED <<state, first, second, result>> /\ Aside(t)
      /\ pc[t] = "return" /\ pc'[t] = "idle" /\ returned' = returned \cup {before[t]}
  BY FieldsKept DEF IInv, TypeOK, Return, Goto, fields
<1>2. \A n \in Nodes : Amount(n)' = Amount(n)
  BY <1>1 DEF Amount
<1>3. \A u \in Threads \ {t} : /\ Owns(u, v)' <=> Owns(u, v)
                               /\ \A n : Share(u, n, v)' <=> Share(u, n, v)
  <2>1. \A u \in Threads : \A m \in Elems(stack[u]) : m \in Nodes
    BY StackFacts
  <2> QED BY <1>1, <1>2, <2>1, OwnsAside
<1>4. /\ ~Owns(t, v)' /\ \A n : ~Share(t, n, v) /\ ~Share(t, n, v)'
      /\ Owns(t, v) <=> v = before[t]
  BY <1>1 DEF Owns, Share, ResultPcs
<1>5. \A n \in Nodes \ {Root} : Promised(n, v)' <=> Promised(n, v)
  BY <1>1 DEF Promised
<1>6. \A n \in Nodes \ {Root} : Keeps(n, v)' <=> Keeps(n, v)
  BY <1>3, <1>4, <1>5 DEF Keeps
<1>7. v \in returned' <=> v \in returned \/ Owns(t, v)
  BY <1>1, <1>4
<1>8. result'[Root] = result[Root] /\ OnePlace(v)
  BY <1>1 DEF Places
<1>9. \A u \in Threads : Owns(u, v)' <=> u # t /\ Owns(u, v)
  BY <1>3, <1>4
<1> QED BY <1>6, <1>7, <1>8, <1>9 DEF OnePlace

\* A thread obtains the values from b on, one for each call it carries: the
\* first is its own, and the rest belongs to the second threads on its stack.
LEMMA Obtains ==
  ASSUME IInv, Sums, NEW t \in Threads, Aside(t), NEW b \in Nat, NEW v \in Nat, OnePlace(v),
         pc[t] \notin ResultPcs, pc'[t] = AfterOp(t), before'[t] = b,
         UNCHANGED <<first, stack, returned>>,
         \A u \in Threads : \A n \in Elems(stack[u]) : Amount(n)' = Amount(n),
         NEW c \in Nat, c = Sum(t, Len(stack[t]) + 1),
         \A n \in Nodes \ {Root} : Promised(n, v)' <=> Promised(n, v) /\ ~(b <= v /\ v < b + c),
         b <= v /\ v < b + c =>
           /\ v \notin returned
           /\ \A u \in Threads : ~Owns(u, v) /\ \A n : ~Share(u, n, v),
         v < result'[Root] <=> v < result[Root] \/ (b <= v /\ v < b + c)
  PROVE  OnePlace(v)'
<1> DEFINE In == b <= v /\ v < b + c
<1>1. \A u \in Threads \ {t} : /\ Owns(u, v)' <=> Owns(u, v)
                               /\ \A n : Share(u, n, v)' <=> Share(u, n, v)
  BY OwnsAside
<1>2. ~Owns(t, v) /\ \A n : ~Share(t, n, v)
  BY DEF Owns, Share, ResultPcs
<1>3. PICK x \in Int : x = v - b
  OBVIOUS
<1>4. /\ Owns(t, v)' <=> x = 0
      /\ \A n : Share(t, n, v)' <=> n \in Elems(stack[t]) /\ Part(n, x)
  <2>1. pc'[t] \in ResultPcs /\ (pc'[t] = "distribute" <=> stack[t] # <<>>)
    BY DEF AfterOp, ResultPcs
  <2>2. stack[t] = <<>> => Elems(stack[t]) = {}
    BY EmptySeq DEF Elems
  <2>3. \A n \in Elems(stack[t]) : Part(n, v - b)' <=> Part(n, x)
    BY <1>3 DEF Part
  <2>4. Owns(t, v)' <=> x = 0
    BY <1>3, <2>1 DEF Owns
  <2>5. ASSUME NEW n PROVE Share(t, n, v)' <=> n \in Elems(stack[t]) /\ Part(n, x)
    <3>1. Share(t, n, v)' <=> /\ pc'[t] = "distribute" /\ n \in Elems(stack[t])
                              /\ Part(n, v - b)'
      BY DEF Share, Part
    <3> QED BY <2>1, <2>2, <2>3, <3>1
  <2> QED BY <2>4, <2>5
<1>5. \A n \in Elems(stack[t]) : Part(n, x) => x \in Nat
  <2> TAKE n \in Elems(stack[t])
  <2>1. first[n] \in Nat
    BY StackFacts DEF IInv, TypeOK
  <2> QED BY <1>3, <2>1 DEF Part
<1>6. /\ c \in Nat \ {0}
      /\ \A n \in Elems(stack[t]) : Part(n, x) => 1 <= x /\ x < c
      /\ \A m, n \in Elems(stack[t]) : Part(m, x) /\ Part(n, x) => m = n
      /\ 1 <= x /\ x < c => \E n \in Elems(stack[t]) : Part(n, x)
  <2>1. c \in Nat \ {0}
    BY Parts
  <2>2. CASE x \in Nat
    BY <2>1, <2>2, Parts
  <2>3. CASE x \notin Nat
    BY <1>3, <1>5, <2>1, <2>3
  <2> QED BY <2>1, <2>2, <2>3
<1>7. In <=> 0 <= x /\ x < c
  BY <1>3
<1> HIDE DEF In
<1>8. /\ Owns(t, v)' => In
      /\ \A n : Share(t, n, v)' => In /\ ~Owns(t, v)'
      /\ \A m, n : Share(t, m, v)' /\ Share(t, n, v)' => m = n
      /\ In => Owns(t, v)' \/ \E n \in Nodes \ {Root} : Share(t, n, v)'
  <2>1. Owns(t, v)' => In
    BY <1>4, <1>6, <1>7
  <2>2. \A n : Share(t, n, v)' => In /\ ~Owns(t, v)'
    BY <1>4, <1>6, <1>7
  <2>3. \A m, n : Share(t, m, v)' /\ Share(t, n, v)' => m = n
    BY <1>4, <1>6
  <2>4. In => x = 0 \/ \E n \in Elems(stack[t]) : Part(n, x)
    BY <1>3, <1>6, <1>7
  <2>5. \A n \in Elems(stack[t]) : n \in Nodes \ {Root}
    BY StackFacts
  <2> QED BY <1>4, <2>1, <2>2, <2>3, <2>4, <2>5
<1>9. \A n \in Nodes \ {Root} : Keeps(n, v)' <=> \/ Promised(n, v)'
                                                 \/ Share(t, n, v)'
                                                 \/ \E u \in Threads \ {t} : Share(u, n, v)'
  BY DEF Keeps
<1>10. \A n \in Nodes \ {Root} : Keeps(n, v) <=> \/ Promised(n, v)
                                                 \/ \E u \in Threads \ {t} : Share(u, n, v)
  BY <1>2 DEF Keeps
<1>11. \A n \in Nodes \ {Root} : Promised(n, v)' <=> Promised(n, v) /\ ~In
  BY DEF In
<1>12. In => /\ v \notin returned
             /\ \A u \in Threads : ~Owns(u, v) /\ \A n : ~Share(u, n, v)
  BY DEF In
<1>13. v < result'[Root] <=> v < result[Root] \/ In
  BY DEF In
<1>14. CASE ~In
  <2>1. ~Owns(t, v)' /\ \A n : ~Share(t, n, v)'
    BY <1>8, <1>14
  <2>2. \A n \in Nodes \ {Root} : Keeps(n, v)' <=> Keeps(n, v)
    BY <1>1, <1>9, <1>10, <1>11, <1>14, <2>1
  <2>3. \A u \in Threads : Owns(u, v)' <=> Owns(u, v)
    BY <1>1, <1>2, <2>1
  <2>4. v < result'[Root] <=> v < result[Root]
    BY <1>13, <1>14
  <2> QED BY <2>2, <2>3, <2>4 DEF OnePlace
<1>15. CASE In
  <2>1. \A n \in Nodes \ {Root} : Keeps(n, v)' <=> Share(t, n, v)'
    BY <1>1, <1>9, <1>11, <1>12, <1>15
  <2>2. \A u \in Threads \ {t} : ~Owns(u, v)'
    BY <1>1, <1>12, <1>15
  <2>3. v \notin returned' /\ v < result'[Root]
    BY <1>12, <1>13, <1>15
  <2> QED BY <1>8, <1>15, <2>1, <2>2, <2>3 DEF OnePlace
<1> QED BY <1>14, <1>15

LEMMA PlacesOpRoot ==
  ASSUME IInv, Sums, Places, NEW t \in Threads, OpRoot(t)
  PROVE  Places'
<1> SUFFICES ASSUME NEW v \in Nat PROVE OnePlace(v)'
  BY DEF Places
<1>1. PICK path : TypeOK /\ Tree(path)
  BY DEF IInv
<1>2. /\ pc[t] = "op" /\ pc'[t] = AfterOp(t) /\ before'[t] = result[Root] /\ Aside(t)
      /\ result' = [result EXCEPT ![Root] = result[Root] + combined[t]]
      /\ UNCHANGED <<state, first, second, stack, returned>>
  BY <1>1, OpRootEffect DEF history
<1>3. PICK b \in Nat : b = result[Root]
  BY <1>1, TreeShape DEF TypeOK
<1>4. PICK c \in Nat : c = combined[t] /\ c = Sum(t, Len(stack[t]) + 1)
  BY <1>1, <1>2 DEF TypeOK, Sums, SumsOK, CarryPcs
<1>5. \A n \in Nodes : Amount(n)' = Amount(n)
  BY <1>2 DEF Amount
<1>6. \A u \in Threads : \A n \in Elems(stack[u]) : n \in Nodes \ {Root}
  BY StackFacts
<1>7. OnePlace(v)
  BY DEF Places
<1>8. ASSUME b <= v /\ v < b + c
      PROVE  /\ v \notin returned
             /\ \A u \in Threads : ~Owns(u, v) /\ \A n : ~Share(u, n, v)
             /\ \A n \in Nodes \ {Root} : ~Promised(n, v)
  <2>1. ~(v < result[Root])
    BY <1>3, <1>8
  <2>2. /\ v \notin returned /\ \A u \in Threads : ~Owns(u, v)
        /\ \A n \in Nodes \ {Root} : ~Keeps(n, v)
    BY <1>7, <2>1 DEF OnePlace
  <2>3. \A u \in Threads : \A n : Share(u, n, v) => Keeps(n, v) /\ n \in Nodes \ {Root}
    BY <1>6 DEF Share, Keeps
  <2> QED BY <2>2, <2>3 DEF Keeps
<1>9. \A n \in Nodes \ {Root} : Promised(n, v)' <=> Promised(n, v)
  BY <1>1, <1>2 DEF Promised, TypeOK
<1>10. result'[Root] = b + c
  BY <1>1, <1>2, <1>3, <1>4, TreeShape DEF TypeOK
<1>11. v < result'[Root] <=> v < result[Root] \/ (b <= v /\ v < b + c)
  BY <1>3, <1>10
<1>12. pc[t] \notin ResultPcs
  BY <1>2 DEF ResultPcs
<1> QED
  BY <1>2, <1>3, <1>4, <1>5, <1>6, <1>7, <1>8, <1>9, <1>11, <1>12, Obtains

LEMMA PlacesOpResult ==
  ASSUME IInv, Sums, Places, NEW t \in Threads, OpResult(t)
  PROVE  Places'
<1> SUFFICES ASSUME NEW v \in Nat PROVE OnePlace(v)'
  BY DEF Places
<1>1. PICK path : TypeOK /\ Tree(path)
  BY DEF IInv
<1>2. PICK n \in Nodes \ {Root} :
           /\ stop[t] = n /\ state[n] = "RESULT" /\ pc[t] = "op_result" /\ pc'[t] = AfterOp(t)
           /\ Aside(t) /\ before'[t] = result[n] /\ state' = [state EXCEPT ![n] = "IDLE"]
           /\ UNCHANGED <<first, second, result, stack, returned>>
  BY <1>1, OpResultEffect DEF history
<1>3. PICK b \in Nat : b = result[n]
  BY <1>1 DEF TypeOK
<1>4. PICK c \in Nat : c = second[n] /\ c = Sum(t, Len(stack[t]) + 1)
  BY <1>1, <1>2 DEF TypeOK, Sums, SumsOK, WaitPcs
<1>5. \A m \in Nodes : Amount(m)' = Amount(m)
  BY <1>1, <1>2 DEF Amount, TypeOK
<1>6. \A u \in Threads : \A m \in Elems(stack[u]) : m \in Nodes \ {Root, n}
  BY <1>2, StackFacts
<1>7. OnePlace(v)
  BY DEF Places
<1>8. Promised(n, v) <=> b <= v /\ v < b + c
  BY <1>2, <1>3, <1>4 DEF Promised
<1>9. ASSUME b <= v /\ v < b + c
      PROVE  /\ v \notin returned /\ v < result[Root]
             /\ \A u \in Threads : ~Owns(u, v) /\ \A m : ~Share(u, m, v)
             /\ \A m \in Nodes \ {Root, n} : ~Promised(m, v)
  <2>1. Keeps(n, v)
    BY <1>8, <1>9 DEF Keeps
  <2>2. /\ v \notin returned /\ \A u \in Threads : ~Owns(u, v)
        /\ \A m \in Nodes \ {Root, n} : ~Keeps(m, v)
    BY <1>7, <2>1 DEF OnePlace
  <2>3. \A u \in Threads : \A m : Share(u, m, v) => Keeps(m, v) /\ m \in Nodes \ {Root, n}
    BY <1>6 DEF Share, Keeps
  <2>4. v < result[Root]
    BY <1>7, <2>1 DEF OnePlace
  <2> QED BY <2>2, <2>3, <2>4 DEF Keeps
<1>10. ~Promised(n, v)' /\ \A m \in Nodes \ {Root, n} : Promised(m, v)' <=> Promised(m, v)
  BY <1>1, <1>2 DEF Promised, TypeOK
<1>11. \A m \in Nodes \ {Root} :
         Promised(m, v)' <=> Promised(m, v) /\ ~(b <= v /\ v < b + c)
  BY <1>8, <1>9, <1>10
<1>12. v < result'[Root] <=> v < result[Root] \/ (b <= v /\ v < b + c)
  BY <1>2, <1>9
<1>13. pc[t] \notin ResultPcs
  BY <1>2 DEF ResultPcs
<1> QED
  BY <1>2, <1>3, <1>4, <1>5, <1>6, <1>7, <1>9, <1>11, <1>12, <1>13, Obtains

\* What belongs to the second thread is promised to it.
LEMMA PlacesDistribute ==
  ASSUME IInv, Places, NEW t \in Threads, Distribute(t)
  PROVE  Places'
<1> SUFFICES ASSUME NEW v \in Nat PROVE OnePlace(v)'
  BY DEF Places
<1>1. PICK n \in Nodes \ {Root} :
           /\ Elems(stack[t]) = Elems(stack'[t]) \cup {n} /\ n \notin Elems(stack'[t])
           /\ \A u \in Threads \ {t} : n \notin Elems(stack[u])
           /\ pc[t] = "distribute" /\ pc'[t] \in ResultPcs
           /\ pc'[t] = "return" => Elems(stack'[t]) = {}
           /\ Aside(t)
           /\ \/ /\ state[n] = "FIRST" /\ state' = [state EXCEPT ![n] = "IDLE"] /\ UNCHANGED result
              \/ /\ state[n] = "SECOND" /\ state' = [state EXCEPT ![n] = "RESULT"]
                 /\ result' = [result EXCEPT ![n] = before[t] + first[n]]
           /\ UNCHANGED <<first, second, before, returned>>
  <2>1. PICK n \in Nodes \ {Root}, k \in Nat :
           /\ Len(stack'[t]) = k
           /\ Elems(stack[t]) = Elems(stack'[t]) \cup {n} /\ n \notin Elems(stack'[t])
           /\ \A u \in Threads \ {t} : n \notin Elems(stack[u])
           /\ pc[t] = "distribute" /\ pc'[t] = (IF k = 0 THEN "return" ELSE "distribute")
           /\ Aside(t)
           /\ \/ /\ state[n] = "FIRST" /\ state' = [state EXCEPT ![n] = "IDLE"] /\ UNCHANGED result
              \/ /\ state[n] = "SECOND" /\ state' = [state EXCEPT ![n] = "RESULT"]
                 /\ result' = [result EXCEPT ![n] = before[t] + first[n]]
           /\ UNCHANGED <<first, second, before, returned>>
    BY Popped DEF history
  <2>2. pc'[t] \in ResultPcs /\ (pc'[t] = "return" => Elems(stack'[t]) = {})
    BY <2>1 DEF ResultPcs, Elems
  <2> QED BY <2>1, <2>2
<1>2. /\ \A m \in Nodes \ {n} : state'[m] = state[m] /\ Amount(m)' = Amount(m)
                                /\ result'[m] = result[m]
      /\ first[n] \in Nat /\ second[n] \in Nat
  BY <1>1 DEF IInv, TypeOK, Amount
<1>3. \A u \in Threads \ {t} : /\ Owns(u, v)' <=> Owns(u, v)
                               /\ \A m : Share(u, m, v)' <=> Share(u, m, v)
  <2>1. \A u \in Threads \ {t} : \A m \in Elems(stack[u]) : m \in Nodes \ {n}
    BY <1>1, StackFacts
  <2> QED BY <1>1, <1>2, <2>1, OwnsAside
<1>4. Owns(t, v)' <=> Owns(t, v)
  BY <1>1 DEF Owns, ResultPcs
<1>5. \A m \in Nodes \ {Root, n} : Share(t, m, v)' <=> Share(t, m, v)
  <2> TAKE m \in Nodes \ {Root, n}
  <2>1. Part(m, v - before[t])' <=> Part(m, v - before[t])
    BY <1>1, <1>2 DEF Part
  <2>2. /\ pc'[t] = "distribute" /\ m \in Elems(stack'[t]) <=> m \in Elems(stack[t])
        /\ before'[t] = before[t]
    BY <1>1 DEF ResultPcs
  <2> QED BY <1>1, <2>1, <2>2 DEF Share
<1>6. \A m \in Nodes \ {Root, n} : Promised(m, v)' <=> Promised(m, v)
  BY <1>1, <1>2 DEF Promised
<1>7. \A m \in Nodes \ {Root, n} : Keeps(m, v)' <=> Keeps(m, v)
  BY <1>3, <1>5, <1>6 DEF Keeps
<1>8. Keeps(n, v)' <=> Keeps(n, v)
  <2>1. \A u \in Threads : ~Share(u, n, v)'
    <3>1. \A u \in Threads \ {t} : ~Share(u, n, v)'
      BY <1>1, <1>3 DEF Share
    <3>2. ~Share(t, n, v)'
      BY <1>1 DEF Share
    <3> QED BY <3>1, <3>2
  <2>2. \A u \in Threads \ {t} : ~Share(u, n, v)
    BY <1>1 DEF Share
  <2>3. Keeps(n, v)' <=> Promised(n, v)'
    BY <2>1 DEF Keeps
  <2>4. ~Promised(n, v)
    BY <1>1 DEF Promised
  <2>5. Keeps(n, v) <=> Share(t, n, v)
    BY <2>2, <2>4 DEF Keeps
  <2>6. PICK b \in Nat : b = before[t]
    BY <1>1 DEF IInv, TypeOK, ResultPcs
  <2>7. Share(t, n, v) <=> b + first[n] <= v /\ v < b + first[n] + Amount(n)
    <3>1. n \in Elems(stack[t])
      BY <1>1
    <3>2. Amount(n) \in Nat
      BY <1>2 DEF Amount
    <3> QED BY <1>1, <1>2, <2>6, <3>1, <3>2 DEF Share, Part
  <2>8. CASE state[n] = "FIRST"
    <3>1. state'[n] = "IDLE" /\ Amount(n) = 0
      BY <1>1, <2>8 DEF IInv, TypeOK, Amount
    <3>2. ~Promised(n, v)'
      BY <3>1 DEF Promised
    <3>3. ~Share(t, n, v)
      BY <1>2, <2>7, <3>1
    <3> QED BY <2>3, <2>5, <3>2, <3>3
  <2>9. CASE state[n] = "SECOND"
    <3>1. /\ state'[n] = "RESULT" /\ Amount(n) = second[n] /\ result'[n] = b + first[n]
          /\ second'[n] = second[n]
      BY <1>1, <2>6, <2>9 DEF IInv, TypeOK, Amount
    <3>2. Promised(n, v)' <=> b + first[n] <= v /\ v < b + first[n] + second[n]
      BY <3>1 DEF Promised
    <3> QED BY <2>3, <2>5, <2>7, <3>1, <3>2
  <2> QED BY <1>1, <2>8, <2>9
<1>9. returned' = returned /\ result'[Root] = result[Root] /\ OnePlace(v)
  BY <1>1, <1>2, TreeShape DEF Places
<1>10. \A m \in Nodes \ {Root} : Keeps(m, v)' <=> Keeps(m, v)
  BY <1>7, <1>8
<1>11. \A u \in Threads : Owns(u, v)' <=> Owns(u, v)
  BY <1>3, <1>4
<1> QED BY <1>9, <1>10, <1>11, PlaceKept

LEMMA PlacesNext == IInv /\ Sums /\ Places /\ [Next]_vars => Places'
<1> SUFFICES ASSUME IInv, Sums, Places, [Next]_vars PROVE Places'
  OBVIOUS
<1>1. CASE UNCHANGED vars
  BY <1>1 DEF vars, fields, locals, history, Places, OnePlace, Owns, Keeps, Share, Promised,
              Part, Amount
<1>2. ASSUME NEW t \in Threads, Call(t) \/ Step(t) \/ SpuriousWakeup(t) PROVE Places'
  BY <1>2, PlacesQuietSteps, PlacesReturn, PlacesOpRoot, PlacesOpResult, PlacesDistribute
  DEF Step
<1> QED BY <1>1, <1>2 DEF Next

\* Every value below the root's has been returned, is the result of a thread, or
\* is on its way down to one, and is in one of these places only.
THEOREM PlacesHold == Spec => []Places
BY PlacesInit, PlacesNext, IInvHolds, SumsHold, PTL DEF Spec

----------------------------------------------------------------------------
(* The calls that are under way *)

\* The second thread of n has left its amount there, and the first has not
\* collected it yet.
Open(n) == state[n] = "SECOND" /\ ~Combined(n)

\* t has yet to bring to the root what it carries.
Carrier(t) == \/ pc[t] \in ClimbPcs \cup CarryPcs
              \/ pc[t] \in WaitPcs /\ Open(stop[t])

\* g is the set of threads whose calls are in what t carries.
GroupOK(g, t) ==
  /\ IF Carrier(t) THEN t \in g ELSE g = {}
  /\ pc[t] \in ClimbPcs => g = {t}
  /\ pc[t] \in CarryPcs => Cardinality(g) = combined[t]
  /\ pc[t] \in WaitPcs /\ Open(stop[t]) => Cardinality(g) = second[stop[t]]
  /\ \A u \in g \ {t} : /\ pc[u] \in WaitPcs /\ state[stop[u]] = "SECOND"
                        /\ \E h \in g : stop[u] \in Elems(stack[h])

InFlight(grp) == {u \in Threads : \E t \in Threads : u \in grp[t]}

Grouping(grp) ==
  /\ grp \in [Threads -> SUBSET Threads]
  /\ \A t \in Threads : GroupOK(grp[t], t)
  /\ \A t, u \in Threads : t # u => grp[t] \cap grp[u] = {}
  /\ started = result[Root] + Cardinality(InFlight(grp))

Groups == \E grp : Grouping(grp)

LEMMA FiniteThreads ==
  /\ IsFiniteSet(Threads)
  /\ \A S \in SUBSET Threads : IsFiniteSet(S) /\ Cardinality(S) \in Nat
<1>1. IsFiniteSet(0 .. NUM_THREADS - 1)
  BY NumThreadsAssumption, FS_Interval
<1> QED BY <1>1, ThreadsAssumption, FS_Subset, FS_CardinalityType

\* Only a thread that waits is in the group of another.
LEMMA NotMember ==
  ASSUME NEW grp, Grouping(grp), NEW t \in Threads,
         pc[t] \notin WaitPcs \/ state[stop[t]] # "SECOND"
  PROVE  \A u \in Threads \ {t} : t \notin grp[u]
BY DEF Grouping, GroupOK

\* The group of another thread stays as it is.
LEMMA GroupAside ==
  ASSUME IInv, NEW t \in Threads, Aside(t), NEW u \in Threads \ {t}, NEW g \in SUBSET Threads,
         GroupOK(g, u), t \notin g,
         \A n \in Nodes : pc[u] \in WaitPcs /\ stop[u] = n =>
           /\ Open(n)' <=> Open(n)
           /\ Open(n) => second'[n] = second[n],
         \A n \in Nodes : /\ state[n] = "SECOND"
                          /\ \E h \in Threads \ {t} : n \in Elems(stack[h])
                          => state'[n] = "SECOND"
  PROVE  GroupOK(g, u)'
<1>1. \A w \in Threads \ {t} : /\ stop'[w] = stop[w] /\ stack'[w] = stack[w]
                               /\ combined'[w] = combined[w]
                               /\ pc'[w] \in WaitPcs <=> pc[w] \in WaitPcs
                               /\ pc'[w] \in ClimbPcs <=> pc[w] \in ClimbPcs
                               /\ pc'[w] \in CarryPcs <=> pc[w] \in CarryPcs
  BY DEF Aside, SameKind, ClimbPcs, CarryPcs, CombinePcs, WaitPcs
<1>2. PICK n \in Nodes : n = stop[u]
  BY DEF IInv, TypeOK
<1>3. pc[u] \in WaitPcs => /\ Open(n)' <=> Open(n)
                           /\ Open(n) => second'[n] = second[n]
  BY <1>2
<1>4. stop'[u] = n
  BY <1>1, <1>2
<1>5. Carrier(u)' <=> Carrier(u)
  <2>1. Carrier(u)' <=> \/ pc'[u] \in ClimbPcs \cup CarryPcs
                        \/ pc'[u] \in WaitPcs /\ Open(n)'
    <3>1. Open(stop[u])' <=> Open(n)'
      BY <1>4 DEF Open, Combined
    <3> QED BY <3>1 DEF Carrier
  <2> QED BY <1>1, <1>2, <1>3, <2>1 DEF Carrier
<1>6. ASSUME NEW w \in g \ {u}
      PROVE  /\ pc'[w] \in WaitPcs /\ state'[stop'[w]] = "SECOND"
             /\ \E h \in g : stop'[w] \in Elems(stack'[h])
  <2>1. PICK h \in g : /\ pc[w] \in WaitPcs /\ state[stop[w]] = "SECOND"
                       /\ stop[w] \in Elems(stack[h])
    BY DEF GroupOK
  <2>2. w \in Threads \ {t} /\ h \in Threads \ {t}
    OBVIOUS
  <2>3. stop[w] \in Nodes
    BY <2>2 DEF IInv, TypeOK
  <2>4. state'[stop[w]] = "SECOND"
    BY <2>1, <2>2, <2>3
  <2>5. stop'[w] = stop[w] /\ stack'[h] = stack[h] /\ pc'[w] \in WaitPcs
    BY <1>1, <2>1, <2>2
  <2> QED BY <2>1, <2>4, <2>5
<1>7. pc'[u] \in WaitPcs /\ Open(n)' => Cardinality(g) = second'[n]
  BY <1>1, <1>2, <1>3 DEF GroupOK
<1>8. /\ IF Carrier(u)' THEN u \in g ELSE g = {}
      /\ pc'[u] \in ClimbPcs => g = {u}
      /\ pc'[u] \in CarryPcs => Cardinality(g) = combined'[u]
  BY <1>1, <1>5 DEF GroupOK
<1>9. pc'[u] \in WaitPcs /\ Open(stop[u])' => Cardinality(g) = second'[stop'[u]]
  BY <1>1, <1>2, <1>4, <1>7 DEF Open, Combined
<1> QED BY <1>6, <1>8, <1>9 DEF GroupOK

\* A step of t that changes no group but that of t, which becomes g.
LEMMA GroupStep ==
  ASSUME IInv, NEW grp, Grouping(grp), NEW t \in Threads, Aside(t),
         pc[t] \notin WaitPcs \/ state[stop[t]] # "SECOND",
         NEW g \in SUBSET Threads, GroupOK(g, t)',
         \A u \in Threads \ {t} : g \cap grp[u] = {},
         \A u \in Threads \ {t}, n \in Nodes : pc[u] \in WaitPcs /\ stop[u] = n =>
           /\ Open(n)' <=> Open(n)
           /\ Open(n) => second'[n] = second[n],
         \A n \in Nodes : /\ state[n] = "SECOND"
                          /\ \E h \in Threads \ {t} : n \in Elems(stack[h])
                          => state'[n] = "SECOND",
         started' = result'[Root] + Cardinality(InFlight([grp EXCEPT ![t] = g]))
  PROVE  Groups'
<1> DEFINE grp2 == [grp EXCEPT ![t] = g]
<1>1. grp2 \in [Threads -> SUBSET Threads] /\ grp2[t] = g
      /\ \A u \in Threads \ {t} : grp2[u] = grp[u]
  BY DEF Grouping
<1>2. \A u \in Threads \ {t} : GroupOK(grp[u], u)'
  <2> TAKE u \in Threads \ {t}
  <2>1. GroupOK(grp[u], u) /\ grp[u] \in SUBSET Threads
    BY DEF Grouping
  <2>2. t \notin grp[u]
    BY NotMember
  <2> QED BY <2>1, <2>2, GroupAside
<1>3. \A u \in Threads : GroupOK(grp2[u], u)'
  BY <1>1, <1>2
<1>4. \A u, w \in Threads : u # w => grp2[u] \cap grp2[w] = {}
  <2>1. \A u, w \in Threads \ {t} : u # w => grp2[u] \cap grp2[w] = {}
    BY <1>1 DEF Grouping
  <2>2. \A u \in Threads \ {t} : grp2[t] \cap grp2[u] = {}
    BY <1>1
  <2> HIDE DEF grp2
  <2> QED BY <2>1, <2>2
<1>5. started' = result'[Root] + Cardinality(InFlight(grp2))
  OBVIOUS
<1>6. InFlight(grp2)' = InFlight(grp2)
  BY DEF InFlight
<1> HIDE DEF grp2
<1>7. Grouping(grp2)'
  BY <1>1, <1>3, <1>4, <1>5, <1>6 DEF Grouping, InFlight
<1> QED BY <1>7 DEF Groups

LEMMA WaitNode ==
  ASSUME IInv
  PROVE  /\ ~Open(Root)
         /\ \A u \in Threads, n \in Nodes \ {Root} :
              pc[u] \in WaitPcs /\ stop[u] = n => state[n] \in {"SECOND", "RESULT"}
<1>1. PICK path : TypeOK /\ Tree(path)
  BY DEF IInv
<1>2. ~Open(Root)
  BY <1>1 DEF Tree, Open
<1>3. ASSUME NEW u \in Threads, NEW n \in Nodes \ {Root}, pc[u] \in WaitPcs, stop[u] = n
      PROVE  state[n] \in {"SECOND", "RESULT"}
  <2>1. Second(u, n) /\ NodeOK(path, n)
    BY <1>1, <1>3 DEF Second, Tree
  <2> QED BY <2>1 DEF NodeOK
<1> QED BY <1>2, <1>3

LEMMA GroupsInit == Init => Groups
<1> SUFFICES ASSUME Init PROVE Groups
  OBVIOUS
<1> DEFINE grp == [t \in Threads |-> {}]
<1>1. \A t \in Threads : GroupOK({}, t)
  BY DEF Init, GroupOK, Carrier, ClimbPcs, CarryPcs, CombinePcs, WaitPcs
<1>2. InFlight(grp) = {} /\ Cardinality({}) = 0
  BY FS_EmptySet DEF InFlight
<1>3. started = 0 /\ result[Root] = 0
  BY TreeShape DEF Init
<1>4. Grouping(grp)
  BY <1>1, <1>2, <1>3 DEF Grouping
<1> QED BY <1>4 DEF Groups

LEMMA GroupsWaits ==
  ASSUME IInv, Groups, UNCHANGED <<fields, locals, history>>, \A u \in Threads : SameKind(u)
  PROVE  Groups'
<1>1. PICK grp : Grouping(grp)
  BY DEF Groups
<1>2. UNCHANGED <<state, second, result, stop, combined, stack, started>>
  BY DEF fields, locals, history
<1>3. \A u \in Threads : /\ pc'[u] \in WaitPcs <=> pc[u] \in WaitPcs
                         /\ pc'[u] \in ClimbPcs <=> pc[u] \in ClimbPcs
                         /\ pc'[u] \in CarryPcs <=> pc[u] \in CarryPcs
  BY DEF SameKind, ClimbPcs, CarryPcs, CombinePcs, WaitPcs
<1>4. \A n : Open(n)' <=> Open(n)
  BY <1>2 DEF Open, Combined
<1>5. \A u \in Threads : Carrier(u)' <=> Carrier(u)
  BY <1>2, <1>3, <1>4 DEF Carrier, Open, Combined
<1>6. \A u \in Threads : GroupOK(grp[u], u)'
  <2> TAKE u \in Threads
  <2>1. GroupOK(grp[u], u) /\ grp[u] \in SUBSET Threads
    BY <1>1 DEF Grouping
  <2>2. Open(stop[u])' <=> Open(stop[u])
    BY <1>2 DEF Open, Combined
  <2>3. \A w \in grp[u] \ {u} : /\ pc'[w] \in WaitPcs /\ state'[stop'[w]] = "SECOND"
                                /\ \E h \in grp[u] : stop'[w] \in Elems(stack'[h])
    BY <1>2, <1>3, <2>1 DEF GroupOK
  <2>4. /\ IF Carrier(u)' THEN u \in grp[u] ELSE grp[u] = {}
        /\ pc'[u] \in ClimbPcs => grp[u] = {u}
        /\ pc'[u] \in CarryPcs => Cardinality(grp[u]) = combined'[u]
        /\ pc'[u] \in WaitPcs /\ Open(stop[u])' => Cardinality(grp[u]) = second'[stop'[u]]
    BY <1>2, <1>3, <1>5, <2>1, <2>2 DEF GroupOK
  <2> QED BY <2>3, <2>4 DEF GroupOK
<1>7. Grouping(grp)'
  BY <1>1, <1>2, <1>6 DEF Grouping, InFlight
<1> QED BY <1>7 DEF Groups

LEMMA GroupsCall ==
  ASSUME IInv, Groups, NEW t \in Threads, Call(t)
  PROVE  Groups'
<1>1. PICK grp : Grouping(grp)
  BY DEF Groups
<1>2. /\ UNCHANGED <<state, second, result, stack>> /\ Aside(t)
      /\ pc[t] = "idle" /\ pc'[t] = "precombine" /\ started' = started + 1
  BY FieldsKept DEF IInv, TypeOK, Call, Goto, fields
<1>3. grp[t] = {} /\ \A u \in Threads \ {t} : t \notin grp[u]
  <2>1. ~Carrier(t) /\ GroupOK(grp[t], t)
    BY <1>1, <1>2 DEF Grouping, Carrier, ClimbPcs, CarryPcs, CombinePcs, WaitPcs
  <2>2. pc[t] \notin WaitPcs
    BY <1>2 DEF WaitPcs
  <2> QED BY <1>1, <2>1, <2>2, NotMember DEF GroupOK
<1>4. GroupOK({t}, t)'
  BY <1>2 DEF GroupOK, Carrier, ClimbPcs, CarryPcs, CombinePcs, WaitPcs
<1> DEFINE S == InFlight(grp)
           T == InFlight([grp EXCEPT ![t] = {t}])
<1>5. T = S \cup {t} /\ t \notin S /\ S \in SUBSET Threads
  <2>1. [grp EXCEPT ![t] = {t}][t] = {t}
        /\ \A u \in Threads \ {t} : [grp EXCEPT ![t] = {t}][u] = grp[u]
    BY <1>1 DEF Grouping
  <2> QED BY <1>3, <2>1 DEF InFlight
<1> HIDE DEF S, T
<1>6. IsFiniteSet(S) /\ Cardinality(S) \in Nat /\ Cardinality(T) = Cardinality(S) + 1
  BY <1>5, FiniteThreads, FS_AddElement
<1>7. started' = result'[Root] + Cardinality(T)
  <2>1. started = result[Root] + Cardinality(S) /\ result[Root] \in Nat
    BY <1>1, TreeShape DEF Grouping, S, IInv, TypeOK
  <2> QED BY <1>2, <1>6, <2>1
<1>8. \A n \in Nodes : Open(n)' <=> Open(n)
  BY <1>2 DEF Open, Combined
<1>9. pc[t] \notin WaitPcs
  BY <1>2 DEF WaitPcs
<1>10. \A u \in Threads \ {t} : {t} \cap grp[u] = {}
  BY <1>3
<1> QED BY <1>1, <1>2, <1>4, <1>7, <1>8, <1>9, <1>10, GroupStep DEF T

\* The group of t stays the same set.
LEMMA GroupSame ==
  ASSUME NEW grp, Grouping(grp), NEW t \in Threads, started' = started,
         result'[Root] = result[Root]
  PROVE  /\ grp[t] \in SUBSET Threads /\ GroupOK(grp[t], t)
         /\ \A u \in Threads \ {t} : grp[t] \cap grp[u] = {}
         /\ started' = result'[Root] + Cardinality(InFlight([grp EXCEPT ![t] = grp[t]]))
<1>1. [grp EXCEPT ![t] = grp[t]] = grp
  BY DEF Grouping
<1> QED BY <1>1 DEF Grouping

LEMMA GroupsPrecombine ==
  ASSUME IInv, IInv', Groups, NEW t \in Threads, Precombine(t)
  PROVE  Groups'
<1>1. PICK grp : Grouping(grp)
  BY DEF Groups
<1>2. PICK n \in Nodes :
           /\ pc[t] = "precombine" /\ Aside(t)
           /\ \/ pc'[t] = "precombine" /\ combined'[t] = combined[t]
              \/ pc'[t] \in {"combine", "op"} /\ combined'[t] = 1
           /\ ~Combined(n) /\ state[n] \in {"IDLE", "FIRST", "ROOT"}
           /\ \A m \in Nodes \ {n} : state'[m] = state[m]
           /\ UNCHANGED <<second, result, stack, started>>
  BY PrecombineEffect DEF history
<1>3. /\ grp[t] \in SUBSET Threads /\ GroupOK(grp[t], t)
      /\ \A u \in Threads \ {t} : grp[t] \cap grp[u] = {}
      /\ started' = result'[Root] + Cardinality(InFlight([grp EXCEPT ![t] = grp[t]]))
  BY <1>1, <1>2, GroupSame
<1>4. grp[t] = {t} /\ Cardinality({t}) = 1
  BY <1>2, <1>3, FS_Singleton DEF GroupOK, ClimbPcs
<1>5. GroupOK(grp[t], t)'
  <2>1. GroupOK({t}, t)'
    BY <1>2, <1>4 DEF GroupOK, Carrier, ClimbPcs, CarryPcs, CombinePcs, WaitPcs
  <2> QED BY <1>4, <2>1
<1>6. ASSUME NEW u \in Threads \ {t}, NEW m \in Nodes, pc[u] \in WaitPcs, stop[u] = m
      PROVE  Open(m)' <=> Open(m)
  <2>1. CASE m = Root
    <3>1. state[Root] = "ROOT" /\ state'[Root] = "ROOT"
      BY DEF IInv, Tree
    <3> QED BY <2>1, <3>1 DEF Open
  <2>2. CASE m # Root
    <3>1. state[m] \in {"SECOND", "RESULT"}
      BY <1>6, <2>2, WaitNode
    <3>2. m # n
      BY <1>2, <3>1
    <3> QED BY <1>2, <3>2 DEF Open, Combined
  <2> QED BY <2>1, <2>2
<1>7. \A m \in Nodes : /\ state[m] = "SECOND"
                       /\ \E h \in Threads \ {t} : m \in Elems(stack[h])
                       => state'[m] = "SECOND"
  BY <1>2
<1>8. pc[t] \notin WaitPcs
  BY <1>2 DEF WaitPcs
<1> QED BY <1>1, <1>2, <1>3, <1>5, <1>6, <1>7, <1>8, GroupStep

\* The first thread of a node takes over the group of the second.
LEMMA GroupsCombine ==
  ASSUME IInv, Groups, NEW t \in Threads, Combine(t)
  PROVE  Groups'
<1>1. PICK grp : Grouping(grp)
  BY DEF Groups
<1>2. PICK path : TypeOK /\ Tree(path)
  BY DEF IInv
<1>3. PICK n \in Nodes \ {Root} :
           /\ NodeOK(path, n) /\ pc[t] = "combine" /\ pc'[t] \in {"combine", "op"}
           /\ ~is_locked[n] /\ ~Combined(n) /\ state[n] \in {"FIRST", "SECOND"} /\ Aside(t)
           /\ combined' = [combined EXCEPT ![t] = combined[t] +
                             (IF state[n] = "SECOND" THEN second[n] ELSE 0)]
           /\ stack' = [stack EXCEPT ![t] = Append(stack[t], n)]
           /\ UNCHANGED <<state, second, result, started>>
  BY <1>2, CombineEffect DEF history
<1>4. /\ Elems(stack'[t]) = Elems(stack[t]) \cup {n}
      /\ \A u \in Threads \ {t} : stack'[u] = stack[u]
  <2>1. PICK s, k : s = stack[t] /\ k = Len(s) /\ s \in Seq(Nodes) /\ k \in Nat
    BY StackFacts
  <2>2. stack'[t] = Append(s, n) /\ \A u \in Threads \ {t} : stack'[u] = stack[u]
    BY <1>2, <1>3, <2>1 DEF TypeOK
  <2>3. /\ Len(Append(s, n)) = k + 1 /\ Append(s, n)[k + 1] = n
        /\ \A i \in 1 .. k : Append(s, n)[i] = s[i]
    BY <2>1, AppendProperties
  <2>4. 1 .. k + 1 = (1 .. k) \cup {k + 1}
    BY <2>1
  <2>5. Elems(Append(s, n)) = Elems(s) \cup {n}
    BY <2>1, <2>3, <2>4 DEF Elems
  <2> QED BY <2>1, <2>2, <2>5
<1>5. \A m \in Nodes \ {n} : Combined(m)' <=> Combined(m)
  BY <1>4 DEF Combined
<1>6. Combined(n)' /\ \A m \in Nodes \ {n} : Open(m)' <=> Open(m)
  BY <1>3, <1>4, <1>5 DEF Combined, Open
<1>7. pc[t] \notin WaitPcs /\ pc[t] \in CarryPcs /\ pc'[t] \in CarryPcs
      /\ pc'[t] \notin ClimbPcs \cup WaitPcs
  BY <1>3 DEF ClimbPcs, CarryPcs, CombinePcs, WaitPcs
<1>8. GroupOK(grp[t], t) /\ grp[t] \in SUBSET Threads /\ t \in grp[t]
  BY <1>1, <1>7 DEF Grouping, GroupOK, Carrier
<1>9. \A u \in Threads \ {t} : t \notin grp[u]
  BY <1>1, <1>7, NotMember
<1>10. \A u \in Threads \ {t} : /\ pc'[u] \in WaitPcs <=> pc[u] \in WaitPcs
                                /\ stop'[u] = stop[u] /\ stop[u] \in Nodes
  BY <1>2, <1>3 DEF Aside, SameKind, ClimbPcs, CarryPcs, CombinePcs, WaitPcs, TypeOK
<1>11. CASE state[n] = "FIRST"
  <2>1. combined'[t] = combined[t]
    BY <1>2, <1>3, <1>11 DEF TypeOK
  <2>2. \A u \in grp[t] \ {t} : /\ pc'[u] \in WaitPcs /\ state'[stop'[u]] = "SECOND"
                                /\ \E h \in grp[t] : stop'[u] \in Elems(stack'[h])
    BY <1>3, <1>4, <1>8, <1>10 DEF GroupOK
  <2>3. GroupOK(grp[t], t)'
    BY <1>7, <1>8, <2>1, <2>2 DEF GroupOK, Carrier
  <2>4. \A u \in Threads \ {t}, m \in Nodes : pc[u] \in WaitPcs /\ stop[u] = m =>
          Open(m)' <=> Open(m)
    BY <1>3, <1>6, <1>11 DEF Open
  <2>5. /\ \A u \in Threads \ {t} : grp[t] \cap grp[u] = {}
        /\ started' = result'[Root] + Cardinality(InFlight([grp EXCEPT ![t] = grp[t]]))
    BY <1>1, <1>3, GroupSame
  <2> QED BY <1>1, <1>3, <1>7, <1>8, <2>3, <2>4, <2>5, GroupStep
<1>12. CASE state[n] = "SECOND"
  <2>1. PICK s \in Threads : Second(s, n)
    BY <1>3, <1>12 DEF NodeOK
  <2>2. /\ s # t /\ pc[s] \in WaitPcs /\ stop[s] = n
        /\ \A u \in Threads : Second(u, n) => u = s
    <3>1. \A u \in Threads : ~Carrying(u, n)
      BY <1>3 DEF NodeOK
    <3>2. pc[s] \in WaitPcs /\ stop[s] = n
      BY <2>1, <3>1 DEF Second, Carrying
    <3> QED BY <1>3, <1>7, <2>1, <3>2 DEF NodeOK
  <2>3. /\ GroupOK(grp[s], s) /\ grp[s] \in SUBSET Threads /\ s \in grp[s]
        /\ Cardinality(grp[s]) = second[n] /\ grp[t] \cap grp[s] = {}
    <3>1. Open(stop[s])
      BY <1>3, <1>12, <2>2 DEF Open
    <3> QED BY <1>1, <2>2, <3>1 DEF Grouping, GroupOK, Carrier
  <2>4. PICK g \in SUBSET Threads : g = grp[t] \cup grp[s]
    BY <1>8, <2>3
  <2>5. Cardinality(g) = combined[t] + second[n]
    <3>1. /\ IsFiniteSet(grp[t]) /\ IsFiniteSet(grp[s])
          /\ Cardinality(grp[t]) \in Nat /\ Cardinality(grp[s]) \in Nat
      BY <1>8, <2>3, FiniteThreads
    <3>2. Cardinality(g) = Cardinality(grp[t]) + Cardinality(grp[s]) - Cardinality({})
      BY <2>3, <2>4, <3>1, FS_Union
    <3>3. Cardinality({}) = 0
      BY FS_EmptySet
    <3>4. Cardinality(grp[t]) = combined[t] /\ Cardinality(grp[s]) = second[n]
      BY <1>7, <1>8, <2>3 DEF GroupOK
    <3> QED BY <3>1, <3>2, <3>3, <3>4
  <2>6. combined'[t] = combined[t] + second[n]
    BY <1>2, <1>3, <1>12 DEF TypeOK
  <2>7. \A u \in g \ {t} : /\ pc'[u] \in WaitPcs /\ state'[stop'[u]] = "SECOND"
                           /\ \E h \in g : stop'[u] \in Elems(stack'[h])
    <3> TAKE u \in g \ {t}
    <3>1. \A h \in g : Elems(stack[h]) \subseteq Elems(stack'[h])
      BY <1>4
    <3>2. /\ pc[u] \in WaitPcs /\ state[stop[u]] = "SECOND"
          /\ stop[u] = n \/ \E h \in g : stop[u] \in Elems(stack[h])
      <4>1. CASE u \in grp[t]
        BY <1>8, <2>4, <4>1 DEF GroupOK
      <4>2. CASE u = s
        BY <1>12, <2>2, <4>2
      <4>3. CASE u \in grp[s] /\ u # s
        BY <2>3, <2>4, <4>3 DEF GroupOK
      <4> QED BY <2>4, <4>1, <4>2, <4>3
    <3>3. n \in Elems(stack'[t]) /\ t \in g
      BY <1>4, <1>8, <2>4
    <3>4. pc'[u] \in WaitPcs /\ stop'[u] = stop[u] /\ state' = state
      BY <1>3, <1>10, <3>2
    <3> QED BY <3>1, <3>2, <3>3, <3>4
  <2>8. GroupOK(g, t)'
    BY <1>7, <1>8, <2>4, <2>5, <2>6, <2>7 DEF GroupOK, Carrier
  <2>9. GroupOK({}, s)'
    <3>1. pc'[s] \in WaitPcs /\ stop'[s] = n /\ pc'[s] \notin ClimbPcs \cup CarryPcs
      BY <1>10, <2>2 DEF ClimbPcs, CarryPcs, CombinePcs, WaitPcs
    <3>2. ~Open(n)'
      BY <1>6 DEF Open
    <3>3. ~Open(stop[s])'
      BY <3>1, <3>2 DEF Open, Combined
    <3>4. ~Carrier(s)'
      BY <3>1, <3>3 DEF Carrier
    <3> QED BY <3>1, <3>3, <3>4 DEF GroupOK
  <2>10. ASSUME NEW u \in Threads \ {t, s} PROVE GroupOK(grp[u], u)'
    <3>1. GroupOK(grp[u], u) /\ grp[u] \in SUBSET Threads /\ t \notin grp[u]
      BY <1>1, <1>9 DEF Grouping
    <3>2. \A m \in Nodes : pc[u] \in WaitPcs /\ stop[u] = m => m # n
      BY <2>2 DEF Second
    <3>3. \A m \in Nodes : pc[u] \in WaitPcs /\ stop[u] = m =>
            /\ Open(m)' <=> Open(m)
            /\ Open(m) => second'[m] = second[m]
      BY <1>3, <1>6, <3>2
    <3> QED BY <1>3, <3>1, <3>3, GroupAside
  <2> DEFINE grp2 == [u \in Threads |-> IF u = t THEN g ELSE IF u = s THEN {} ELSE grp[u]]
  <2>11. \A u \in Threads : GroupOK(grp2[u], u)'
    BY <2>2, <2>8, <2>9, <2>10
  <2>12. \A u, w \in Threads : u # w => grp2[u] \cap grp2[w] = {}
    BY <1>1, <2>4 DEF Grouping
  <2>13. InFlight(grp2) = InFlight(grp) /\ grp2 \in [Threads -> SUBSET Threads]
    <3>1. \A u \in Threads : (\E w \in Threads : u \in grp2[w]) <=> \E w \in Threads : u \in grp[w]
      BY <2>2, <2>4
    <3>2. grp2 \in [Threads -> SUBSET Threads]
      BY <1>1 DEF Grouping
    <3> HIDE DEF grp2
    <3> QED BY <3>1, <3>2 DEF InFlight
  <2> HIDE DEF grp2
  <2>14. Grouping(grp2)'
    <3>1. InFlight(grp2)' = InFlight(grp2)
      BY DEF InFlight
    <3>2. started' = result'[Root] + Cardinality(InFlight(grp2))
      BY <1>1, <1>3, <2>13 DEF Grouping
    <3> QED BY <2>11, <2>12, <2>13, <3>1, <3>2 DEF Grouping
  <2> QED BY <2>14 DEF Groups
<1> QED BY <1>3, <1>11, <1>12

\* A group that reaches the root is counted there.
LEMMA GroupsOpRoot ==
  ASSUME IInv, Groups, NEW t \in Threads, OpRoot(t)
  PROVE  Groups'
<1>1. PICK grp : Grouping(grp)
  BY DEF Groups
<1>2. PICK path : TypeOK /\ Tree(path)
  BY DEF IInv
<1>3. /\ pc[t] = "op" /\ pc'[t] \in ResultPcs /\ Aside(t)
      /\ result' = [result EXCEPT ![Root] = result[Root] + combined[t]]
      /\ UNCHANGED <<state, second, stack, started>>
  BY <1>2, OpRootEffect DEF history
<1>4. GroupOK({}, t)'
  <2>1. pc'[t] \notin ClimbPcs \cup CarryPcs \cup WaitPcs
    BY <1>3 DEF ResultPcs, ClimbPcs, CarryPcs, CombinePcs, WaitPcs
  <2> QED BY <2>1 DEF GroupOK, Carrier
<1> DEFINE S == InFlight(grp)
           T == InFlight([grp EXCEPT ![t] = {}])
<1>5. S = T \cup grp[t] /\ T \cap grp[t] = {} /\ T \in SUBSET Threads
      /\ grp[t] \in SUBSET Threads
  <2>1. [grp EXCEPT ![t] = {}][t] = {}
        /\ \A u \in Threads \ {t} : [grp EXCEPT ![t] = {}][u] = grp[u]
    BY <1>1 DEF Grouping
  <2>2. \A u \in Threads \ {t} : grp[u] \cap grp[t] = {}
    BY <1>1 DEF Grouping
  <2>3. grp[t] \in SUBSET Threads
    BY <1>1 DEF Grouping
  <2> QED BY <2>1, <2>2, <2>3 DEF InFlight
<1> HIDE DEF S, T
<1>6. Cardinality(S) = Cardinality(T) + Cardinality(grp[t]) /\ Cardinality(T) \in Nat
  <2>1. /\ IsFiniteSet(T) /\ IsFiniteSet(grp[t])
        /\ Cardinality(T) \in Nat /\ Cardinality(grp[t]) \in Nat
    BY <1>5, FiniteThreads
  <2>2. Cardinality(S) = Cardinality(T) + Cardinality(grp[t]) - Cardinality({})
    BY <1>5, <2>1, FS_Union
  <2>3. Cardinality({}) = 0
    BY FS_EmptySet
  <2> QED BY <2>1, <2>2, <2>3
<1>7. Cardinality(grp[t]) = combined[t] /\ combined[t] \in Nat /\ result[Root] \in Nat
  <2>1. Cardinality(grp[t]) = combined[t]
    BY <1>1, <1>3 DEF Grouping, GroupOK, CarryPcs
  <2> QED BY <1>2, <2>1, TreeShape DEF TypeOK
<1>8. started' = result'[Root] + Cardinality(T)
  <2>1. started = result[Root] + Cardinality(S)
    BY <1>1 DEF Grouping, S
  <2>2. result'[Root] = result[Root] + combined[t]
    BY <1>2, <1>3, TreeShape DEF TypeOK
  <2> QED BY <1>3, <1>6, <1>7, <2>1, <2>2
<1>9. \A n \in Nodes : Open(n)' <=> Open(n)
  BY <1>3 DEF Open, Combined
<1>10. pc[t] \notin WaitPcs
  BY <1>3 DEF WaitPcs
<1> QED BY <1>1, <1>3, <1>4, <1>8, <1>9, <1>10, GroupStep DEF T

LEMMA GroupsOpSecond ==
  ASSUME IInv, Groups, NEW t \in Threads, OpSecond(t)
  PROVE  Groups'
<1>1. PICK grp : Grouping(grp)
  BY DEF Groups
<1>2. PICK path : TypeOK /\ Tree(path)
  BY DEF IInv
<1>3. PICK n \in Nodes \ {Root} :
           /\ stop[t] = n /\ NodeOK(path, n) /\ Carrying(t, n) /\ ~Combined(n)
           /\ state[n] = "SECOND" /\ pc[t] = "op" /\ pc'[t] = "op_wait" /\ Aside(t)
           /\ second' = [second EXCEPT ![n] = combined[t]]
           /\ UNCHANGED <<state, result, stop, stack, started>>
  BY <1>2, OpSecondEffect DEF locals, history
<1>4. /\ grp[t] \in SUBSET Threads /\ GroupOK(grp[t], t)
      /\ \A u \in Threads \ {t} : grp[t] \cap grp[u] = {}
      /\ started' = result'[Root] + Cardinality(InFlight([grp EXCEPT ![t] = grp[t]]))
  BY <1>1, <1>3, GroupSame
<1>5. \A m : Open(m)' <=> Open(m)
  BY <1>3 DEF Open, Combined
<1>6. /\ pc[t] \notin WaitPcs /\ pc[t] \in CarryPcs /\ pc'[t] \in WaitPcs
      /\ pc'[t] \notin ClimbPcs \cup CarryPcs
  BY <1>3 DEF ClimbPcs, CarryPcs, CombinePcs, WaitPcs
<1>7. \A u \in Threads \ {t} : /\ pc'[u] \in WaitPcs <=> pc[u] \in WaitPcs
                               /\ stop[u] = n => ~(pc[u] \in WaitPcs)
  <2>1. Second(t, n)
    BY <1>3 DEF Second, Carrying
  <2>2. \A u \in Threads \ {t} : ~Second(u, n)
    BY <1>3, <2>1 DEF NodeOK
  <2> QED BY <1>3, <2>2
      DEF Second, Aside, SameKind, ClimbPcs, CarryPcs, CombinePcs, WaitPcs
<1>8. GroupOK(grp[t], t)'
  <2>1. second'[n] = combined[t] /\ stop'[t] = n
    BY <1>2, <1>3 DEF TypeOK
  <2>2. Open(n)' /\ (Open(stop[t])' <=> Open(n)')
    BY <1>3, <2>1 DEF Open, Combined
  <2>3. \A u \in grp[t] \ {t} : /\ pc'[u] \in WaitPcs /\ state'[stop'[u]] = "SECOND"
                                /\ \E h \in grp[t] : stop'[u] \in Elems(stack'[h])
    BY <1>3, <1>4, <1>7 DEF GroupOK
  <2>4. t \in grp[t] /\ Cardinality(grp[t]) = combined[t]
    BY <1>4, <1>6 DEF GroupOK, Carrier
  <2> QED BY <1>6, <2>1, <2>2, <2>3, <2>4 DEF GroupOK, Carrier
<1>9. \A u \in Threads \ {t}, m \in Nodes : pc[u] \in WaitPcs /\ stop[u] = m =>
        /\ Open(m)' <=> Open(m)
        /\ Open(m) => second'[m] = second[m]
  BY <1>2, <1>3, <1>5, <1>7 DEF TypeOK
<1> QED BY <1>1, <1>3, <1>4, <1>6, <1>8, <1>9, GroupStep

\* A thread that is given a result carries nothing.
LEMMA GroupsIdle ==
  ASSUME IInv, NEW grp, Grouping(grp), NEW t \in Threads, Aside(t),
         ~Carrier(t), pc[t] \in WaitPcs => state[stop[t]] # "SECOND",
         pc'[t] \notin ClimbPcs \cup CarryPcs \cup WaitPcs,
         started' = started, result'[Root] = result[Root], UNCHANGED second,
         \A m \in Nodes : Open(m)' <=> Open(m),
         \A m \in Nodes : /\ state[m] = "SECOND"
                          /\ \E h \in Threads \ {t} : m \in Elems(stack[h])
                          => state'[m] = "SECOND"
  PROVE  Groups'
<1>1. /\ grp[t] \in SUBSET Threads /\ GroupOK(grp[t], t)
      /\ \A u \in Threads \ {t} : grp[t] \cap grp[u] = {}
      /\ started' = result'[Root] + Cardinality(InFlight([grp EXCEPT ![t] = grp[t]]))
  BY GroupSame
<1>2. grp[t] = {}
  BY <1>1 DEF GroupOK
<1>3. GroupOK(grp[t], t)'
  <2>1. GroupOK({}, t)'
    BY DEF GroupOK, Carrier
  <2> QED BY <1>2, <2>1
<1> QED BY <1>1, <1>3, GroupStep

LEMMA GroupsResult ==
  ASSUME IInv, Groups, NEW t \in Threads, OpResult(t) \/ Distribute(t) \/ Return(t)
  PROVE  Groups'
<1>1. PICK grp : Grouping(grp)
  BY DEF Groups
<1>2. PICK path : TypeOK /\ Tree(path)
  BY DEF IInv
<1>3. CASE OpResult(t)
  <2>1. PICK n \in Nodes \ {Root} :
           /\ stop[t] = n /\ state[n] = "RESULT" /\ pc[t] = "op_result" /\ pc'[t] \in ResultPcs
           /\ Aside(t) /\ state' = [state EXCEPT ![n] = "IDLE"]
           /\ UNCHANGED <<second, result, stack, started>>
    BY <1>2, <1>3, OpResultEffect DEF history
  <2>2. state'[n] = "IDLE" /\ \A m \in Nodes \ {n} : state'[m] = state[m]
    BY <1>2, <2>1 DEF TypeOK
  <2>3. \A m \in Nodes : Open(m)' <=> Open(m)
    BY <2>1, <2>2 DEF Open, Combined
  <2>4. \A m \in Nodes : state[m] = "SECOND" => state'[m] = "SECOND"
    BY <2>1, <2>2
  <2>5. ~Carrier(t) /\ state[stop[t]] # "SECOND"
    BY <2>1 DEF Carrier, Open, ClimbPcs, CarryPcs, CombinePcs
  <2>6. pc'[t] \notin ClimbPcs \cup CarryPcs \cup WaitPcs
    BY <2>1 DEF ResultPcs, ClimbPcs, CarryPcs, CombinePcs, WaitPcs
  <2> QED BY <1>1, <2>1, <2>3, <2>4, <2>5, <2>6, GroupsIdle
<1>4. CASE Distribute(t)
  <2>1. PICK n \in Nodes \ {Root} :
           /\ Elems(stack[t]) = Elems(stack'[t]) \cup {n} /\ n \notin Elems(stack'[t])
           /\ \A u \in Threads \ {t} : n \notin Elems(stack[u])
           /\ pc[t] = "distribute" /\ pc'[t] \in ResultPcs /\ Aside(t)
           /\ state' = [state EXCEPT ![n] = "IDLE"] \/ state' = [state EXCEPT ![n] = "RESULT"]
           /\ result' = result \/ \E b : result' = [result EXCEPT ![n] = b]
           /\ UNCHANGED <<second, started>>
    <3>1. PICK n \in Nodes \ {Root}, k \in Nat :
           /\ Len(stack[t]) = k + 1 /\ n = stack[t][k + 1] /\ Len(stack'[t]) = k
           /\ \A i \in 1 .. k : stack'[t][i] = stack[t][i]
           /\ Elems(stack[t]) = Elems(stack'[t]) \cup {n} /\ n \notin Elems(stack'[t])
           /\ \A u \in Threads \ {t} : n \notin Elems(stack[u])
           /\ pc[t] = "distribute" /\ pc'[t] = (IF k = 0 THEN "return" ELSE "distribute")
           /\ Aside(t)
           /\ \/ /\ state[n] = "FIRST" /\ state' = [state EXCEPT ![n] = "IDLE"] /\ UNCHANGED result
              \/ /\ state[n] = "SECOND" /\ state' = [state EXCEPT ![n] = "RESULT"]
                 /\ result' = [result EXCEPT ![n] = before[t] + first[n]]
           /\ UNCHANGED <<first, second, stop, combined, before, history>>
      BY <1>4, Popped
    <3> QED BY <3>1 DEF ResultPcs, history
  <2>2. /\ state'[n] # "SECOND" /\ \A m \in Nodes \ {n} : state'[m] = state[m]
        /\ result'[Root] = result[Root]
    BY <1>2, <2>1, TreeShape DEF TypeOK
  <2>3. \A m \in Nodes : Open(m)' <=> Open(m)
    <3>1. ~Open(n) /\ ~Open(n)'
      BY <2>1, <2>2 DEF Open, Combined
    <3>2. \A m \in Nodes \ {n} : Combined(m)' <=> Combined(m)
      <4>1. \A u \in Threads \ {t} : stack'[u] = stack[u]
        BY <2>1 DEF Aside
      <4> QED BY <2>1, <4>1 DEF Combined
    <3> QED BY <2>2, <3>1, <3>2 DEF Open
  <2>4. \A m \in Nodes : /\ state[m] = "SECOND"
                         /\ \E h \in Threads \ {t} : m \in Elems(stack[h])
                         => state'[m] = "SECOND"
    BY <2>1, <2>2
  <2>5. ~Carrier(t) /\ pc[t] \notin WaitPcs
    BY <2>1 DEF Carrier, ClimbPcs, CarryPcs, CombinePcs, WaitPcs
  <2>6. pc'[t] \notin ClimbPcs \cup CarryPcs \cup WaitPcs
    BY <2>1 DEF ResultPcs, ClimbPcs, CarryPcs, CombinePcs, WaitPcs
  <2> QED BY <1>1, <2>1, <2>2, <2>3, <2>4, <2>5, <2>6, GroupsIdle
<1>5. CASE Return(t)
  <2>1. /\ UNCHANGED <<state, second, result, stack, started>> /\ Aside(t)
        /\ pc[t] = "return" /\ pc'[t] = "idle"
    BY <1>2, <1>5, FieldsKept DEF TypeOK, Return, Goto, fields
  <2>2. \A m \in Nodes : Open(m)' <=> Open(m)
    BY <2>1 DEF Open, Combined
  <2>3. ~Carrier(t) /\ pc[t] \notin WaitPcs /\ pc'[t] \notin ClimbPcs \cup CarryPcs \cup WaitPcs
    BY <2>1 DEF Carrier, ClimbPcs, CarryPcs, CombinePcs, WaitPcs
  <2> QED BY <1>1, <2>1, <2>2, <2>3, GroupsIdle
<1> QED BY <1>3, <1>4, <1>5

LEMMA GroupsNext == IInv /\ IInv' /\ Groups /\ [Next]_vars => Groups'
<1> SUFFICES ASSUME IInv, IInv', Groups, [Next]_vars PROVE Groups'
  OBVIOUS
<1>1. CASE UNCHANGED vars
  BY <1>1, GroupsWaits DEF vars, SameKind
<1>2. ASSUME NEW t \in Threads, Call(t) \/ Step(t) \/ SpuriousWakeup(t) PROVE Groups'
  <2>1. CASE PrecombineWait(t) \/ CombineWait(t) \/ OpWait(t) \/ SpuriousWakeup(t)
    <3>1. /\ UNCHANGED <<fields, locals, history>> /\ SameKind(t)
          /\ \A u \in Threads \ {t} : pc'[u] = pc[u]
      BY <2>1, WaitSteps
    <3>2. \A u \in Threads : SameKind(u)
      BY <3>1 DEF SameKind
    <3> QED BY <3>1, <3>2, GroupsWaits
  <2> QED BY <1>2, <2>1, GroupsCall, GroupsPrecombine, GroupsCombine, GroupsOpRoot,
             GroupsOpSecond, GroupsResult DEF Step
<1> QED BY <1>1, <1>2 DEF Next

\* Every call that has begun is in the root's count or in the amount that one
\* thread, and one only, has yet to bring there.
THEOREM GroupsHold == Spec => []Groups
BY GroupsInit, GroupsNext, IInvHolds, PTL DEF Spec

\* When all calls have returned, their results are the first numbers, and the
\* tree is as it was built.
THEOREM QuietTreeHolds == Spec => []QuietTree
<1>1. IInv /\ Places /\ Groups => QuietTree
  <2> SUFFICES ASSUME IInv, Places, Groups, \A t \in Threads : pc[t] = "idle"
               PROVE  /\ returned = 0 .. started - 1 /\ result[Root] = started
                      /\ \A n \in Nodes : ~is_locked[n] /\ state[n] \in {"IDLE", "ROOT"}
    BY DEF QuietTree
  <2>1. PICK path : TypeOK /\ Tree(path)
    BY DEF IInv
  <2>2. PICK grp : Grouping(grp)
    BY DEF Groups
  <2>3. \A t \in Threads : path[t] = <<>> /\ stack[t] = <<>>
    BY <2>1 DEF Tree, PathOK
  <2>4. Elems(<<>>) = {}
    BY EmptySeq DEF Elems
  <2>5. \A n \in Nodes \ {Root} : ~is_locked[n] /\ state[n] = "IDLE"
    <3> TAKE n \in Nodes \ {Root}
    <3>1. NodeOK(path, n) /\ state[n] \in {"IDLE", "FIRST", "SECOND", "RESULT", "ROOT"}
      BY <2>1 DEF Tree, TypeOK
    <3>2. \A t \in Threads : ~Second(t, n) /\ ~Carrying(t, n)
      BY DEF Second, Carrying, CarryPcs, CombinePcs, WaitPcs
    <3>3. ~Combined(n) /\ \A t \in Threads : n \notin Elems(path[t])
      BY <2>3, <2>4 DEF Combined
    <3> QED BY <3>1, <3>2, <3>3 DEF NodeOK
  <2>6. \A n \in Nodes : ~is_locked[n] /\ state[n] \in {"IDLE", "ROOT"}
    BY <2>1, <2>5 DEF Tree
  <2>7. \A t \in Threads : grp[t] = {}
    BY <2>2 DEF Grouping, GroupOK, Carrier, ClimbPcs, CarryPcs, CombinePcs, WaitPcs
  <2>8. InFlight(grp) = {} /\ Cardinality({}) = 0 /\ result[Root] \in Nat
    BY <2>1, <2>7, FS_EmptySet, TreeShape DEF InFlight, TypeOK
  <2>9. result[Root] = started
    BY <2>2, <2>8 DEF Grouping
  <2>10. \A v \in Nat : v < started <=> v \in returned
    <3> TAKE v \in Nat
    <3>1. \A t \in Threads : ~Owns(t, v) /\ \A n : ~Share(t, n, v)
      BY DEF Owns, Share, ResultPcs
    <3>2. \A n \in Nodes \ {Root} : ~Keeps(n, v)
      BY <2>5, <3>1 DEF Keeps, Promised
    <3>3. OnePlace(v)
      BY DEF Places
    <3> QED BY <2>9, <3>1, <3>2, <3>3 DEF OnePlace
  <2>11. returned = 0 .. started - 1
    <3>1. returned \subseteq Nat /\ started \in Nat
      BY <2>1 DEF TypeOK
    <3>2. \A v : v \in 0 .. started - 1 <=> v \in Nat /\ v < started
      BY <3>1
    <3>3. \A v : v \in returned <=> v \in 0 .. started - 1
      BY <2>10, <3>1, <3>2
    <3> QED BY <3>3, Zenon
  <2> QED BY <2>6, <2>9, <2>11
<1> QED BY <1>1, IInvHolds, PlacesHold, GroupsHold, PTL

----------------------------------------------------------------------------
(* The results come after those that had been returned *)

\* lim[n] is the root's count when the second thread at n left its amount there.
FloorOK(lim, t) ==
  /\ pc[t] \in ClimbPcs \cup CarryPcs => floor[t] <= result[Root]
  /\ pc[t] \in WaitPcs => floor[t] <= lim[stop[t]]
  /\ pc[t] \in ResultPcs => floor[t] <= before[t]
  /\ \A n \in Elems(stack[t]) : state[n] = "SECOND" =>
       /\ pc[t] \in WaitPcs => lim[n] <= lim[stop[t]]
       /\ pc[t] = "distribute" => lim[n] <= before[t]

Limits(lim) ==
  /\ lim \in [Nodes -> Nat] /\ floor \in [Threads -> Nat]
  /\ \A n \in Nodes : lim[n] <= result[Root]
  /\ \A n \in Nodes \ {Root} : state[n] = "RESULT" => lim[n] <= result[n]
  /\ \A t \in Threads : FloorOK(lim, t)

Floors == \E lim : Limits(lim)

LEMMA FloorsInit == Init => Floors
<1> SUFFICES ASSUME Init PROVE Floors
  OBVIOUS
<1> DEFINE lim == [n \in Nodes |-> 0]
<1>1. Elems(<<>>) = {}
  BY EmptySeq DEF Elems
<1>2. \A t \in Threads : FloorOK(lim, t)
  BY <1>1 DEF Init, FloorOK, ClimbPcs, CarryPcs, CombinePcs, WaitPcs, ResultPcs
<1>3. \A n \in Nodes : result[n] = 0 /\ state[n] # "RESULT" /\ lim[n] = 0
  BY DEF Init, State
<1>4. lim \in [Nodes -> Nat] /\ floor \in [Threads -> Nat]
  BY DEF Init
<1> HIDE DEF lim
<1>5. Limits(lim)
  BY <1>2, <1>3, <1>4, TreeShape DEF Limits
<1> QED BY <1>5 DEF Floors

\* A step of t that leaves nothing at a node.
LEMMA FloorsStep ==
  ASSUME IInv, IInv', NEW lim, Limits(lim), NEW t \in Threads, Aside(t),
         floor' \in [Threads -> Nat], \A u \in Threads \ {t} : floor'[u] = floor[u],
         result[Root] <= result'[Root],
         \A n \in Nodes \ {Root} : state'[n] = "RESULT" => lim[n] <= result'[n],
         \A n \in Nodes : /\ \E u \in Threads \ {t} : n \in Elems(stack[u])
                          /\ state'[n] = "SECOND"
                          => state[n] = "SECOND",
         FloorOK(lim, t)'
  PROVE  Floors'
<1>1. result[Root] \in Nat /\ result'[Root] \in Nat
  BY TreeShape DEF IInv, TypeOK
<1>2. lim \in [Nodes -> Nat] /\ \A n \in Nodes : lim[n] <= result[Root]
  BY DEF Limits
<1>3. \A n \in Nodes : lim[n] <= result'[Root]
  <2> TAKE n \in Nodes
  <2>1. lim[n] \in Nat /\ lim[n] <= result[Root]
    BY <1>2
  <2> QED BY <1>1, <2>1
<1>4. ASSUME NEW u \in Threads \ {t} PROVE FloorOK(lim, u)'
  <2>1. /\ SameKind(u) /\ floor'[u] = floor[u] /\ stop'[u] = stop[u]
        /\ stack'[u] = stack[u] /\ before'[u] = before[u]
    BY DEF Aside
  <2>2. FloorOK(lim, u) /\ floor[u] \in Nat
    BY DEF Limits
  <2>3. /\ pc'[u] \in ClimbPcs \cup CarryPcs <=> pc[u] \in ClimbPcs \cup CarryPcs
        /\ pc'[u] \in WaitPcs <=> pc[u] \in WaitPcs
        /\ pc'[u] \in ResultPcs <=> pc[u] \in ResultPcs
        /\ pc'[u] = "distribute" <=> pc[u] = "distribute"
    BY <2>1 DEF SameKind, ClimbPcs, CarryPcs, CombinePcs, WaitPcs, ResultPcs
  <2>4. pc'[u] \in ClimbPcs \cup CarryPcs => floor'[u] <= result'[Root]
    <3>1. pc[u] \in ClimbPcs \cup CarryPcs => floor[u] <= result[Root]
      BY <2>2 DEF FloorOK
    <3> QED BY <1>1, <2>1, <2>2, <2>3, <3>1
  <2>5. \A n \in Elems(stack[u]) : state'[n] = "SECOND" => state[n] = "SECOND"
    <3>1. \A n \in Elems(stack[u]) : n \in Nodes
      BY StackFacts
    <3> QED BY <3>1
  <2> QED BY <2>1, <2>2, <2>3, <2>4, <2>5 DEF FloorOK
<1>5. Limits(lim)'
  BY <1>2, <1>3, <1>4 DEF Limits
<1> QED BY <1>5 DEF Floors

LEMMA FloorsWaits ==
  ASSUME IInv, IInv', Floors, \A u \in Threads : SameKind(u),
         UNCHANGED <<fields, locals, history>>
  PROVE  Floors'
<1>1. PICK lim : Limits(lim)
  BY DEF Floors
<1>2. UNCHANGED <<state, result, stop, stack, before, floor>>
  BY DEF fields, locals, history
<1>3. ASSUME NEW u \in Threads PROVE FloorOK(lim, u)'
  <2>1. FloorOK(lim, u) /\ SameKind(u)
    BY <1>1 DEF Limits
  <2>2. /\ pc'[u] \in ClimbPcs \cup CarryPcs <=> pc[u] \in ClimbPcs \cup CarryPcs
        /\ pc'[u] \in WaitPcs <=> pc[u] \in WaitPcs
        /\ pc'[u] \in ResultPcs <=> pc[u] \in ResultPcs
        /\ pc'[u] = "distribute" <=> pc[u] = "distribute"
    BY <2>1 DEF SameKind, ClimbPcs, CarryPcs, CombinePcs, WaitPcs, ResultPcs
  <2> QED BY <1>2, <2>1, <2>2 DEF FloorOK
<1>4. Limits(lim)'
  BY <1>1, <1>2, <1>3 DEF Limits
<1> QED BY <1>4 DEF Floors

\* The floor of a call is not above the number of values the root has given.
LEMMA FloorOfCall ==
  ASSUME IInv, Places, Groups, floor \in [Threads -> Nat], NEW t \in Threads, Call(t)
  PROVE  /\ floor' \in [Threads -> Nat] /\ \A u \in Threads \ {t} : floor'[u] = floor[u]
         /\ floor'[t] <= result[Root]
<1> DEFINE R == result[Root]
           Above(k) == (\A v \in returned : v < k) /\ (k = 0 \/ k - 1 \in returned)
           c == CHOOSE k \in 0 .. MaxCalls : Above(k)
<1>1. R \in Nat /\ started \in Nat /\ returned \subseteq Nat /\ started < MaxCalls
  BY TreeShape DEF IInv, TypeOK, Call
<1>2. R <= started
  <2>1. PICK grp : Grouping(grp)
    BY DEF Groups
  <2>2. InFlight(grp) \in SUBSET Threads
    BY DEF InFlight
  <2>3. Cardinality(InFlight(grp)) \in Nat
    BY <2>2, FiniteThreads, FS_CardinalityType
  <2>4. started = R + Cardinality(InFlight(grp))
    BY <2>1 DEF Grouping
  <2> QED BY <1>1, <2>3, <2>4
<1>3. \A v \in returned : v \in Nat /\ v < R
  BY <1>1 DEF Places, OnePlace
<1> DEFINE D == {k \in Nat : \A v \in returned : v < k}
<1>4. D \in SUBSET Nat /\ R \in D
  BY <1>1, <1>3
<1>5. PICK k \in D : \A j \in D : k <= j
  <2> HIDE DEF D
  <2> QED BY <1>4, LeastNatural
<1>6. k \in Nat /\ k <= R /\ k \in 0 .. MaxCalls
  BY <1>1, <1>2, <1>4, <1>5, MaxCallsAssumption
<1>7. k = 0 \/ k - 1 \in returned
  <2> SUFFICES ASSUME k # 0, k - 1 \notin returned PROVE FALSE
    OBVIOUS
  <2>1. k - 1 \in Nat
    BY <1>6
  <2>2. \A v \in returned : v < k - 1
    <3> TAKE v \in returned
    <3>1. v \in Nat /\ v < k /\ v # k - 1
      BY <1>3, <1>5
    <3> QED BY <1>6, <3>1
  <2>3. k - 1 \in D
    BY <2>1, <2>2
  <2>4. k <= k - 1
    BY <1>5, <2>3
  <2> QED BY <1>6, <2>4
<1>8. Above(k)
  BY <1>5, <1>7
<1>9. c \in 0 .. MaxCalls /\ Above(c)
  BY <1>6, <1>8
<1>10. c \in Nat /\ c <= R
  <2>1. c \in Nat /\ (c = 0 \/ c - 1 \in returned)
    BY <1>9
  <2>2. c - 1 \in returned => c - 1 < R
    BY <1>3
  <2> HIDE DEF c
  <2> QED BY <1>1, <2>1, <2>2
<1>11. floor' = [floor EXCEPT ![t] = c]
  BY DEF Call
<1> HIDE DEF c
<1> QED BY <1>10, <1>11

LEMMA FloorsCall ==
  ASSUME IInv, IInv', Places, Groups, Floors, NEW t \in Threads, Call(t)
  PROVE  Floors'
<1>1. PICK lim : Limits(lim)
  BY DEF Floors
<1>2. /\ UNCHANGED <<state, result, stack>> /\ Aside(t)
      /\ pc[t] = "idle" /\ pc'[t] = "precombine"
  BY FieldsKept DEF IInv, TypeOK, Call, Goto, fields
<1>3. /\ floor' \in [Threads -> Nat] /\ \A u \in Threads \ {t} : floor'[u] = floor[u]
      /\ floor'[t] <= result[Root]
  BY <1>1, FloorOfCall DEF Limits
<1>4. result[Root] <= result'[Root]
  BY <1>2, TreeShape DEF IInv, TypeOK
<1>5. FloorOK(lim, t)'
  BY <1>2, <1>3 DEF FloorOK, ClimbPcs, CarryPcs, CombinePcs, WaitPcs, ResultPcs
<1> QED BY <1>1, <1>2, <1>3, <1>4, <1>5, FloorsStep DEF Limits

LEMMA FloorsPrecombine ==
  ASSUME IInv, IInv', Floors, NEW t \in Threads, Precombine(t)
  PROVE  Floors'
<1>1. PICK lim : Limits(lim)
  BY DEF Floors
<1>2. PICK n \in Nodes :
           /\ pc[t] = "precombine" /\ Aside(t) /\ stack[t] = <<>> /\ stack'[t] = <<>>
           /\ \/ pc'[t] = "precombine" /\ combined'[t] = combined[t]
              \/ pc'[t] \in {"combine", "op"} /\ combined'[t] = 1
           /\ \A u \in Threads \ {t} : pc'[u] = pc[u]
           /\ ~Combined(n) /\ state[n] \in {"IDLE", "FIRST", "ROOT"} /\ state'[n] # "RESULT"
           /\ \A m \in Nodes \ {n} : state'[m] = state[m]
           /\ state'[n] = "SECOND" => state[n] = "FIRST"
           /\ UNCHANGED <<first, second, result, stack, before, history>>
  BY PrecombineEffect
<1>3. result' = result /\ floor' = floor
  BY <1>2 DEF history
<1>4. result[Root] <= result'[Root]
  BY <1>3, TreeShape DEF IInv, TypeOK
<1>5. \A m \in Nodes \ {Root} : state'[m] = "RESULT" => lim[m] <= result'[m]
  BY <1>1, <1>2, <1>3 DEF Limits
<1>6. \A m \in Nodes : /\ \E u \in Threads \ {t} : m \in Elems(stack[u])
                       /\ state'[m] = "SECOND"
                       => state[m] = "SECOND"
  BY <1>2 DEF Combined
<1>7. FloorOK(lim, t)'
  <2>1. Elems(<<>>) = {}
    BY EmptySeq DEF Elems
  <2>2. floor[t] <= result[Root]
    BY <1>1, <1>2 DEF Limits, FloorOK, ClimbPcs
  <2>3. pc'[t] \notin WaitPcs \cup ResultPcs
    BY <1>2 DEF WaitPcs, ResultPcs
  <2> QED BY <1>2, <1>3, <2>1, <2>2, <2>3 DEF FloorOK
<1> QED BY <1>1, <1>2, <1>3, <1>4, <1>5, <1>6, <1>7, FloorsStep DEF Limits

LEMMA FloorsCombine ==
  ASSUME IInv, IInv', Floors, NEW t \in Threads, Combine(t)
  PROVE  Floors'
<1>1. PICK lim : Limits(lim)
  BY DEF Floors
<1>2. PICK path : TypeOK /\ Tree(path)
  BY DEF IInv
<1>3. /\ pc[t] = "combine" /\ pc'[t] \in {"combine", "op"} /\ Aside(t)
      /\ UNCHANGED <<state, result, floor>>
  BY <1>2, CombineEffect DEF history
<1>4. result[Root] <= result'[Root]
  BY <1>3, TreeShape DEF IInv, TypeOK
<1>5. \A m \in Nodes \ {Root} : state'[m] = "RESULT" => lim[m] <= result'[m]
  BY <1>1, <1>3 DEF Limits
<1>6. FloorOK(lim, t)'
  <2>1. floor[t] <= result[Root]
    BY <1>1, <1>3 DEF Limits, FloorOK, CarryPcs, CombinePcs
  <2>2. pc'[t] \notin WaitPcs \cup ResultPcs /\ pc'[t] # "distribute"
    BY <1>3 DEF WaitPcs, ResultPcs
  <2> QED BY <1>3, <2>1, <2>2 DEF FloorOK
<1> QED BY <1>1, <1>3, <1>4, <1>5, <1>6, FloorsStep DEF Limits

LEMMA FloorsOpRoot ==
  ASSUME IInv, IInv', Floors, NEW t \in Threads, OpRoot(t)
  PROVE  Floors'
<1>1. PICK lim : Limits(lim)
  BY DEF Floors
<1>2. PICK path : TypeOK /\ Tree(path)
  BY DEF IInv
<1>3. /\ pc[t] = "op" /\ pc'[t] \in ResultPcs /\ Aside(t) /\ before'[t] = result[Root]
      /\ result' = [result EXCEPT ![Root] = result[Root] + combined[t]]
      /\ UNCHANGED <<state, stop, stack, floor>>
  BY <1>2, OpRootEffect DEF history
<1>4. result[Root] <= result'[Root]
  BY <1>2, <1>3, TreeShape DEF TypeOK
<1>5. \A m \in Nodes \ {Root} : state'[m] = "RESULT" => lim[m] <= result'[m]
  BY <1>1, <1>2, <1>3 DEF Limits, TypeOK
<1>6. FloorOK(lim, t)'
  <2>1. floor[t] <= result[Root]
    BY <1>1, <1>3 DEF Limits, FloorOK, CarryPcs
  <2>2. pc'[t] \notin ClimbPcs \cup CarryPcs \cup WaitPcs
    BY <1>3 DEF ResultPcs, ClimbPcs, CarryPcs, CombinePcs, WaitPcs
  <2>3. \A n \in Elems(stack[t]) : lim[n] <= result[Root]
    BY <1>1, StackFacts DEF Limits
  <2> QED BY <1>3, <2>1, <2>2, <2>3 DEF FloorOK
<1> QED BY <1>1, <1>3, <1>4, <1>5, <1>6, FloorsStep DEF Limits

\* The second thread at n leaves its amount there: lim[n] is the root's count.
LEMMA FloorsOpSecond ==
  ASSUME IInv, IInv', Floors, NEW t \in Threads, OpSecond(t)
  PROVE  Floors'
<1>1. PICK lim : Limits(lim)
  BY DEF Floors
<1>2. PICK path : TypeOK /\ Tree(path)
  BY DEF IInv
<1>3. PICK n \in Nodes \ {Root} :
           /\ node[t] = n /\ stop[t] = n /\ stack[t] = path[t] /\ PathOK(path[t], t)'
           /\ state[n] = "SECOND" /\ NodeOK(path, n) /\ Carrying(t, n) /\ ~Combined(n)
           /\ pc[t] = "op" /\ pc'[t] = "op_wait" /\ Aside(t)
           /\ second' = [second EXCEPT ![n] = combined[t]]
           /\ is_locked' = [is_locked EXCEPT ![n] = FALSE]
           /\ pc' \in [Threads -> {pc'[u] : u \in Threads}]
           /\ UNCHANGED <<state, first, result, locals, history>>
  BY <1>2, OpSecondEffect
<1>4. UNCHANGED <<state, result, stop, stack, before, floor>>
  BY <1>3 DEF locals, history
<1>5. PICK lim2 : /\ lim2 \in [Nodes -> Nat] /\ lim2[n] = result[Root]
                  /\ \A m \in Nodes \ {n} : lim2[m] = lim[m]
                  /\ result[Root] \in Nat
  <2> DEFINE lim3 == [lim EXCEPT ![n] = result[Root]]
  <2>1. /\ lim3 \in [Nodes -> Nat] /\ lim3[n] = result[Root]
        /\ \A m \in Nodes \ {n} : lim3[m] = lim[m]
        /\ result[Root] \in Nat
    BY <1>1, <1>2, TreeShape DEF Limits, TypeOK
  <2> HIDE DEF lim3
  <2> QED BY <2>1
<1>6. \A m \in Nodes : lim2[m] <= result[Root]
  BY <1>1, <1>5 DEF Limits
<1>7. \A m \in Nodes \ {Root} : state[m] = "RESULT" => lim2[m] <= result[m]
  BY <1>1, <1>3, <1>5 DEF Limits
<1>8. \A u \in Threads : \A m \in Elems(stack[u]) : m \in Nodes \ {n}
  BY <1>3, StackFacts DEF Combined
<1>9. ASSUME NEW u \in Threads \ {t} PROVE FloorOK(lim2, u)'
  <2>1. FloorOK(lim, u) /\ SameKind(u) /\ stop[u] \in Nodes
    BY <1>1, <1>2, <1>3 DEF Limits, Aside, TypeOK
  <2>2. pc[u] \in WaitPcs => lim2[stop[u]] = lim[stop[u]]
    <3>1. pc[u] \in WaitPcs => ~(stop[u] = n)
      BY <1>3 DEF NodeOK, Second, CarryPcs, WaitPcs
    <3> QED BY <1>5, <2>1, <3>1
  <2>3. /\ pc'[u] \in ClimbPcs \cup CarryPcs <=> pc[u] \in ClimbPcs \cup CarryPcs
        /\ pc'[u] \in WaitPcs <=> pc[u] \in WaitPcs
        /\ pc'[u] \in ResultPcs <=> pc[u] \in ResultPcs
        /\ pc'[u] = "distribute" <=> pc[u] = "distribute"
    BY <2>1 DEF SameKind, ClimbPcs, CarryPcs, CombinePcs, WaitPcs, ResultPcs
  <2>4. \A m \in Elems(stack[u]) : lim2[m] = lim[m]
    BY <1>5, <1>8
  <2> QED BY <1>4, <2>1, <2>2, <2>3, <2>4 DEF FloorOK
<1>10. FloorOK(lim2, t)'
  <2>1. floor[t] <= result[Root]
    BY <1>1, <1>3 DEF Limits, FloorOK, CarryPcs
  <2>2. pc'[t] \notin ClimbPcs \cup CarryPcs \cup ResultPcs /\ pc'[t] # "distribute"
    BY <1>3 DEF ClimbPcs, CarryPcs, CombinePcs, ResultPcs
  <2>3. \A m \in Elems(stack[t]) : lim2[m] <= lim2[n]
    BY <1>5, <1>6, <1>8
  <2> QED BY <1>3, <1>4, <1>5, <2>1, <2>2, <2>3 DEF FloorOK
<1>11. Limits(lim2)'
  BY <1>1, <1>4, <1>5, <1>6, <1>7, <1>9, <1>10 DEF Limits
<1> QED BY <1>11 DEF Floors

LEMMA FloorsOpResult ==
  ASSUME IInv, IInv', Floors, NEW t \in Threads, OpResult(t)
  PROVE  Floors'
<1>1. PICK lim : Limits(lim)
  BY DEF Floors
<1>2. PICK path : TypeOK /\ Tree(path)
  BY DEF IInv
<1>3. PICK n \in Nodes \ {Root} :
           /\ node[t] = n /\ stop[t] = n /\ stack[t] = path[t] /\ PathOK(path[t], t)'
           /\ state[n] = "RESULT" /\ NodeOK(path, n) /\ Second(t, n)
           /\ pc[t] = "op_result" /\ pc'[t] \in ResultPcs /\ pc'[t] = AfterOp(t) /\ Aside(t)
           /\ before'[t] = result[n] /\ before' = [before EXCEPT ![t] = result[n]]
           /\ is_locked' = [is_locked EXCEPT ![n] = FALSE]
           /\ state' = [state EXCEPT ![n] = "IDLE"]
           /\ node' \in [Threads -> Nodes] /\ pc' \in [Threads -> {pc'[u] : u \in Threads}]
           /\ UNCHANGED <<first, second, result, stop, combined, stack, history>>
  BY <1>2, OpResultEffect
<1>4. result' = result /\ floor' = floor
  BY <1>3 DEF history
<1>5. state'[n] = "IDLE" /\ \A m \in Nodes \ {n} : state'[m] = state[m]
  BY <1>2, <1>3 DEF TypeOK
<1>6. result[Root] <= result'[Root]
  BY <1>4, TreeShape DEF IInv, TypeOK
<1>7. \A m \in Nodes \ {Root} : state'[m] = "RESULT" => lim[m] <= result'[m]
  BY <1>1, <1>4, <1>5 DEF Limits
<1>8. FloorOK(lim, t)'
  <2>1. FloorOK(lim, t) /\ pc[t] \in WaitPcs
    BY <1>1, <1>3 DEF Limits, WaitPcs
  <2>2. lim[n] \in Nat /\ result[n] \in Nat /\ lim[n] <= result[n] /\ floor[t] \in Nat
    BY <1>1, <1>2, <1>3 DEF Limits, TypeOK
  <2>3. floor[t] <= result[n]
    <3>1. floor[t] <= lim[n]
      BY <1>3, <2>1 DEF FloorOK
    <3> QED BY <2>2, <3>1
  <2>4. \A m \in Elems(stack[t]) : state'[m] = "SECOND" => lim[m] <= result[n]
    <3> TAKE m \in Elems(stack[t])
    <3> SUFFICES ASSUME state'[m] = "SECOND" PROVE lim[m] <= result[n]
      OBVIOUS
    <3>1. m \in Nodes
      BY StackFacts
    <3>2. state[m] = "SECOND" /\ lim[m] \in Nat
      BY <1>1, <1>5, <3>1 DEF Limits
    <3>3. lim[m] <= lim[n]
      BY <1>3, <2>1, <3>2 DEF FloorOK
    <3> QED BY <2>2, <3>2, <3>3
  <2>5. pc'[t] \notin ClimbPcs \cup CarryPcs \cup WaitPcs
    BY <1>3 DEF ResultPcs, ClimbPcs, CarryPcs, CombinePcs, WaitPcs
  <2> QED BY <1>3, <1>4, <2>3, <2>4, <2>5 DEF FloorOK
<1>9. \A m \in Nodes : state'[m] = "SECOND" => state[m] = "SECOND"
  BY <1>5
<1> QED BY <1>1, <1>3, <1>4, <1>6, <1>7, <1>8, <1>9, FloorsStep DEF Limits

LEMMA FloorsDistribute ==
  ASSUME IInv, IInv', Floors, NEW t \in Threads, Distribute(t)
  PROVE  Floors'
<1>1. PICK lim : Limits(lim)
  BY DEF Floors
<1>2. TypeOK
  BY DEF IInv
<1>3. PICK n \in Nodes \ {Root}, k \in Nat :
           /\ Len(stack[t]) = k + 1 /\ n = stack[t][k + 1] /\ Len(stack'[t]) = k
           /\ \A i \in 1 .. k : stack'[t][i] = stack[t][i]
           /\ Elems(stack[t]) = Elems(stack'[t]) \cup {n} /\ n \notin Elems(stack'[t])
           /\ \A u \in Threads \ {t} : n \notin Elems(stack[u])
           /\ pc[t] = "distribute" /\ pc'[t] = (IF k = 0 THEN "return" ELSE "distribute")
           /\ Aside(t)
           /\ \/ /\ state[n] = "FIRST" /\ state' = [state EXCEPT ![n] = "IDLE"] /\ UNCHANGED result
              \/ /\ state[n] = "SECOND" /\ state' = [state EXCEPT ![n] = "RESULT"]
                 /\ result' = [result EXCEPT ![n] = before[t] + first[n]]
           /\ UNCHANGED <<first, second, stop, combined, before, history>>
  BY Popped
<1>4. FloorOK(lim, t) /\ pc[t] \in ResultPcs /\ pc'[t] \in ResultPcs
  BY <1>1, <1>3 DEF Limits, ResultPcs
<1>5. before'[t] = before[t] /\ floor' = floor /\ stop' = stop /\ before[t] \in Nat
  BY <1>2, <1>3, <1>4 DEF history, TypeOK
<1>6. /\ state'[n] \in {"IDLE", "RESULT"} /\ \A m \in Nodes \ {n} : state'[m] = state[m]
      /\ \A m \in Nodes \ {n} : result'[m] = result[m]
      /\ result[Root] <= result'[Root]
  <2>1. /\ state'[n] \in {"IDLE", "RESULT"} /\ \A m \in Nodes \ {n} : state'[m] = state[m]
        /\ \A m \in Nodes \ {n} : result'[m] = result[m]
    BY <1>2, <1>3 DEF TypeOK
  <2>2. Root \in Nodes \ {n} /\ result[Root] \in Nat
    BY <1>2, TreeShape DEF TypeOK
  <2> QED BY <2>1, <2>2
<1>7. \A m \in Nodes \ {Root} : state'[m] = "RESULT" => lim[m] <= result'[m]
  <2>1. state'[n] = "RESULT" => lim[n] <= result'[n]
    <3> SUFFICES ASSUME state'[n] = "RESULT" PROVE lim[n] <= result'[n]
      OBVIOUS
    <3>1. state[n] = "SECOND" /\ result'[n] = before[t] + first[n] /\ first[n] \in Nat
      BY <1>2, <1>3 DEF TypeOK
    <3>2. lim[n] <= before[t] /\ lim[n] \in Nat
      BY <1>1, <1>3, <1>4, <3>1 DEF FloorOK, Limits
    <3> QED BY <1>5, <3>1, <3>2
  <2> QED BY <1>1, <1>6, <2>1 DEF Limits
<1>8. FloorOK(lim, t)'
  <2>1. floor[t] <= before[t]
    BY <1>4 DEF FloorOK
  <2>2. \A m \in Elems(stack'[t]) : state'[m] = "SECOND" => lim[m] <= before[t]
    <3> TAKE m \in Elems(stack'[t])
    <3>1. m \in Elems(stack[t]) /\ m # n /\ m \in Nodes
      BY <1>3, StackFacts
    <3> QED BY <1>3, <1>4, <1>6, <3>1 DEF FloorOK
  <2>3. pc'[t] \notin ClimbPcs \cup CarryPcs \cup WaitPcs
    BY <1>4 DEF ResultPcs, ClimbPcs, CarryPcs, CombinePcs, WaitPcs
  <2> QED BY <1>5, <2>1, <2>2, <2>3 DEF FloorOK
<1>9. \A m \in Nodes : state'[m] = "SECOND" => state[m] = "SECOND"
  BY <1>6
<1> QED BY <1>1, <1>3, <1>5, <1>6, <1>7, <1>8, <1>9, FloorsStep DEF Limits

LEMMA FloorsReturn ==
  ASSUME IInv, IInv', Floors, NEW t \in Threads, Return(t)
  PROVE  Floors'
<1>1. PICK lim : Limits(lim)
  BY DEF Floors
<1>2. /\ UNCHANGED <<state, result, stack>> /\ Aside(t) /\ stack[t] = <<>>
      /\ pc[t] = "return" /\ pc'[t] = "idle"
  BY FieldsKept, StackFacts DEF IInv, TypeOK, Return, Goto, fields
<1>3. floor' \in [Threads -> Nat] /\ \A u \in Threads \ {t} : floor'[u] = floor[u]
  BY <1>1 DEF Limits, Return
<1>4. result[Root] <= result'[Root]
  BY <1>2, TreeShape DEF IInv, TypeOK
<1>5. FloorOK(lim, t)'
  <2>1. pc'[t] \notin ClimbPcs \cup CarryPcs \cup WaitPcs \cup ResultPcs
    BY <1>2 DEF ClimbPcs, CarryPcs, CombinePcs, WaitPcs, ResultPcs
  <2>2. Elems(stack'[t]) = {}
    BY <1>2, EmptySeq DEF Elems
  <2> QED BY <2>1, <2>2 DEF FloorOK
<1> QED BY <1>1, <1>2, <1>3, <1>4, <1>5, FloorsStep DEF Limits

LEMMA FloorsNext == IInv /\ IInv' /\ Places /\ Groups /\ Floors /\ [Next]_vars => Floors'
<1> SUFFICES ASSUME IInv, IInv', Places, Groups, Floors, [Next]_vars PROVE Floors'
  OBVIOUS
<1>1. CASE UNCHANGED vars
  BY <1>1, FloorsWaits DEF vars, SameKind
<1>2. ASSUME NEW t \in Threads, Call(t) \/ Step(t) \/ SpuriousWakeup(t) PROVE Floors'
  <2>1. CASE PrecombineWait(t) \/ CombineWait(t) \/ OpWait(t) \/ SpuriousWakeup(t)
    <3>1. /\ UNCHANGED <<fields, locals, history>> /\ SameKind(t)
          /\ \A u \in Threads \ {t} : pc'[u] = pc[u]
      BY <2>1, WaitSteps
    <3>2. \A u \in Threads : SameKind(u)
      BY <3>1 DEF SameKind
    <3> QED BY <3>1, <3>2, FloorsWaits
  <2> QED BY <1>2, <2>1, FloorsCall, FloorsPrecombine, FloorsCombine, FloorsOpRoot,
             FloorsOpSecond, FloorsOpResult, FloorsDistribute, FloorsReturn DEF Step
<1> QED BY <1>1, <1>2 DEF Next

\* No result, and no amount left at a node, is on its way to a value below the
\* floor of its call.
THEOREM FloorsHold == Spec => []Floors
BY FloorsInit, FloorsNext, IInvHolds, PlacesHold, GroupsHold, PTL DEF Spec

\* A result is new, is below the number of calls begun, and is above every
\* result that had been returned when the call began.
THEOREM ResultsInOrderHolds == Spec => []ResultsInOrder
<1>1. IInv /\ Places /\ Groups /\ Floors => ResultsInOrder
  <2> SUFFICES ASSUME IInv, Places, Groups, Floors, NEW t \in Threads, pc[t] = "return"
               PROVE  /\ floor[t] <= before[t] /\ before[t] < started
                      /\ before[t] \notin returned
                      /\ \A u \in Threads \ {t} : pc[u] = "return" => before[u] # before[t]
    BY DEF ResultsInOrder
  <2>1. pc[t] \in ResultPcs /\ before[t] \in Nat
    BY DEF ResultPcs, IInv, TypeOK
  <2>2. floor[t] <= before[t]
    BY <2>1 DEF Floors, Limits, FloorOK
  <2>3. OnePlace(before[t]) /\ Owns(t, before[t])
    BY <2>1 DEF Places, Owns
  <2>4. before[t] < result[Root] /\ before[t] \notin returned
    BY <2>3 DEF OnePlace
  <2>5. \A u \in Threads \ {t} : pc[u] = "return" => before[u] # before[t]
    BY <2>3 DEF OnePlace, Owns, ResultPcs
  <2>6. before[t] < started
    <3>1. PICK grp : Grouping(grp)
      BY DEF Groups
    <3>2. Cardinality(InFlight(grp)) \in Nat
      <4>1. InFlight(grp) \in SUBSET Threads
        BY DEF InFlight
      <4> QED BY <4>1, FiniteThreads, FS_CardinalityType
    <3>3. started = result[Root] + Cardinality(InFlight(grp)) /\ result[Root] \in Nat
      BY <3>1, TreeShape DEF Grouping, IInv, TypeOK
    <3> QED BY <2>1, <2>4, <3>2, <3>3
  <2> QED BY <2>2, <2>4, <2>5, <2>6
<1> QED BY <1>1, IInvHolds, PlacesHold, GroupsHold, FloorsHold, PTL

=============================================================================
