------------------------- MODULE Graphs_proofs -------------------------
(***************************************************************************)
(* The graphs of src/graphs, for every number of threads, every graph and  *)
(* every sequence of calls.                                                *)
(*                                                                         *)
(* First the threaded searches: the barrier keeps the list of a round in   *)
(* place until all threads have read it, and all three versions implement  *)
(* BreadthFirst.  Then the three containers: each implements MultiGraph,   *)
(* and the rows of GraphCSR keep their shape.  Then the benchmark program, *)
(* which searches what it has built; and at last dfs and bfs over the      *)
(* containers.                                                             *)
(*                                                                         *)
(* The balls around a vertex, the lists that sync_func makes, the joined   *)
(* rows and the rounds of a search are recursive functions.  What they are *)
(* is found by induction: the numbers, or the subsets of a finite set, of  *)
(* which a claim is false would have a smallest element.                   *)
(*                                                                         *)
(* The containers and the benchmark are two systems: the variables of      *)
(* GraphArrays are the GraphCSR of whichever a theorem is about.           *)
(***************************************************************************)
EXTENDS BenchmarkGraph, GraphContainers, FiniteSetTheorems, FunctionTheorems, SequenceTheorems,
        WellFoundedInduction, TLAPS

\* A thread is in a round only while there is a list to visit, with the share
\* of that list, and has left only when there is none.
RoundInv ==
  /\ pc \in [Threads -> {"test", "scan", "wait", "exit"}]
  /\ my_end = [t \in Threads |-> my_end[t]]
  /\ \A t \in Threads :
       /\ pc[t] \in {"scan", "wait"} => to_visit # <<>> /\ my_end[t] = EndIndex(t)
       /\ pc[t] = "exit" => to_visit = <<>>

LEMMA RoundInvGives == RoundInv => SharesAreCurrent
BY DEF RoundInv, SharesAreCurrent

LEMMA Initial == Init => RoundInv
BY DEF Init, RoundInv, AllThreads, NoLoop

\* A step that leaves the list and the version alone leaves the shares alone.
LEMMA SharesStay ==
  ASSUME UNCHANGED <<to_visit, version>>
  PROVE  \A t \in Threads : EndIndex(t)' = EndIndex(t)
BY DEF EndIndex, ContiguousEnd, thread_share

LEMMA CallStep ==
  ASSUME RoundInv, NEW v, NEW g, Call(v, g)
  PROVE  RoundInv'
BY DEF RoundInv, Call, AllThreads, NoLoop

LEMMA ForgetStep == ASSUME Forget PROVE RoundInv'
BY DEF RoundInv, Forget, AllThreads, NoLoop

\* Whoever begins a round takes its share of the list of that round; whoever
\* finds the list empty leaves nobody behind who found it otherwise.
LEMMA TestStep ==
  ASSUME RoundInv, NEW t \in Threads, Test(t)
  PROVE  RoundInv'
<1>1. \A u \in Threads : EndIndex(u)' = EndIndex(u)
  BY SharesStay DEF Test
<1>2. CASE to_visit = <<>>
  BY <1>1, <1>2 DEF RoundInv, Test, loop
<1>3. CASE to_visit # <<>>
  BY <1>1, <1>3 DEF RoundInv, Test
<1> QED
  BY <1>2, <1>3

LEMMA InRoundStep ==
  ASSUME RoundInv, NEW t \in Threads, Look(t) \/ EndOfRow(t) \/ Arrive(t)
  PROVE  RoundInv'
<1>1. \A u \in Threads : EndIndex(u)' = EndIndex(u)
  BY SharesStay DEF Look, EndOfRow, Arrive
<1>2. UNCHANGED <<to_visit, my_end>>
  BY DEF Look, EndOfRow, Arrive, loop
<1>3. UNCHANGED pc \/ (pc[t] = "scan" /\ pc' = [pc EXCEPT ![t] = "wait"])
  BY DEF Look, EndOfRow, Arrive
<1> QED
  BY <1>1, <1>2, <1>3 DEF RoundInv

\* The last arrival finds everybody else at the barrier, so the list it
\* replaces is one that nobody reads any more.
LEMMA ArriveLastStep ==
  ASSUME RoundInv, NEW t \in Threads, ArriveLast(t)
  PROVE  RoundInv'
<1>1. /\ UNCHANGED my_end
      /\ pc' = [u \in Threads |-> IF u = t \/ pc[u] = "wait" THEN "test" ELSE pc[u]]
      /\ \A u \in Threads \ {t} : pc[u] = "wait"
  BY DEF ArriveLast, LastToArrive, loop
<1>2. \A u \in Threads : pc'[u] = "test"
  BY <1>1
<1> QED
  BY <1>1, <1>2 DEF RoundInv

\* In every search, of every graph and with any number of threads, the list is
\* replaced only when no thread reads it or waits to: the share of a thread is
\* that of the list as it is, and nobody leaves a round that others are in.
THEOREM SharesAreCurrentHolds == Spec => []SharesAreCurrent
<1>1. RoundInv /\ [Next]_vars => RoundInv'
  <2> SUFFICES ASSUME RoundInv, [Next]_vars PROVE RoundInv'
    OBVIOUS
  <2>1. CASE UNCHANGED vars
    <3>1. \A u \in Threads : EndIndex(u)' = EndIndex(u)
      BY <2>1, SharesStay DEF vars
    <3> QED
      BY <2>1, <3>1 DEF RoundInv, vars
  <2>2. CASE Next
    BY <2>2, CallStep, ForgetStep, TestStep, InRoundStep, ArriveLastStep DEF Next, Step
  <2> QED
    BY <2>1, <2>2
<1> QED
  BY Initial, RoundInvGives, <1>1, PTL DEF Spec

----------------------------------------------------------------------------
(* Induction *)

\* Q is the set of the numbers of which the claim is true.
LEMMA NumberInduction ==
  ASSUME NEW Q, 0 \in Q, \A n \in Nat : n \in Q => n + 1 \in Q
  PROVE  Nat \subseteq Q
<1> DEFINE B == Nat \ Q
           R == OpToRel(<, Nat)
<1> SUFFICES ASSUME B # {} PROVE FALSE
  OBVIOUS
<1>1. IsWellFoundedOn(R, Nat)
  BY NatLessThanWellFounded
<1>2. B \subseteq Nat
  OBVIOUS
<1>3. \E s \in B : \A r \in B : ~(<<r, s>> \in R)
  <2> HIDE DEF B, R
  <2> QED BY <1>1, <1>2, WFMin
<1>4. PICK s \in B : \A r \in B : ~(<<r, s>> \in R)
  BY <1>3
<1>5. s \in Nat /\ s # 0 /\ s - 1 \in Nat /\ s - 1 < s
  OBVIOUS
<1>6. <<s - 1, s>> \in R
  BY <1>5 DEF OpToRel
<1>7. s - 1 \notin B
  BY <1>4, <1>6
<1>8. s - 1 \in Q
  BY <1>5, <1>7
<1>9. (s - 1) + 1 = s
  BY <1>5
<1> QED BY <1>5, <1>8, <1>9

\* Induction over the subsets of a finite set: Q is the set of those of which
\* the claim is true.
LEMMA SubsetInduction ==
  ASSUME NEW S, IsFiniteSet(S), NEW Q,
         \A s \in SUBSET S : (\A r \in SUBSET s : r # s => r \in Q) => s \in Q
  PROVE  SUBSET S \subseteq Q
<1> DEFINE B == (SUBSET S) \ Q
           R == StrictSubsetOrdering(S)
<1> SUFFICES ASSUME B # {} PROVE FALSE
  OBVIOUS
<1>1. IsWellFoundedOn(R, SUBSET S)
  <2>1. IsWellFoundedOn(R, FiniteSubsetsOf(S)) /\ FiniteSubsetsOf(S) = SUBSET S
    BY FS_StrictSubsetOrderingWellFounded, FS_FiniteSubsetsOfFinite
  <2> QED BY <2>1
<1>2. B \subseteq SUBSET S
  OBVIOUS
<1>3. \E s \in B : \A r \in B : ~(<<r, s>> \in R)
  <2> HIDE DEF B, R
  <2> QED BY <1>1, <1>2, WFMin
<1>4. PICK s \in B : \A r \in B : ~(<<r, s>> \in R)
  BY <1>3
<1>5. \A r \in SUBSET s : r # s => r \in Q
  <2> SUFFICES ASSUME NEW r \in SUBSET s, r # s, r \notin Q PROVE FALSE
    OBVIOUS
  <2>1. r \in B /\ s \in SUBSET S
    OBVIOUS
  <2>2. <<r, s>> \in R
    BY <2>1 DEF StrictSubsetOrdering
  <2> QED BY <1>4, <2>1, <2>2
<1> QED BY <1>5

----------------------------------------------------------------------------
(* What can be reached *)

Near(g, b) == b \cup UNION {Range(g[v]) : v \in b}

\* b[k] is the set of the vertices at most k edges away from start, up to n.
IsBall(b, g, n) ==
  b = [k \in 0 .. n |-> IF k = 0 THEN {start} ELSE Near(g, b[k - 1])]

LEMMA BallExists ==
  ASSUME NEW g
  PROVE  \A n \in Nat : \E b : IsBall(b, g, n)
<1> DEFINE Q == {n \in Nat : \E b : IsBall(b, g, n)}
<1>1. 0 \in Q
  <2>1. IsBall([k \in 0 .. 0 |-> {start}], g, 0)
    BY DEF IsBall
  <2> QED BY <2>1
<1>2. ASSUME NEW n \in Nat, n \in Q PROVE n + 1 \in Q
  <2>1. PICK b : IsBall(b, g, n)
    BY <1>2
  <2> DEFINE c == [k \in 0 .. n + 1 |-> IF k = n + 1 THEN Near(g, b[n]) ELSE b[k]]
  <2>2. \A k \in 0 .. n : b[k] = IF k = 0 THEN {start} ELSE Near(g, b[k - 1])
    BY <2>1 DEF IsBall
  <2>3. \A k \in 0 .. n + 1 : c[k] = IF k = 0 THEN {start} ELSE Near(g, c[k - 1])
    <3> TAKE k \in 0 .. n + 1
    <3>1. CASE k = n + 1
      <4>1. c[k] = Near(g, b[n]) /\ c[k - 1] = b[n] /\ k # 0
        BY <3>1
      <4> HIDE DEF c
      <4> QED BY <4>1
    <3>2. CASE k # n + 1
      <4>1. c[k] = b[k] /\ k \in 0 .. n /\ (k # 0 => c[k - 1] = b[k - 1])
        BY <3>2
      <4> HIDE DEF c
      <4> QED BY <2>2, <4>1
    <3> QED BY <3>1, <3>2
  <2>4. c = [k \in 0 .. n + 1 |-> c[k]]
    OBVIOUS
  <2>5. IsBall(c, g, n + 1)
    <3> HIDE DEF c
    <3> QED BY <2>3, <2>4 DEF IsBall
  <2> QED BY <2>5
<1>3. Nat \subseteq Q
  <2> HIDE DEF Q
  <2> QED BY <1>1, <1>2, NumberInduction
<1> QED BY <1>3

MaxDistance == Cardinality(Vertices)

LEMMA SameOperators ==
  /\ Search!Cardinality(Vertices) = MaxDistance
  /\ \A f : Search!Range(f) = Range(f)
<1>1. Search!Cardinality(Vertices) = Cardinality(Vertices)
  BY DEF Search!Cardinality, Cardinality
<1>2. \A f : Search!Range(f) = Range(f)
  BY DEF Search!Range, Range
<1> QED BY <1>1, <1>2 DEF MaxDistance

LEMMA MaxDistanceIsNat == MaxDistance \in Nat
BY FS_CardinalityType, VerticesAssumption DEF MaxDistance

LEMMA BallIs ==
  /\ DOMAIN Search!Ball = 0 .. MaxDistance
  /\ Search!Ball[0] = {start}
  /\ \A k \in 1 .. MaxDistance : Search!Ball[k] = Near(row, Search!Ball[k - 1])
<1> DEFINE Is(ball) ==
             ball = [k \in 0 .. Search!Cardinality(Vertices) |->
                       IF k = 0 THEN {start}
                       ELSE ball[k - 1] \cup UNION {Search!Range(row[v]) : v \in ball[k - 1]}]
<1>1. \A ball : Is(ball) <=> IsBall(ball, row, MaxDistance)
  <2>1. \A b : b \cup UNION {Search!Range(row[v]) : v \in b} = Near(row, b)
    BY SameOperators DEF Near
  <2> HIDE DEF Near, MaxDistance
  <2> QED BY <2>1, SameOperators DEF IsBall
<1>2. Search!Ball = CHOOSE ball : Is(ball)
  BY DEF Search!Ball
<1>3. \E ball : Is(ball)
  BY <1>1, BallExists, MaxDistanceIsNat
<1>4. Is(Search!Ball)
  <2> HIDE DEF Is
  <2> QED BY <1>2, <1>3
<1>5. IsBall(Search!Ball, row, MaxDistance)
  BY <1>1, <1>4
<1> HIDE DEF Is
<1>6. \A k \in 0 .. MaxDistance :
        Search!Ball[k] = IF k = 0 THEN {start} ELSE Near(row, Search!Ball[k - 1])
  BY <1>5 DEF IsBall
<1>7. DOMAIN Search!Ball = 0 .. MaxDistance
  BY <1>5 DEF IsBall
<1> QED BY <1>6, <1>7, MaxDistanceIsNat

LEMMA BallGrows ==
  \A k, m \in 0 .. MaxDistance : k <= m => Search!Ball[k] \subseteq Search!Ball[m]
<1> DEFINE Q == {n \in Nat : \A k \in 0 .. MaxDistance :
                   k + n <= MaxDistance => Search!Ball[k] \subseteq Search!Ball[k + n]}
<1>1. 0 \in Q
  BY MaxDistanceIsNat
<1>2. ASSUME NEW n \in Nat, n \in Q PROVE n + 1 \in Q
  <2> SUFFICES ASSUME NEW k \in 0 .. MaxDistance, k + (n + 1) <= MaxDistance
               PROVE  Search!Ball[k] \subseteq Search!Ball[k + (n + 1)]
    OBVIOUS
  <2>1. Search!Ball[k] \subseteq Search!Ball[k + n]
    BY <1>2, MaxDistanceIsNat
  <2>2. k + (n + 1) \in 1 .. MaxDistance /\ (k + (n + 1)) - 1 = k + n
    BY MaxDistanceIsNat
  <2>3. Search!Ball[k + n] \subseteq Search!Ball[k + (n + 1)]
    BY <2>2, BallIs DEF Near
  <2> QED BY <2>1, <2>3
<1>3. Nat \subseteq Q
  <2> HIDE DEF Q
  <2> QED BY <1>1, <1>2, NumberInduction
<1> SUFFICES ASSUME NEW k \in 0 .. MaxDistance, NEW m \in 0 .. MaxDistance, k <= m
             PROVE  Search!Ball[k] \subseteq Search!Ball[m]
  OBVIOUS
<1>4. PICK n \in Nat : k + n = m
  <2>1. m - k \in Nat /\ k + (m - k) = m
    BY MaxDistanceIsNat
  <2> QED BY <2>1
<1>5. n \in Q
  BY <1>3
<1>6. Search!Ball[k] \subseteq Search!Ball[k + n]
  BY <1>4, <1>5, MaxDistanceIsNat
<1> QED BY <1>4, <1>6

\* If nothing is found beyond distance d, nothing is further away.
LEMMA BallEnds ==
  ASSUME NEW d \in 0 .. MaxDistance,
         \A v \in Search!Ball[d] : Range(row[v]) \subseteq Search!Ball[d]
  PROVE  Search!Reachable = Search!Ball[d]
<1> DEFINE Q == {n \in Nat : d + n <= MaxDistance => Search!Ball[d + n] = Search!Ball[d]}
<1>1. 0 \in Q
  BY MaxDistanceIsNat
<1>2. ASSUME NEW n \in Nat, n \in Q PROVE n + 1 \in Q
  <2> SUFFICES ASSUME d + (n + 1) <= MaxDistance
               PROVE  Search!Ball[d + (n + 1)] = Search!Ball[d]
    OBVIOUS
  <2>1. Search!Ball[d + n] = Search!Ball[d]
    BY <1>2, MaxDistanceIsNat
  <2>2. d + (n + 1) \in 1 .. MaxDistance /\ (d + (n + 1)) - 1 = d + n
    BY MaxDistanceIsNat
  <2>3. Search!Ball[d + (n + 1)] = Near(row, Search!Ball[d])
    BY <2>1, <2>2, BallIs
  <2> QED BY <2>3 DEF Near
<1>3. Nat \subseteq Q
  <2> HIDE DEF Q
  <2> QED BY <1>1, <1>2, NumberInduction
<1>4. PICK n \in Nat : d + n = MaxDistance
  <2>1. MaxDistance - d \in Nat /\ d + (MaxDistance - d) = MaxDistance
    BY MaxDistanceIsNat
  <2> QED BY <2>1
<1>5. n \in Q
  BY <1>3
<1>6. Search!Ball[MaxDistance] = Search!Ball[d]
  BY <1>4, <1>5, MaxDistanceIsNat
<1> QED BY <1>6, SameOperators DEF Search!Reachable

----------------------------------------------------------------------------
(* The folds of sync_func *)

\* One step of the fold of Merged, or of the one of Fresh, with the element at
\* index x; h tells which of the two.
FoldStep(h, s, x) ==
  IF h.all THEN s \o h.list[x]
  ELSE IF h.list[x] \in h.marked \cup Range(s) THEN s ELSE Append(s, h.list[x])

\* The function over sets of indices that FoldLeft is defined by.
IsFold(f, h, S) ==
  f = [s \in SUBSET S |-> IF s = {} THEN <<>>
                          ELSE FoldStep(h, f[s \ {Max(s)}], Max(s))]

Indices(S) == IsFiniteSet(S) /\ S \subseteq Int

LEMMA SomeIndices == \A S : Indices(S) => \A r \in SUBSET S : Indices(r)
BY FS_Subset DEF Indices

LEMMA MaxIsIn ==
  ASSUME NEW S, Indices(S)
  PROVE  \A s \in SUBSET S : s # {} => Max(s) \in s /\ \A x \in s : Max(s) >= x
<1> DEFINE Q == {s \in SUBSET S : s # {} => \E m \in s : \A x \in s : m >= x}
<1>1. ASSUME NEW s \in SUBSET S, \A r \in SUBSET s : r # s => r \in Q
      PROVE  s \in Q
  <2> SUFFICES ASSUME s # {} PROVE \E m \in s : \A x \in s : m >= x
    OBVIOUS
  <2>1. PICK a \in s : TRUE
    OBVIOUS
  <2>4. s \subseteq Int
    BY DEF Indices
  <2>2. CASE s \ {a} = {}
    BY <2>1, <2>2, <2>4
  <2>3. CASE s \ {a} # {}
    <3>1. s \ {a} \in SUBSET s /\ s \ {a} # s
      BY <2>1
    <3>2. s \ {a} \in Q
      BY <1>1, <3>1
    <3>3. PICK m \in s \ {a} : \A x \in s \ {a} : m >= x
      BY <2>3, <3>2
    <3>4. CASE m >= a
      BY <3>3, <3>4
    <3>5. CASE ~(m >= a)
      BY <2>1, <2>4, <3>3, <3>5
    <3> QED BY <3>4, <3>5
  <2> QED BY <2>2, <2>3
<1>2. SUBSET S \subseteq Q
  <2> HIDE DEF Q
  <2> QED BY <1>1, SubsetInduction DEF Indices
<1> QED BY <1>2 DEF Max

LEMMA FoldAt ==
  ASSUME NEW f, NEW h, NEW S, IsFold(f, h, S), NEW s \in SUBSET S
  PROVE  f[s] = IF s = {} THEN <<>> ELSE FoldStep(h, f[s \ {Max(s)}], Max(s))
BY DEF IsFold

\* Two such functions agree on the sets they both know.
LEMMA FoldsAgree ==
  ASSUME NEW h, NEW S, Indices(S), NEW U \in SUBSET S,
         NEW f, IsFold(f, h, S), NEW g, IsFold(g, h, U)
  PROVE  \A s \in SUBSET U : f[s] = g[s]
<1> DEFINE Q == {s \in SUBSET U : f[s] = g[s]}
<1>1. IsFiniteSet(U)
  BY SomeIndices DEF Indices
<1>2. ASSUME NEW s \in SUBSET U, \A r \in SUBSET s : r # s => r \in Q
      PROVE  s \in Q
  <2>1. CASE s = {}
    BY <2>1, FoldAt
  <2>2. CASE s # {}
    <3>1. s \ {Max(s)} \in SUBSET s /\ s \ {Max(s)} # s
      BY <2>2, MaxIsIn
    <3>2. f[s \ {Max(s)}] = g[s \ {Max(s)}]
      BY <1>2, <3>1
    <3>3. s \in SUBSET S
      OBVIOUS
    <3>4. f[s] = FoldStep(h, f[s \ {Max(s)}], Max(s))
      BY <2>2, <3>3, FoldAt
    <3>5. g[s] = FoldStep(h, g[s \ {Max(s)}], Max(s))
      BY <2>2, FoldAt
    <3> QED BY <3>2, <3>4, <3>5
  <2> QED BY <2>1, <2>2
<1>3. SUBSET U \subseteq Q
  <2> HIDE DEF Q
  <2> QED BY <1>1, <1>2, SubsetInduction
<1> QED BY <1>3

\* There is such a function for every finite set of indices.
LEMMA FoldExists ==
  ASSUME NEW h, NEW S, Indices(S)
  PROVE  \E f : IsFold(f, h, S)
<1> DEFINE Q == {s \in SUBSET S : \E f : IsFold(f, h, s)}
<1>1. ASSUME NEW s \in SUBSET S, \A r \in SUBSET s : r # s => r \in Q
      PROVE  s \in Q
  <2> DEFINE F(r) == CHOOSE f : IsFold(f, h, r)
             G == [r \in SUBSET s |->
                     IF r = {} THEN <<>>
                     ELSE FoldStep(h, F(r \ {Max(r)})[r \ {Max(r)}], Max(r))]
  <2>1. \A r \in SUBSET s : r # s => IsFold(F(r), h, r)
    BY <1>1
  <2>2. ASSUME NEW r \in SUBSET s, r # s
        PROVE  G[r] = F(r)[r]
    <3>1. IsFold(F(r), h, r)
      BY <2>1, <2>2
    <3>2. F(r)[r] = IF r = {} THEN <<>> ELSE FoldStep(h, F(r)[r \ {Max(r)}], Max(r))
      BY <3>1, FoldAt
    <3>3. CASE r = {}
      BY <3>2, <3>3
    <3>4. CASE r # {}
      <4> DEFINE q == r \ {Max(r)}
      <4>1. q \in SUBSET r /\ q # s
        BY <2>2, <3>4, MaxIsIn
      <4>2. IsFold(F(q), h, q)
        <5>1. q \in SUBSET s
          BY <4>1
        <5> HIDE DEF q, F
        <5> QED BY <2>1, <4>1, <5>1
      <4>3. Indices(r)
        <5>1. r \in SUBSET S
          OBVIOUS
        <5> HIDE DEF F, G
        <5> QED BY <5>1, SomeIndices
      <4>4. F(r)[q] = F(q)[q]
        <5> HIDE DEF q, F
        <5> QED BY <3>1, <4>1, <4>2, <4>3, FoldsAgree
      <4>5. G[r] = FoldStep(h, F(q)[q], Max(r))
        <5>1. G[r] = IF r = {} THEN <<>>
                     ELSE FoldStep(h, F(r \ {Max(r)})[r \ {Max(r)}], Max(r))
          OBVIOUS
        <5> HIDE DEF F, G
        <5> QED BY <3>4, <5>1
      <4> QED BY <3>2, <3>4, <4>4, <4>5
    <3> QED BY <3>3, <3>4
  <2>3. ASSUME NEW r \in SUBSET s, r # {}
        PROVE  G[r \ {Max(r)}] = F(r \ {Max(r)})[r \ {Max(r)}]
    <3>1. r \ {Max(r)} \in SUBSET s /\ r \ {Max(r)} # s
      BY <2>3, MaxIsIn
    <3> HIDE DEF F, G
    <3> QED BY <2>2, <3>1
  <2>4. IsFold(G, h, s)
    <3>1. \A r \in SUBSET s : G[r] = IF r = {} THEN <<>>
                                     ELSE FoldStep(h, G[r \ {Max(r)}], Max(r))
      <4> TAKE r \in SUBSET s
      <4>1. G[r] = IF r = {} THEN <<>>
                   ELSE FoldStep(h, F(r \ {Max(r)})[r \ {Max(r)}], Max(r))
        OBVIOUS
      <4> HIDE DEF F, G
      <4> QED BY <2>3, <4>1
    <3>2. G = [r \in SUBSET s |-> G[r]]
      <4> HIDE DEF F
      <4> QED OBVIOUS
    <3> HIDE DEF F, G
    <3> QED BY <3>1, <3>2 DEF IsFold
  <2> HIDE DEF F, G
  <2> QED BY <2>4
<1>2. SUBSET S \subseteq Q
  <2> HIDE DEF Q
  <2> QED BY <1>1, SubsetInduction DEF Indices
<1> QED BY <1>2

\* Such a function goes through the sequence from its beginning.
LEMMA FoldGoes ==
  ASSUME NEW h, NEW n \in Nat, NEW f, IsFold(f, h, 1 .. n)
  PROVE  /\ f[1 .. 0] = <<>>
         /\ \A k \in 1 .. n : f[1 .. k] = FoldStep(h, f[1 .. k - 1], k)
<1>1. 1 .. 0 = {} /\ 1 .. 0 \in SUBSET (1 .. n)
  OBVIOUS
<1>2. f[1 .. 0] = <<>>
  BY <1>1, FoldAt
<1>3. ASSUME NEW k \in 1 .. n
      PROVE  f[1 .. k] = FoldStep(h, f[1 .. k - 1], k)
  <2>1. 1 .. k \in SUBSET (1 .. n) /\ 1 .. k # {} /\ k \in 1 .. k
    <3>1. k \in Nat /\ k \in 1 .. k /\ \A x \in 1 .. k : x \in 1 .. n
      OBVIOUS
    <3> QED BY <3>1
  <2>2. Indices(1 .. k)
    BY FS_Interval DEF Indices
  <2>3. Max(1 .. k) \in 1 .. k /\ Max(1 .. k) >= k
    BY <2>1, <2>2, MaxIsIn
  <2>4. Max(1 .. k) = k
    BY <2>3
  <2>5. (1 .. k) \ {k} = 1 .. k - 1
    OBVIOUS
  <2> QED BY <2>1, <2>4, <2>5, FoldAt
<1> QED BY <1>2, <1>3

\* Merged is what m has come to when it has gone through all threads.
LEMMA MergedIs ==
  \E m : /\ m[0] = <<>>
         /\ \A k \in 1 .. num_threads : m[k] = m[k - 1] \o next_visit[k - 1]
         /\ Merged = m[num_threads]
<1> DEFINE n == num_threads
           threads == [k \in 1 .. n |-> k - 1]
           h == [all |-> TRUE, list |-> [x \in 1 .. n |-> next_visit[x - 1]]]
           Is(f) == f = [s \in SUBSET (DOMAIN threads) |->
                           IF s = {} THEN <<>>
                           ELSE LET x == Max(s)
                                IN f[s \ {x}] \o next_visit[threads[x]]]
<1>1. n \in Nat /\ n # 0 /\ DOMAIN threads = 1 .. n /\ Indices(1 .. n)
  <2>1. n \in Nat /\ n # 0
    BY ThreadsAssumption
  <2>2. DOMAIN threads = 1 .. n
    OBVIOUS
  <2>3. Indices(1 .. n)
    BY <2>1, FS_Interval DEF Indices
  <2> HIDE DEF threads, n
  <2> QED BY <2>1, <2>2, <2>3
<1>2. \A s \in SUBSET (1 .. n) : s # {} => Max(s) \in 1 .. n
  BY <1>1, MaxIsIn
<1>3. \A f : Is(f) <=> IsFold(f, h, 1 .. n)
  <2>1. ASSUME NEW f, NEW s \in SUBSET (1 .. n), s # {}
        PROVE  f[s \ {Max(s)}] \o next_visit[threads[Max(s)]]
                 = FoldStep(h, f[s \ {Max(s)}], Max(s))
    <3>1. Max(s) \in 1 .. n
      BY <1>2, <2>1
    <3>2. threads[Max(s)] = Max(s) - 1 /\ h.all /\ h.list[Max(s)] = next_visit[Max(s) - 1]
      BY <3>1
    <3> HIDE DEF h, threads, n
    <3> QED BY <3>2 DEF FoldStep
  <2> HIDE DEF h, threads, n
  <2> QED BY <1>1, <2>1 DEF IsFold
<1>4. Merged = (CHOOSE f : Is(f))[DOMAIN threads]
  BY DEF Merged, FoldLeft, MapThenFoldSet
<1>5. PICK f : Is(f) /\ Merged = f[1 .. n]
  <2>1. \E f : Is(f)
    <3>1. \E f : IsFold(f, h, 1 .. n)
      <4> HIDE DEF h, n
      <4> QED BY <1>1, FoldExists
    <3> HIDE DEF h, Is, n
    <3> QED BY <1>3, <3>1
  <2>2. Is(CHOOSE f : Is(f))
    <3> HIDE DEF Is
    <3> QED BY <2>1
  <2> HIDE DEF Is, threads
  <2> QED BY <1>1, <1>4, <2>2
<1>6. /\ f[1 .. 0] = <<>>
      /\ \A k \in 1 .. n : f[1 .. k] = FoldStep(h, f[1 .. k - 1], k)
  <2> HIDE DEF h, Is, n
  <2> QED BY <1>1, <1>3, <1>5, FoldGoes
<1> DEFINE m == [k \in 0 .. n |-> f[1 .. k]]
<1>7. m[0] = <<>> /\ Merged = m[n]
  <2>1. 0 \in 0 .. n /\ n \in 0 .. n
    BY <1>1
  <2>2. m[0] = f[1 .. 0] /\ m[n] = f[1 .. n]
    <3> HIDE DEF n
    <3> QED BY <2>1
  <2> HIDE DEF m, n, h, Is
  <2> QED BY <1>5, <1>6, <2>2
<1>8. ASSUME NEW k \in 1 .. n
      PROVE  m[k] = m[k - 1] \o next_visit[k - 1]
  <2>1. m[k] = f[1 .. k] /\ m[k - 1] = f[1 .. k - 1] /\ h.all /\ h.list[k] = next_visit[k - 1]
    BY <1>1
  <2>2. f[1 .. k] = FoldStep(h, f[1 .. k - 1], k)
    BY <1>6
  <2> HIDE DEF m, h
  <2> QED BY <2>1, <2>2 DEF FoldStep
<1> HIDE DEF m
<1> QED BY <1>7, <1>8

\* Fresh is what m has come to when it has gone through Merged.
LEMMA FreshIs ==
  ASSUME Merged \in Seq(Vertices), version # 1
  PROVE  \E m : /\ m[0] = <<>>
                /\ \A k \in 1 .. Len(Merged) :
                     m[k] = IF Merged[k] \in visited \cup Range(m[k - 1]) THEN m[k - 1]
                            ELSE Append(m[k - 1], Merged[k])
                /\ Fresh = m[Len(Merged)]
<1> DEFINE n == Len(Merged)
           h == [all |-> FALSE, list |-> Merged, marked |-> visited]
           Is(f) == f = [s \in SUBSET (DOMAIN Merged) |->
                           IF s = {} THEN <<>>
                           ELSE LET x == Max(s)
                                IN IF Merged[x] \in visited \cup Range(f[s \ {x}])
                                   THEN f[s \ {x}]
                                   ELSE Append(f[s \ {x}], Merged[x])]
<1>1. n \in Nat /\ DOMAIN Merged = 1 .. n /\ Indices(1 .. n)
  <2>1. n \in Nat /\ DOMAIN Merged = 1 .. n
    BY LenProperties
  <2> HIDE DEF n
  <2> QED BY <2>1, FS_Interval DEF Indices
<1>3. \A f : Is(f) <=> IsFold(f, h, 1 .. n)
  <2>1. ASSUME NEW f, NEW s
        PROVE  (IF Merged[Max(s)] \in visited \cup Range(f[s \ {Max(s)}])
                THEN f[s \ {Max(s)}]
                ELSE Append(f[s \ {Max(s)}], Merged[Max(s)]))
                 = FoldStep(h, f[s \ {Max(s)}], Max(s))
    <3>1. ~h.all /\ h.list = Merged /\ h.marked = visited
      OBVIOUS
    <3> HIDE DEF h, n
    <3> QED BY <3>1 DEF FoldStep
  <2> HIDE DEF h, n
  <2> QED BY <1>1, <2>1 DEF IsFold
<1>4. Fresh = (CHOOSE f : Is(f))[DOMAIN Merged]
  BY DEF Fresh, FoldLeft, MapThenFoldSet
<1>5. PICK f : Is(f) /\ Fresh = f[1 .. n]
  <2>1. \E f : Is(f)
    <3>1. \E f : IsFold(f, h, 1 .. n)
      <4> HIDE DEF h, n
      <4> QED BY <1>1, FoldExists
    <3> HIDE DEF h, Is, n
    <3> QED BY <1>3, <3>1
  <2>2. Is(CHOOSE f : Is(f))
    <3> HIDE DEF Is
    <3> QED BY <2>1
  <2> HIDE DEF Is, n
  <2> QED BY <1>1, <1>4, <2>2
<1>6. /\ f[1 .. 0] = <<>>
      /\ \A k \in 1 .. n : f[1 .. k] = FoldStep(h, f[1 .. k - 1], k)
  <2> HIDE DEF h, Is, n
  <2> QED BY <1>1, <1>3, <1>5, FoldGoes
<1> DEFINE m == [k \in 0 .. n |-> f[1 .. k]]
<1>7. m[0] = <<>> /\ Fresh = m[n]
  <2>1. 0 \in 0 .. n /\ n \in 0 .. n
    BY <1>1
  <2>2. m[0] = f[1 .. 0] /\ m[n] = f[1 .. n]
    <3> HIDE DEF n
    <3> QED BY <2>1
  <2> HIDE DEF m, n, h, Is
  <2> QED BY <1>5, <1>6, <2>2
<1>8. ASSUME NEW k \in 1 .. n
      PROVE  m[k] = IF Merged[k] \in visited \cup Range(m[k - 1]) THEN m[k - 1]
                    ELSE Append(m[k - 1], Merged[k])
  <2>1. k \in 0 .. n /\ k - 1 \in 0 .. n
    BY <1>1
  <2>2. m[k] = f[1 .. k] /\ m[k - 1] = f[1 .. k - 1]
    <3> HIDE DEF n
    <3> QED BY <2>1
  <2>3. ~h.all /\ h.list = Merged /\ h.marked = visited
    OBVIOUS
  <2>4. f[1 .. k] = FoldStep(h, f[1 .. k - 1], k)
    BY <1>6
  <2> HIDE DEF m, h
  <2> QED BY <2>2, <2>3, <2>4 DEF FoldStep
<1> HIDE DEF m
<1> QED BY <1>7, <1>8

----------------------------------------------------------------------------
(* What sync_func makes of the lists *)

\* The vertices that the threads have found in this round.
Found == UNION {Range(next_visit[t]) : t \in Threads}

LEMMA RangeOfConcat ==
  ASSUME NEW S, NEW s \in Seq(S), NEW r \in Seq(S)
  PROVE  /\ s \o r \in Seq(S)
         /\ Range(s \o r) = Range(s) \cup Range(r)
         /\ IsInjective(s) /\ IsInjective(r) /\ Range(s) \cap Range(r) = {}
              => IsInjective(s \o r)
<1>1. /\ s \o r \in Seq(S) /\ Len(s) \in Nat /\ Len(r) \in Nat
      /\ Len(s \o r) = Len(s) + Len(r)
      /\ \A k \in 1 .. Len(s) + Len(r) :
           (s \o r)[k] = IF k <= Len(s) THEN s[k] ELSE r[k - Len(s)]
  BY ConcatProperties, LenProperties
<1>2. /\ DOMAIN s = 1 .. Len(s) /\ DOMAIN r = 1 .. Len(r)
      /\ DOMAIN (s \o r) = 1 .. Len(s) + Len(r)
  BY <1>1, LenProperties
<1>3. PICK c : c = s \o r
  OBVIOUS
<1>4. /\ \A k \in 1 .. Len(s) : k \in DOMAIN c /\ c[k] = s[k]
      /\ \A k \in 1 .. Len(r) : Len(s) + k \in DOMAIN c /\ c[Len(s) + k] = r[k]
      /\ \A k \in DOMAIN c : \/ k \in 1 .. Len(s) /\ c[k] = s[k]
                             \/ k - Len(s) \in 1 .. Len(r) /\ c[k] = r[k - Len(s)]
  BY <1>1, <1>2, <1>3
<1>5. Range(c) = Range(s) \cup Range(r)
  <2>1. \A x : x \in Range(c) => x \in Range(s) \/ x \in Range(r)
    BY <1>2, <1>4 DEF Range
  <2>2. \A x : x \in Range(s) => x \in Range(c)
    BY <1>2, <1>4 DEF Range
  <2>3. \A x : x \in Range(r) => x \in Range(c)
    BY <1>2, <1>4 DEF Range
  <2> QED BY <2>1, <2>2, <2>3
<1>6. ASSUME IsInjective(s), IsInjective(r), Range(s) \cap Range(r) = {}
      PROVE  IsInjective(c)
  <2> SUFFICES ASSUME NEW a \in DOMAIN c, NEW b \in DOMAIN c, c[a] = c[b] PROVE a = b
    BY DEF IsInjective
  <2>1. \A k \in 1 .. Len(s), l \in 1 .. Len(r) : s[k] # r[l]
    BY <1>2, <1>6 DEF Range
  <2>2. CASE a \in 1 .. Len(s) /\ b \in 1 .. Len(s) /\ c[a] = s[a] /\ c[b] = s[b]
    BY <1>2, <1>6, <2>2 DEF IsInjective
  <2>3. CASE /\ a - Len(s) \in 1 .. Len(r) /\ b - Len(s) \in 1 .. Len(r)
             /\ c[a] = r[a - Len(s)] /\ c[b] = r[b - Len(s)]
    <3>1. a - Len(s) = b - Len(s)
      BY <1>2, <1>6, <2>3 DEF IsInjective
    <3> QED BY <1>1, <1>2, <1>3, <3>1
  <2> QED BY <1>4, <2>1, <2>2, <2>3
<1> QED BY <1>1, <1>3, <1>5, <1>6

LEMMA RangeOfAppend ==
  ASSUME NEW S, NEW s \in Seq(S), NEW x \in S
  PROVE  /\ Append(s, x) \in Seq(S)
         /\ Range(Append(s, x)) = Range(s) \cup {x}
         /\ IsInjective(s) /\ x \notin Range(s) => IsInjective(Append(s, x))
<1>1. PICK c : c = Append(s, x)
  OBVIOUS
<1>2. /\ c \in Seq(S) /\ Len(s) \in Nat /\ DOMAIN s = 1 .. Len(s) /\ Len(c) = Len(s) + 1
      /\ DOMAIN c = 1 .. Len(s) + 1
      /\ c[Len(s) + 1] = x
      /\ \A k \in 1 .. Len(s) : c[k] = s[k]
  BY <1>1, AppendProperties, LenProperties
<1>3. Range(c) = Range(s) \cup {x}
  <2>1. \A k \in DOMAIN c : k \in DOMAIN s \/ k = Len(s) + 1
    BY <1>2
  <2>2. \A y : y \in Range(c) => y \in Range(s) \/ y = x
    BY <1>2, <2>1 DEF Range
  <2>3. \A y : y \in Range(s) => y \in Range(c)
    BY <1>2 DEF Range
  <2>4. x \in Range(c)
    BY <1>2 DEF Range
  <2> QED BY <2>2, <2>3, <2>4
<1>4. ASSUME IsInjective(s), x \notin Range(s) PROVE IsInjective(c)
  <2> SUFFICES ASSUME NEW a \in DOMAIN c, NEW b \in DOMAIN c, c[a] = c[b] PROVE a = b
    BY DEF IsInjective
  <2>1. \A k \in 1 .. Len(s) : s[k] # x
    BY <1>2, <1>4 DEF Range
  <2>2. CASE a \in 1 .. Len(s) /\ b \in 1 .. Len(s)
    BY <1>2, <1>4, <2>2 DEF IsInjective
  <2> QED BY <1>2, <2>1, <2>2
<1> QED BY <1>1, <1>2, <1>3, <1>4

\* No thread has found a vertex twice, and no two threads the same one.
Distinct == /\ \A t \in Threads : IsInjective(next_visit[t])
            /\ \A t, u \in Threads : t # u =>
                 Range(next_visit[t]) \cap Range(next_visit[u]) = {}

LEMMA EmptyRange == Range(<<>>) = {} /\ IsInjective(<<>>) /\ \A S : <<>> \in Seq(S)
BY EmptySeq DEF Range, IsInjective

LEMMA MergedFacts ==
  ASSUME next_visit \in [Threads -> Seq(Vertices)]
  PROVE  /\ Merged \in Seq(Vertices)
         /\ Range(Merged) = Found
         /\ Distinct => IsInjective(Merged)
<1>1. PICK m : /\ m[0] = <<>>
               /\ \A k \in 1 .. num_threads : m[k] = m[k - 1] \o next_visit[k - 1]
               /\ Merged = m[num_threads]
  BY MergedIs
<1>2. num_threads \in Nat /\ \A t : t \in Threads <=> t \in Nat /\ t < num_threads
  BY ThreadsAssumption DEF Threads
<1> DEFINE First(k) == UNION {Range(next_visit[u]) : u \in {v \in Threads : v < k}}
           OK(k) == /\ m[k] \in Seq(Vertices)
                    /\ Range(m[k]) = First(k)
                    /\ Distinct => IsInjective(m[k])
           Q == {k \in Nat : k <= num_threads => OK(k)}
<1>3. 0 \in Q
  <2>1. {v \in Threads : v < 0} = {}
    BY <1>2
  <2>2. First(0) = {}
    BY <2>1
  <2> HIDE DEF First
  <2> QED BY <1>1, <2>2, EmptyRange
<1>4. ASSUME NEW k \in Nat, k \in Q PROVE k + 1 \in Q
  <2> SUFFICES ASSUME k + 1 <= num_threads PROVE OK(k + 1)
    OBVIOUS
  <2>1. OK(k) /\ k \in Threads
    BY <1>2, <1>4
  <2>2. m[k + 1] = m[k] \o next_visit[k]
    <3>1. k + 1 \in 1 .. num_threads /\ (k + 1) - 1 = k
      BY <1>2
    <3> HIDE DEF Q
    <3> QED BY <1>1, <3>1
  <2>3. First(k + 1) = First(k) \cup Range(next_visit[k])
    <3>1. {v \in Threads : v < k + 1} = {v \in Threads : v < k} \cup {k}
      BY <1>2, <2>1
    <3> QED BY <3>1
  <2>4. Distinct => IsInjective(next_visit[k]) /\ First(k) \cap Range(next_visit[k]) = {}
    BY <2>1, <1>2 DEF Distinct
  <2>5. next_visit[k] \in Seq(Vertices)
    BY <2>1
  <2> HIDE DEF First, Q
  <2>6. PICK a : a = m[k]
    OBVIOUS
  <2>7. PICK b : b = next_visit[k]
    OBVIOUS
  <2>8. /\ a \in Seq(Vertices) /\ b \in Seq(Vertices)
        /\ Distinct => IsInjective(a) /\ IsInjective(b) /\ Range(a) \cap Range(b) = {}
    BY <2>1, <2>4, <2>5, <2>6, <2>7
  <2>9. /\ a \o b \in Seq(Vertices)
        /\ Range(a \o b) = Range(a) \cup Range(b)
        /\ Distinct => IsInjective(a \o b)
    BY <2>8, RangeOfConcat
  <2> QED BY <2>1, <2>2, <2>3, <2>6, <2>7, <2>9
<1>5. Nat \subseteq Q
  <2> HIDE DEF Q
  <2> QED BY <1>3, <1>4, NumberInduction
<1>6. OK(num_threads)
  <2>1. num_threads \in Q
    BY <1>2, <1>5
  <2> HIDE DEF OK
  <2> QED BY <1>2, <2>1
<1>7. First(num_threads) = Found
  <2>1. {v \in Threads : v < num_threads} = Threads
    BY <1>2
  <2> QED BY <2>1 DEF Found
<1> HIDE DEF First
<1> QED BY <1>1, <1>6, <1>7

\* Whichever way the bits are used, the completion function makes a list of
\* the vertices that have been found and had not been visited, without a
\* repetition.
LEMMA FreshFacts ==
  ASSUME next_visit \in [Threads -> Seq(Vertices)], version = 1 => Distinct
  PROVE  /\ Fresh \in Seq(Vertices)
         /\ IsInjective(Fresh)
         /\ Range(Fresh) = IF version = 1 THEN Found ELSE Found \ visited
<1>1. CASE version = 1
  BY <1>1, MergedFacts DEF Fresh
<1>2. CASE version # 1
  <2>1. Merged \in Seq(Vertices) /\ Range(Merged) = Found
    BY MergedFacts
  <2>2. PICK m : /\ m[0] = <<>>
                 /\ \A k \in 1 .. Len(Merged) :
                      m[k] = IF Merged[k] \in visited \cup Range(m[k - 1]) THEN m[k - 1]
                             ELSE Append(m[k - 1], Merged[k])
                 /\ Fresh = m[Len(Merged)]
    BY <1>2, <2>1, FreshIs
  <2>3. Len(Merged) \in Nat /\ DOMAIN Merged = 1 .. Len(Merged)
        /\ \A k \in 1 .. Len(Merged) : Merged[k] \in Vertices
    BY <2>1, LenProperties, ElementOfSeq
  <2> DEFINE First(k) == {Merged[l] : l \in 1 .. k}
             OK(k) == /\ m[k] \in Seq(Vertices)
                      /\ Range(m[k]) = First(k) \ visited
                      /\ IsInjective(m[k])
             Q == {k \in Nat : k <= Len(Merged) => OK(k)}
  <2>4. 0 \in Q
    <3>1. First(0) = {}
      OBVIOUS
    <3> HIDE DEF First
    <3> QED BY <2>2, <3>1, EmptyRange
  <2>5. ASSUME NEW k \in Nat, k \in Q PROVE k + 1 \in Q
    <3> SUFFICES ASSUME k + 1 <= Len(Merged) PROVE OK(k + 1)
      OBVIOUS
    <3>1. OK(k) /\ k + 1 \in 1 .. Len(Merged) /\ Merged[k + 1] \in Vertices
      BY <2>3, <2>5
    <3>2. m[k + 1] = IF Merged[k + 1] \in visited \cup Range(m[k]) THEN m[k]
                     ELSE Append(m[k], Merged[k + 1])
      BY <2>2, <3>1
    <3>3. First(k + 1) = First(k) \cup {Merged[k + 1]}
      <4>1. 1 .. k + 1 = 1 .. k \cup {k + 1}
        OBVIOUS
      <4> QED BY <4>1
    <3> HIDE DEF First
    <3>4. CASE Merged[k + 1] \in visited \cup Range(m[k])
      BY <3>1, <3>2, <3>3, <3>4
    <3>5. CASE Merged[k + 1] \notin visited \cup Range(m[k])
      BY <3>1, <3>2, <3>3, <3>5, RangeOfAppend
    <3> QED BY <3>4, <3>5
  <2>6. Nat \subseteq Q
    <3> HIDE DEF Q
    <3> QED BY <2>4, <2>5, NumberInduction
  <2>7. OK(Len(Merged))
    <3>1. Len(Merged) \in Q
      BY <2>3, <2>6
    <3> HIDE DEF OK
    <3> QED BY <2>3, <3>1
  <2>8. First(Len(Merged)) = Found
    BY <2>1, <2>3 DEF Range
  <2> HIDE DEF First
  <2> QED BY <1>2, <2>2, <2>7, <2>8
<1> QED BY <1>1, <1>2

\* A sequence without a repetition is not longer than there are elements.
LEMMA InjectiveIsShort ==
  ASSUME NEW S, IsFiniteSet(S), NEW s \in Seq(S), IsInjective(s)
  PROVE  Len(s) <= Cardinality(S)
<1>1. Len(s) \in Nat /\ DOMAIN s = 1 .. Len(s) /\ s \in [1 .. Len(s) -> S]
  BY LenProperties, ElementOfSeq
<1>2. IsFiniteSet(1 .. Len(s)) /\ Cardinality(1 .. Len(s)) = Len(s)
  BY <1>1, FS_Interval
<1>3. s \in Injection(1 .. Len(s), S)
  BY <1>1 DEF Injection, IsInjective
<1> QED BY <1>1, <1>2, <1>3, FS_Injection

----------------------------------------------------------------------------
(* The shares of the threads cover the list *)

\* The indices of to_visit that t goes through.
Share(t) == {k \in 0 .. Len(to_visit) - 1 :
               /\ FirstIndex(t) <= k /\ k < EndIndex(t)
               /\ version = 3 => k % num_threads = t}

LEMMA Pieces ==
  ASSUME NEW w \in Nat, NEW k \in Nat
  PROVE  \A n \in Nat : \E t \in 0 .. n : t * w <= k /\ (t = n \/ k < (t + 1) * w)
<1> DEFINE Q == {n \in Nat : \E t \in 0 .. n : t * w <= k /\ (t = n \/ k < (t + 1) * w)}
<1>1. 0 \in Q
  OBVIOUS
<1>2. ASSUME NEW n \in Nat, n \in Q PROVE n + 1 \in Q
  <2>1. PICK t \in 0 .. n : t * w <= k /\ (t = n \/ k < (t + 1) * w)
    BY <1>2
  <2>2. (t + 1) * w \in Nat
    OBVIOUS
  <2>3. CASE k < (t + 1) * w
    BY <2>1, <2>3
  <2>4. CASE ~(k < (t + 1) * w)
    BY <2>1, <2>2, <2>4
  <2> QED BY <2>3, <2>4
<1>3. Nat \subseteq Q
  <2> HIDE DEF Q
  <2> QED BY <1>1, <1>2, NumberInduction
<1> QED BY <1>3

LEMMA SharesCover ==
  ASSUME to_visit \in Seq(Vertices)
  PROVE  /\ \A k \in 0 .. Len(to_visit) - 1 : \E t \in Threads : k \in Share(t)
         /\ \A t \in Threads : /\ FirstIndex(t) \in Nat
                               /\ version = 3 => FirstIndex(t) % num_threads = t
                               /\ EndIndex(t) \in Int /\ EndIndex(t) <= Len(to_visit)
<1>1. PICK n \in Nat : n # 0 /\ n = num_threads
  BY ThreadsAssumption
<1>2. PICK l \in Nat : l = Len(to_visit)
  BY LenProperties
<1>3. PICK w : w = l \div n
  OBVIOUS
<1>4. w \in Nat /\ w * n <= l
  <2>1. w \in Int /\ l % n \in 0 .. n - 1 /\ l = n * w + (l % n)
    BY <1>1, <1>2, <1>3
  <2>2. w >= 0
    <3> SUFFICES ASSUME w < 0 PROVE FALSE
      BY <2>1
    <3>1. PICK d \in Nat : w = -1 - d
      <4>1. -1 - w \in Nat /\ w = -1 - (-1 - w)
        BY <2>1
      <4> QED BY <4>1
    <3>2. n * (-1 - d) = -n - n * d /\ n * d \in Nat
      BY <1>1, <3>1
    <3> QED BY <1>1, <1>2, <2>1, <3>1, <3>2
  <2>3. n * w = w * n /\ n * w \in Int
    BY <1>1, <2>1
  <2> QED BY <2>1, <2>2, <2>3, <1>1, <1>2
<1>5. \A t : t \in Threads <=> t \in 0 .. n - 1
  BY <1>1 DEF Threads
<1>6. \A t : /\ FirstIndex(t) = IF version = 3 THEN t ELSE t * w
             /\ EndIndex(t) = IF version = 3 \/ t = n - 1 THEN l ELSE (t + 1) * w
  BY <1>1, <1>2, <1>3 DEF FirstIndex, EndIndex, ContiguousEnd, thread_share
<1>7. ASSUME NEW t \in Threads
      PROVE  /\ FirstIndex(t) \in Nat
             /\ version = 3 => FirstIndex(t) % n = t
             /\ EndIndex(t) \in Int /\ EndIndex(t) <= l
  <2>1. t \in Nat /\ t <= n - 1
    BY <1>1, <1>5
  <2>2. t * w \in Nat /\ (t + 1) * w \in Nat /\ w * n \in Nat
    BY <1>1, <1>4, <2>1
  <2>3. (t + 1) * w <= w * n
    <3>1. \A a, b \in Nat : a <= b => a * w <= b * w
      BY <1>4
    <3>2. n * w = w * n /\ t + 1 <= n
      BY <1>1, <1>4, <2>1
    <3>3. (t + 1) * w <= n * w
      BY <1>1, <2>1, <3>1, <3>2
    <3> QED BY <3>2, <3>3
  <2>4. t % n = t
    BY <1>1, <2>1
  <2> QED BY <1>2, <1>4, <1>6, <2>1, <2>2, <2>3, <2>4
<1>8. ASSUME NEW k \in 0 .. l - 1
      PROVE  \E t \in Threads : k \in Share(t)
  <2>1. CASE version = 3
    <3>1. PICK t : t = k % n
      OBVIOUS
    <3>2. t \in 0 .. n - 1 /\ t <= k
      <4>1. k \in Nat
        BY <1>2
      <4>2. t \in 0 .. n - 1
        BY <1>1, <3>1, <4>1
      <4>3. CASE k < n
        BY <1>1, <4>1, <4>3, <3>1
      <4>4. CASE ~(k < n)
        BY <1>1, <4>1, <4>2, <4>4
      <4> QED BY <4>2, <4>3, <4>4
    <3>3. t \in Threads
      BY <1>5, <3>2
    <3>4. k \in Share(t)
      BY <1>1, <1>2, <1>6, <2>1, <3>1, <3>2 DEF Share
    <3> QED BY <3>3, <3>4
  <2>2. CASE version # 3
    <3>1. k \in Nat /\ n - 1 \in Nat
      BY <1>1, <1>2
    <3>2. PICK t \in 0 .. n - 1 : t * w <= k /\ (t = n - 1 \/ k < (t + 1) * w)
      BY <1>4, <3>1, Pieces
    <3>3. t \in Threads
      BY <1>5, <3>2
    <3>4. k < EndIndex(t) /\ FirstIndex(t) <= k
      BY <1>2, <1>6, <2>2, <3>2
    <3>5. k \in Share(t)
      BY <1>2, <2>2, <3>4 DEF Share
    <3> QED BY <3>3, <3>5
  <2> QED BY <2>1, <2>2
<1> QED BY <1>1, <1>2, <1>7, <1>8

----------------------------------------------------------------------------
(* The inductive invariant of a search *)

Types ==
  /\ version \in 1 .. 3
  /\ row \in [Vertices -> Seq(Vertices)]
  /\ to_visit \in Seq(Vertices) /\ observed \in Seq(Vertices)
  /\ next_visit \in [Threads -> Seq(Vertices)]
  /\ i \in [Threads -> Nat] /\ j \in [Threads -> Nat] /\ my_end \in [Threads -> Int]

\* What has been found in this round is new, is behind the vertices to visit,
\* and is marked only in bfs_threads, where nobody finds it twice.
Marks ==
  /\ visited = Range(observed) \cup (IF version = 1 THEN Found ELSE {})
  /\ Found \cap Range(observed) = {}
  /\ Found \subseteq UNION {Range(row[v]) : v \in Range(to_visit)}
  /\ version = 1 => Distinct

Known == Range(observed) \cup Found

\* What t has looked at has been observed or found.
SeenBy(t) ==
  /\ pc[t] \in {"scan", "wait"} =>
       /\ FirstIndex(t) <= i[t]
       /\ version = 3 => i[t] % num_threads = t
       /\ \A k \in Share(t) : k < i[t] => Range(row[to_visit[k + 1]]) \subseteq Known
  /\ Scanning(t) => \A x \in 1 .. j[t] : CurrentRow(t)[x] \in Known
  /\ pc[t] = "wait" => ~(i[t] < my_end[t])

\* The vertices observed are those within d edges from the start, and the ones
\* to visit are all of them that may lead further.
LevelOK(d) ==
  /\ Range(observed) = Search!Ball[d]
  /\ d < Len(observed)
  /\ Range(to_visit) \subseteq Search!Ball[d]
  /\ \A v \in Search!Ball[d] : v \in Range(to_visit) \/ Range(row[v]) \subseteq Search!Ball[d]

\* No vertex of s comes twice or cannot be reached, and none comes before one
\* that is nearer.
Ordered(s) ==
  /\ IsInjective(s)
  /\ Range(s) \subseteq Search!Ball[MaxDistance]
  /\ \A n \in DOMAIN s, k \in 0 .. MaxDistance :
       s[n] \notin Search!Ball[k] => Search!Ball[k] \subseteq {s[m] : m \in 1 .. n - 1}

Levels ==
  /\ observed = <<>> => Joined /\ to_visit = <<>>
  /\ observed # <<>> => /\ Ordered(observed)
                        /\ \E d \in 0 .. MaxDistance : LevelOK(d)

SearchInv == /\ RoundInv /\ Types /\ Marks /\ Levels
             /\ \A t \in Threads : SeenBy(t)

LEMMA NothingFound == next_visit = NoVisits => Found = {} /\ Distinct
<1> SUFFICES ASSUME next_visit = NoVisits PROVE Found = {} /\ Distinct
  OBVIOUS
<1>1. \A t \in Threads : next_visit[t] = <<>>
  BY DEF NoVisits
<1> QED BY <1>1, EmptyRange DEF Found, Distinct

LEMMA NothingFoundNext == next_visit' = NoVisits => Found' = {} /\ Distinct'
<1> SUFFICES ASSUME next_visit' = NoVisits PROVE Found' = {} /\ Distinct'
  OBVIOUS
<1>1. \A t \in Threads : next_visit'[t] = <<>>
  BY DEF NoVisits
<1> QED BY <1>1, EmptyRange DEF Found, Distinct

LEMMA InitSearch == Init => SearchInv
<1> SUFFICES ASSUME Init PROVE SearchInv
  OBVIOUS
<1>1. RoundInv
  BY Initial
<1>2. Types
  BY EmptySeq DEF Init, Types, NoRows, NoVisits, NoLoop
<1>3. Marks
  BY NothingFound, EmptyRange DEF Init, Marks
<1>4. Levels
  BY DEF Init, Levels, Joined, AllThreads
<1>5. \A t \in Threads : SeenBy(t)
  BY DEF Init, SeenBy, AllThreads, Scanning
<1> QED BY <1>1, <1>2, <1>3, <1>4, <1>5 DEF SearchInv

LEMMA ForgetSearch == ASSUME Forget PROVE SearchInv'
<1>1. RoundInv'
  BY ForgetStep
<1>2. Types'
  BY EmptySeq DEF Forget, Types, NoRows, NoVisits, NoLoop
<1>3. Marks'
  BY NothingFoundNext, EmptyRange DEF Forget, Marks
<1>4. Levels'
  BY DEF Forget, Levels, Joined, AllThreads
<1>5. \A t \in Threads : SeenBy(t)'
  BY DEF Forget, SeenBy, AllThreads, Scanning
<1> QED BY <1>1, <1>2, <1>3, <1>4, <1>5 DEF SearchInv

\* The start alone is in order, and is all there is at distance zero.
AtStart == observed = <<start>> /\ to_visit = <<start>>
InProgress == Ordered(observed) /\ \E d \in 0 .. MaxDistance : LevelOK(d)

LEMMA Started == AtStart => InProgress
<1> SUFFICES ASSUME observed = <<start>>, to_visit = <<start>>
             PROVE  Ordered(observed) /\ \E d \in 0 .. MaxDistance : LevelOK(d)
  BY DEF AtStart, InProgress
<1>1. Range(observed) = {start} /\ Range(to_visit) = {start} /\ Len(observed) = 1
      /\ DOMAIN observed = {1} /\ observed[1] = start
  BY DEF Range
<1>2. Search!Ball[0] = {start} /\ 0 \in 0 .. MaxDistance
  BY BallIs, MaxDistanceIsNat
<1>3. LevelOK(0)
  BY <1>1, <1>2 DEF LevelOK
<1>4. IsInjective(observed)
  BY <1>1 DEF IsInjective
<1>5. Range(observed) \subseteq Search!Ball[MaxDistance]
  BY <1>1, <1>2, BallGrows, MaxDistanceIsNat
<1>6. \A n \in DOMAIN observed, k \in 0 .. MaxDistance : observed[n] \in Search!Ball[k]
  BY <1>1, <1>2, BallGrows, MaxDistanceIsNat
<1>7. Ordered(observed)
  BY <1>4, <1>5, <1>6 DEF Ordered
<1> QED BY <1>2, <1>3, <1>7

LEMMA CallIsSearch ==
  ASSUME SearchInv, NEW v \in 1 .. 3, NEW g \in [Vertices -> Seq(Vertices)], Call(v, g)
  PROVE  SearchInv'
<1>1. RoundInv'
  BY CallStep DEF SearchInv
<1>2. Types'
  <2>1. <<start>> \in Seq(Vertices) /\ <<>> \in Seq(Vertices)
    BY StartAssumption, EmptySeq
  <2> QED BY <2>1 DEF Call, Types, NoVisits, NoLoop
<1>3. Marks'
  <2>1. Range(<<start>>) = {start}
    BY DEF Range
  <2> QED BY <2>1, NothingFoundNext DEF Call, Marks
<1>4. Levels'
  <2>1. observed' = <<start>> /\ AtStart'
    BY DEF Call, AtStart
  <2>2. InProgress'
    BY <2>1, Started, PTL
  <2>3. <<start>> # <<>>
    OBVIOUS
  <2> QED BY <2>1, <2>2, <2>3 DEF Levels, InProgress
<1>5. \A t \in Threads : SeenBy(t)'
  BY DEF Call, SeenBy, AllThreads, Scanning
<1> QED BY <1>1, <1>2, <1>3, <1>4, <1>5 DEF SearchInv

\* The distances are those of the graph.
LEMMA SameRows ==
  ASSUME row' = row
  PROVE  /\ Search!Ball' = Search!Ball
         /\ \A d \in 0 .. MaxDistance :
              UNCHANGED <<observed, to_visit>> /\ LevelOK(d) => LevelOK(d)'
         /\ UNCHANGED observed /\ Ordered(observed) => Ordered(observed)'
<1>1. Search!Ball' = Search!Ball
  BY DEF Search!Ball
<1>2. \A d \in 0 .. MaxDistance : UNCHANGED <<observed, to_visit>> /\ LevelOK(d) => LevelOK(d)'
  BY <1>1 DEF LevelOK
<1>3. UNCHANGED observed /\ Ordered(observed) => Ordered(observed)'
  BY <1>1 DEF Ordered
<1> QED BY <1>1, <1>2, <1>3

LEMMA LevelsKept ==
  ASSUME Levels, ~Joined, UNCHANGED <<row, to_visit, observed>>
  PROVE  Levels'
<1>1. observed # <<>> /\ Ordered(observed)
  BY DEF Levels
<1>2. PICK d \in 0 .. MaxDistance : LevelOK(d)
  BY DEF Levels
<1> QED BY <1>1, <1>2, SameRows DEF Levels

LEMMA SharesKept ==
  ASSUME UNCHANGED <<to_visit, version>>
  PROVE  \A t \in Threads : Share(t)' = Share(t) /\ FirstIndex(t)' = FirstIndex(t)
                            /\ EndIndex(t)' = EndIndex(t)
BY DEF Share, FirstIndex, EndIndex, ContiguousEnd, thread_share

\* A step of another thread takes nothing away from what u has looked at.
LEMMA SeenByOthers ==
  ASSUME NEW u \in Threads, SeenBy(u), Known \subseteq Known',
         UNCHANGED <<version, row, to_visit>>,
         pc'[u] = pc[u], i'[u] = i[u], j'[u] = j[u], my_end'[u] = my_end[u]
  PROVE  SeenBy(u)'
<1>1. /\ FirstIndex(u)' = FirstIndex(u) /\ Share(u)' = Share(u)
      /\ Scanning(u)' = Scanning(u) /\ CurrentRow(u)' = CurrentRow(u)
  BY SharesKept DEF Scanning, CurrentRow
<1> QED BY <1>1 DEF SeenBy

\* The steps that find nothing.
LEMMA QuietStep ==
  ASSUME Marks, UNCHANGED <<version, row, visited, to_visit, next_visit, observed>>
  PROVE  Marks' /\ Known' = Known
BY DEF Marks, Known, Found, Distinct

LEMMA TestSearch ==
  ASSUME SearchInv, NEW t \in Threads, Test(t)
  PROVE  SearchInv'
<1>1. RoundInv'
  BY TestStep DEF SearchInv
<1>2. /\ UNCHANGED <<version, row, visited, to_visit, next_visit, observed>>
      /\ pc[t] = "test"
      /\ \A u \in Threads \ {t} : /\ pc'[u] = pc[u] /\ i'[u] = i[u]
                                   /\ j'[u] = j[u] /\ my_end'[u] = my_end[u]
  BY DEF Test, loop, SearchInv, Types, RoundInv
<1>3. Marks' /\ Known' = Known
  BY <1>2, QuietStep DEF SearchInv
<1>4. Levels'
  BY <1>2, LevelsKept DEF SearchInv, Joined
<1>5. /\ FirstIndex(t) \in Nat /\ EndIndex(t) \in Int
      /\ version = 3 => FirstIndex(t) % num_threads = t
  BY SharesCover DEF SearchInv, Types
<1>6. \/ pc'[t] = "exit" /\ UNCHANGED loop
      \/ /\ pc'[t] = "scan"
         /\ i' = [i EXCEPT ![t] = FirstIndex(t)] /\ j' = [j EXCEPT ![t] = 0]
         /\ my_end' = [my_end EXCEPT ![t] = EndIndex(t)]
  BY DEF Test, SearchInv, RoundInv
<1>7. Types'
  BY <1>2, <1>5, <1>6, SMTT(40) DEF SearchInv, Types, loop
<1>8. SeenBy(t)'
  <2>1. CASE pc'[t] = "exit"
    BY <2>1 DEF SeenBy, Scanning
  <2>2. CASE pc'[t] = "scan" /\ i'[t] = FirstIndex(t) /\ j'[t] = 0
    <3>1. \A k \in Share(t)' : ~(k < i'[t])
      <4>1. Share(t)' = Share(t)
        BY <1>2, SharesKept
      <4>2. \A k \in Share(t) : FirstIndex(t) <= k /\ k \in Int
        BY DEF Share
      <4> QED BY <1>5, <2>2, <4>1, <4>2
    <3>2. 1 .. j'[t] = {}
      BY <2>2
    <3>3. FirstIndex(t)' <= i'[t] /\ (version' = 3 => i'[t] % num_threads = t)
      BY <1>2, <1>5, <2>2, SharesKept
    <3> QED BY <2>2, <3>1, <3>2, <3>3 DEF SeenBy
  <2> QED BY <1>6, <2>1, <2>2 DEF SearchInv, Types
<1>9. \A u \in Threads \ {t} : SeenBy(u)'
  BY <1>2, <1>3, SeenByOthers DEF SearchInv, loop
<1> QED BY <1>1, <1>3, <1>4, <1>7, <1>8, <1>9 DEF SearchInv

\* The index of a thread that scans is one of the list, and of its share.
LEMMA InTheList ==
  ASSUME SearchInv, NEW t \in Threads, Scanning(t)
  PROVE  /\ i[t] \in Share(t) /\ i[t] + 1 \in DOMAIN to_visit
         /\ to_visit[i[t] + 1] \in Vertices /\ CurrentRow(t) \in Seq(Vertices)
<1>1. /\ pc[t] = "scan" /\ i[t] \in Nat /\ i[t] < EndIndex(t)
      /\ version = 3 => i[t] % num_threads = t
  BY DEF Scanning, SearchInv, RoundInv, Types, SeenBy
<1>2. to_visit \in Seq(Vertices) /\ Len(to_visit) \in Nat /\ DOMAIN to_visit = 1 .. Len(to_visit)
  BY LenProperties DEF SearchInv, Types
<1>3. EndIndex(t) \in Int /\ EndIndex(t) <= Len(to_visit)
  BY <1>2, SharesCover
<1>4. i[t] + 1 \in 1 .. Len(to_visit) /\ i[t] \in 0 .. Len(to_visit) - 1
  BY <1>1, <1>2, <1>3
<1>5. to_visit[i[t] + 1] \in Vertices
  BY <1>2, <1>4, ElementOfSeq
<1>6. CurrentRow(t) \in Seq(Vertices)
  BY <1>5 DEF CurrentRow, SearchInv, Types
<1>7. FirstIndex(t) <= i[t]
  BY <1>1 DEF SearchInv, SeenBy, Scanning
<1> QED BY <1>1, <1>2, <1>4, <1>5, <1>6, <1>7 DEF Share

\* Equal remainders are a multiple apart.
LEMMA Remainders ==
  ASSUME NEW n \in Nat \ {0}
  PROVE  /\ \A k \in Nat : (k + n) % n = k % n
         /\ \A a, b \in Nat : a % n = b % n /\ a < b + n => a <= b
<1>1. \A a \in Nat : /\ a \div n \in Int /\ a % n \in 0 .. n - 1
                     /\ a = n * (a \div n) + (a % n)
  OBVIOUS
<1>2. \A x, y \in Int : n * (x - y) = n * x - n * y /\ n * x \in Int
  OBVIOUS
<1>3. \A x \in Int : /\ x >= 1 => n * x >= n
                     /\ x <= -1 => n * x <= -n
  OBVIOUS
<1>4. \A x \in Int : -n < n * x /\ n * x < n => x = 0
  BY <1>2, <1>3
<1>5. ASSUME NEW k \in Nat PROVE (k + n) % n = k % n
  <2>1. PICK d \in Int, r \in 0 .. n - 1 : r = k % n /\ k = n * d + r
    BY <1>1
  <2>6. PICK c \in Nat : c = k + n
    OBVIOUS
  <2>7. PICK e \in Int, q \in 0 .. n - 1 : q = c % n /\ c = n * e + q
    BY <1>1
  <2>2. q = (k + n) % n /\ k + n = n * e + q
    BY <2>6, <2>7
  <2>3. n * (e - d) = n + r - q
    BY <1>2, <2>1, <2>2
  <2>4. n * ((e - d) - 1) = n * (e - d) - n
    BY <1>2, <2>1, <2>2
  <2>5. (e - d) - 1 = 0
    BY <1>4, <2>1, <2>2, <2>3, <2>4
  <2> QED BY <2>1, <2>2, <2>3, <2>4, <2>5
<1>6. ASSUME NEW a \in Nat, NEW b \in Nat, a % n = b % n, a < b + n, b < a
      PROVE  FALSE
  <2>1. PICK d \in Int, r \in 0 .. n - 1 : r = a % n /\ a = n * d + r
    BY <1>1
  <2>2. PICK e \in Int : b = n * e + r
    BY <1>1, <1>6, <2>1
  <2>3. n * (d - e) = a - b
    <3>1. n * (d - e) = n * d - n * e
      BY <1>2
    <3>2. PICK x \in Int, y \in Int : x = n * d /\ y = n * e
      BY <1>2
    <3>3. a = x + r /\ b = y + r /\ n * (d - e) = x - y
      BY <2>1, <2>2, <3>1, <3>2
    <3> QED BY <3>3
  <2>4. d - e = 0
    BY <1>4, <1>6, <2>1, <2>2, <2>3
  <2> QED BY <1>6, <2>1, <2>2, <2>3, <2>4
<1> QED BY <1>5, <1>6

LEMMA EndOfRowSearch ==
  ASSUME SearchInv, NEW t \in Threads, EndOfRow(t)
  PROVE  SearchInv'
<1>1. RoundInv'
  BY InRoundStep DEF SearchInv
<1>2. /\ UNCHANGED <<version, row, visited, to_visit, next_visit, pc, my_end, observed>>
      /\ Scanning(t) /\ pc[t] = "scan" /\ j[t] = Len(CurrentRow(t))
      /\ i' = [i EXCEPT ![t] = @ + Stride(t)] /\ j' = [j EXCEPT ![t] = 0]
  BY DEF EndOfRow, Scanning
<1>3. Marks' /\ Known' = Known
  BY <1>2, QuietStep DEF SearchInv
<1>4. Levels'
  BY <1>2, LevelsKept DEF SearchInv, Joined
<1>5. Stride(t) \in Nat /\ i[t] \in Nat
  BY ThreadsAssumption DEF Stride, SearchInv, Types
<1>6. Types'
  BY <1>2, <1>5 DEF SearchInv, Types
<1>7. i'[t] = i[t] + Stride(t) /\ j'[t] = 0
  BY <1>2 DEF SearchInv, Types
<1>8. version = 3 => i'[t] % num_threads = t
  <2> SUFFICES ASSUME version = 3 PROVE i'[t] % num_threads = t
    OBVIOUS
  <2>1. i[t] % num_threads = t /\ i'[t] = i[t] + num_threads
    BY <1>2, <1>7 DEF SearchInv, SeenBy, Stride
  <2> QED BY <1>5, <2>1, Remainders, ThreadsAssumption
<1>9. Range(CurrentRow(t)) \subseteq Known
  <2>1. CurrentRow(t) \in Seq(Vertices) /\ DOMAIN CurrentRow(t) = 1 .. j[t]
    BY <1>2, InTheList, LenProperties
  <2>2. \A x \in 1 .. j[t] : CurrentRow(t)[x] \in Known
    BY <1>2 DEF SearchInv, SeenBy
  <2> QED BY <2>1, <2>2 DEF Range
<1>10. ASSUME NEW k \in Share(t), k < i'[t]
       PROVE  Range(row[to_visit[k + 1]]) \subseteq Known
  <2>1. CASE k < i[t]
    BY <1>2, <2>1 DEF SearchInv, SeenBy
  <2>2. CASE k = i[t]
    BY <1>9, <2>2 DEF CurrentRow
  <2>3. CASE i[t] < k
    <3>1. k \in Nat /\ k < i[t] + Stride(t)
      BY <1>7, <1>10 DEF Share
    <3>2. version = 3
      BY <1>5, <2>3, <3>1 DEF Stride
    <3>3. k % num_threads = i[t] % num_threads /\ k < i[t] + num_threads
      BY <1>2, <3>1, <3>2 DEF Share, SearchInv, SeenBy, Stride
    <3>4. PICK a \in Nat : a = i[t]
      BY <1>5
    <3>5. k % num_threads = a % num_threads /\ k < a + num_threads
      BY <3>3, <3>4
    <3>6. k <= a
      BY <3>1, <3>5, Remainders, ThreadsAssumption
    <3> QED BY <2>3, <3>1, <3>4, <3>6
  <2> QED BY <1>5, <2>1, <2>2, <2>3 DEF Share
<1>11. SeenBy(t)'
  <2>1. Share(t)' = Share(t)
    BY <1>2, SharesKept
  <2>2. 1 .. j'[t] = {}
    BY <1>7
  <2>3. FirstIndex(t)' <= i'[t]
    <3>1. FirstIndex(t) \in Nat /\ FirstIndex(t) <= i[t] /\ FirstIndex(t)' = FirstIndex(t)
      BY <1>2, SharesCover, SharesKept DEF SearchInv, Types, SeenBy
    <3> QED BY <1>5, <1>7, <3>1
  <2> QED BY <1>2, <1>3, <1>8, <1>10, <2>1, <2>2, <2>3 DEF SeenBy
<1>12. \A u \in Threads \ {t} : SeenBy(u)'
  <2>1. \A u \in Threads \ {t} : i'[u] = i[u] /\ j'[u] = j[u]
    BY <1>2 DEF SearchInv, Types
  <2> QED BY <1>2, <1>3, <2>1, SeenByOthers DEF SearchInv
<1> QED BY <1>1, <1>3, <1>4, <1>6, <1>11, <1>12 DEF SearchInv

LEMMA ArriveSearch ==
  ASSUME SearchInv, NEW t \in Threads, Arrive(t)
  PROVE  SearchInv'
<1>1. RoundInv'
  BY InRoundStep DEF SearchInv
<1>2. /\ UNCHANGED <<version, row, visited, to_visit, next_visit, i, j, my_end, observed>>
      /\ pc[t] = "scan" /\ pc' = [pc EXCEPT ![t] = "wait"] /\ ~(i[t] < my_end[t])
  BY DEF Arrive, Scanning, loop
<1>3. Marks' /\ Known' = Known
  BY <1>2, QuietStep DEF SearchInv
<1>4. Levels'
  BY <1>2, LevelsKept DEF SearchInv, Joined
<1>5. Types'
  BY <1>2 DEF SearchInv, Types
<1>6. pc'[t] = "wait" /\ \A u \in Threads \ {t} : pc'[u] = pc[u]
  BY <1>2 DEF SearchInv, RoundInv
<1>7. SeenBy(t)'
  <2>1. Share(t)' = Share(t) /\ FirstIndex(t)' = FirstIndex(t)
    BY <1>2, SharesKept
  <2> QED BY <1>2, <1>3, <1>6, <2>1 DEF SeenBy, SearchInv, Scanning
<1>8. \A u \in Threads \ {t} : SeenBy(u)'
  BY <1>2, <1>3, <1>6, SeenByOthers DEF SearchInv
<1> QED BY <1>1, <1>3, <1>4, <1>5, <1>7, <1>8 DEF SearchInv

\* A vertex that is not marked is new to this thread, and, where finding it
\* marks it, to all of them.
LEMMA LookSearch ==
  ASSUME SearchInv, NEW t \in Threads, Look(t)
  PROVE  SearchInv'
<1>1. RoundInv'
  BY InRoundStep DEF SearchInv
<1>2. PICK n : n = CurrentRow(t)[j[t] + 1]
  OBVIOUS
<1>3. /\ UNCHANGED <<version, row, to_visit, pc, i, my_end, observed>>
      /\ Scanning(t) /\ pc[t] = "scan" /\ j[t] < Len(CurrentRow(t))
      /\ next_visit' = IF n \in visited THEN next_visit
                       ELSE [next_visit EXCEPT ![t] = Append(@, n)]
      /\ visited' = IF version = 1 THEN visited \cup {n} ELSE visited
      /\ j' = [j EXCEPT ![t] = @ + 1]
  BY <1>2 DEF Look, Mark, Scanning
<1>4. /\ Types /\ Marks /\ SeenBy(t)
      /\ j[t] \in Nat /\ j'[t] = j[t] + 1
      /\ \A u \in Threads \ {t} : j'[u] = j[u]
  BY <1>3 DEF SearchInv, Types
<1>5. n \in Vertices /\ n \in UNION {Range(row[v]) : v \in Range(to_visit)}
  <2>1. /\ CurrentRow(t) \in Seq(Vertices) /\ i[t] + 1 \in DOMAIN to_visit
        /\ CurrentRow(t) = row[to_visit[i[t] + 1]]
    BY <1>3, InTheList DEF CurrentRow
  <2>2. j[t] + 1 \in 1 .. Len(CurrentRow(t)) /\ DOMAIN CurrentRow(t) = 1 .. Len(CurrentRow(t))
    BY <1>3, <1>4, <2>1, LenProperties
  <2>3. n \in Vertices
    BY <1>2, <2>1, <2>2, ElementOfSeq
  <2>4. to_visit[i[t] + 1] \in Range(to_visit) /\ n \in Range(CurrentRow(t))
    BY <1>2, <2>1, <2>2 DEF Range
  <2> QED BY <2>1, <2>3, <2>4
<1>6. Marks' /\ Known \subseteq Known' /\ n \in Known' /\ next_visit' \in [Threads -> Seq(Vertices)]
  <2>1. CASE n \in visited
    <3>1. UNCHANGED <<next_visit, visited>>
      BY <1>3, <2>1
    <3>2. Marks' /\ Known' = Known
      BY <1>3, <1>4, <3>1, QuietStep
    <3>3. n \in Known
      BY <1>4, <2>1 DEF Marks, Known
    <3>4. next_visit' \in [Threads -> Seq(Vertices)]
      BY <1>4, <3>1 DEF Types
    <3> QED BY <3>2, <3>3, <3>4
  <2>2. CASE n \notin visited
    <3>1. /\ next_visit \in [Threads -> Seq(Vertices)]
          /\ next_visit' = [next_visit EXCEPT ![t] = Append(next_visit[t], n)]
      BY <1>3, <1>4, <2>2 DEF Types
    <3>2. /\ Append(next_visit[t], n) \in Seq(Vertices)
          /\ Range(Append(next_visit[t], n)) = Range(next_visit[t]) \cup {n}
          /\ IsInjective(next_visit[t]) /\ n \notin Range(next_visit[t])
               => IsInjective(Append(next_visit[t], n))
      BY <1>5, <3>1, RangeOfAppend
    <3>3. /\ next_visit' \in [Threads -> Seq(Vertices)]
          /\ Range(next_visit'[t]) = Range(next_visit[t]) \cup {n}
          /\ \A u \in Threads \ {t} : next_visit'[u] = next_visit[u]
          /\ IsInjective(next_visit[t]) /\ n \notin Range(next_visit[t])
               => IsInjective(next_visit'[t])
      BY <3>1, <3>2
    <3>4. Found' = Found \cup {n}
      <4>1. \A x : x \in Found' <=> \E u \in Threads : x \in Range(next_visit'[u])
        BY DEF Found
      <4>2. \A x : x \in Found <=> \E u \in Threads : x \in Range(next_visit[u])
        BY DEF Found
      <4> QED BY <3>3, <4>1, <4>2, SMTT(40)
    <3>5. n \notin Range(observed) /\ (version = 1 => n \notin Found)
      BY <1>4, <2>2 DEF Marks
    <3>6. ASSUME version = 1 PROVE Distinct'
      <4>1. Distinct /\ \A u \in Threads : n \notin Range(next_visit[u])
        BY <1>4, <3>5, <3>6 DEF Marks, Found
      <4>2. \A u \in Threads : IsInjective(next_visit'[u])
        BY <3>3, <4>1 DEF Distinct
      <4>3. ASSUME NEW u \in Threads, NEW w \in Threads, u # w
            PROVE  Range(next_visit'[u]) \cap Range(next_visit'[w]) = {}
        <5>1. Range(next_visit[u]) \cap Range(next_visit[w]) = {}
          BY <4>1, <4>3 DEF Distinct
        <5> QED BY <3>3, <4>1, <4>3, <5>1
      <4> QED BY <4>2, <4>3 DEF Distinct
    <3>7. Marks'
      BY <1>3, <1>4, <1>5, <3>4, <3>5, <3>6 DEF Marks
    <3>8. Known \subseteq Known' /\ n \in Known'
      BY <1>3, <3>4 DEF Known
    <3> QED BY <3>3, <3>7, <3>8
  <2> QED BY <2>1, <2>2
<1>7. Levels'
  BY <1>3, LevelsKept DEF SearchInv, Joined
<1>8. Types'
  BY <1>3, <1>4, <1>6 DEF Types
<1>9. SeenBy(t)'
  <2>1. /\ Share(t)' = Share(t) /\ FirstIndex(t)' = FirstIndex(t)
        /\ CurrentRow(t)' = CurrentRow(t)
    BY <1>3, SharesKept DEF CurrentRow
  <2>2. ASSUME NEW x \in 1 .. j'[t] PROVE CurrentRow(t)'[x] \in Known'
    <3>1. CASE x \in 1 .. j[t]
      BY <1>3, <1>4, <1>6, <2>1, <3>1 DEF SeenBy
    <3>2. CASE x = j[t] + 1
      BY <1>2, <1>6, <2>1, <3>2
    <3> QED BY <1>4, <3>1, <3>2
  <2> QED BY <1>3, <1>4, <1>6, <2>1, <2>2 DEF SeenBy
<1>10. \A u \in Threads \ {t} : SeenBy(u)'
  BY <1>3, <1>4, <1>6, SeenByOthers DEF SearchInv
<1> QED BY <1>1, <1>6, <1>7, <1>8, <1>9, <1>10 DEF SearchInv

\* When the last thread arrives, every vertex of the list has been looked at,
\* so what has been found are the vertices one edge further away.
LEMMA ArriveLastSearch ==
  ASSUME SearchInv, NEW t \in Threads, ArriveLast(t)
  PROVE  SearchInv'
<1>1. RoundInv'
  BY ArriveLastStep DEF SearchInv
<1>2. /\ UNCHANGED <<version, row, i, j, my_end>>
      /\ to_visit' = Fresh /\ observed' = observed \o Fresh
      /\ visited' = visited \cup Range(Fresh) /\ next_visit' = NoVisits
      /\ pc[t] = "scan" /\ ~(i[t] < my_end[t])
      /\ \A u \in Threads \ {t} : pc[u] = "wait"
  BY DEF ArriveLast, LastToArrive, Scanning, loop
<1>3. \A u \in Threads : pc'[u] = "test"
  BY <1>2 DEF ArriveLast
<1>4. Types /\ Marks /\ Levels
  BY DEF SearchInv
<1>5. /\ Fresh \in Seq(Vertices) /\ IsInjective(Fresh)
      /\ Range(Fresh) = Found \ Range(observed)
  BY <1>4, FreshFacts DEF Types, Marks
<1>6. /\ observed' \in Seq(Vertices)
      /\ Range(observed') = Range(observed) \cup Found
      /\ IsInjective(observed) => IsInjective(observed')
  BY <1>2, <1>4, <1>5, RangeOfConcat DEF Types
<1>7. Types'
  <2>1. NoVisits \in [Threads -> Seq(Vertices)]
    BY EmptySeq DEF NoVisits
  <2> QED BY <1>2, <1>4, <1>5, <1>6, <2>1 DEF Types
<1>8. Marks'
  <2>1. Found' = {} /\ Distinct'
    BY <1>2, NothingFoundNext
  <2>2. visited' = Range(observed')
    BY <1>2, <1>4, <1>5, <1>6 DEF Marks
  <2> QED BY <2>1, <2>2 DEF Marks
<1>9. \A u \in Threads : SeenBy(u)'
  BY <1>3 DEF SeenBy, Scanning
<1>10. \A v \in Range(to_visit) : Range(row[v]) \subseteq Known
  <2>1. DOMAIN to_visit = 1 .. Len(to_visit) /\ Len(to_visit) \in Nat
    BY <1>4, LenProperties DEF Types
  <2>2. ASSUME NEW k \in 0 .. Len(to_visit) - 1
        PROVE  Range(row[to_visit[k + 1]]) \subseteq Known
    <3>1. PICK u \in Threads : k \in Share(u)
      BY <1>4, SharesCover DEF Types
    <3>2. pc[u] \in {"scan", "wait"} /\ ~(i[u] < my_end[u]) /\ my_end[u] = EndIndex(u)
      BY <1>2 DEF SearchInv, SeenBy, RoundInv
    <3>3. i[u] \in Nat /\ my_end[u] \in Int /\ k \in Int /\ k < EndIndex(u)
      BY <1>4, <3>1 DEF Types, Share
    <3>4. k < i[u]
      BY <3>2, <3>3
    <3> QED BY <3>1, <3>2, <3>4 DEF SearchInv, SeenBy
  <2>3. ASSUME NEW v \in Range(to_visit) PROVE Range(row[v]) \subseteq Known
    <3>1. PICK x \in 1 .. Len(to_visit) : to_visit[x] = v
      BY <2>1 DEF Range
    <3>2. PICK k \in 0 .. Len(to_visit) - 1 : k + 1 = x
      <4>1. x - 1 \in 0 .. Len(to_visit) - 1 /\ (x - 1) + 1 = x
        BY <2>1
      <4> QED BY <4>1
    <3> QED BY <2>2, <3>1, <3>2
  <2> QED BY <2>3
<1>11. observed # <<>> /\ Ordered(observed)
  BY <1>2, <1>4 DEF Levels, Joined
<1>12. PICK d \in 0 .. MaxDistance : LevelOK(d)
  BY <1>4, <1>11 DEF Levels
<1>13. Near(row, Search!Ball[d]) = Range(observed')
  <2>1. \A v \in Search!Ball[d] : Range(row[v]) \subseteq Known
    BY <1>10, <1>12 DEF LevelOK, Known
  <2>2. Found \subseteq UNION {Range(row[v]) : v \in Search!Ball[d]}
    BY <1>4, <1>12 DEF Marks, LevelOK
  <2> QED BY <1>6, <1>12, <2>1, <2>2 DEF Near, LevelOK, Known
<1>14. /\ Len(observed) \in Nat /\ Len(Fresh) \in Nat
       /\ Len(observed') = Len(observed) + Len(Fresh)
       /\ DOMAIN observed' = 1 .. Len(observed) + Len(Fresh)
       /\ DOMAIN observed = 1 .. Len(observed) /\ DOMAIN Fresh = 1 .. Len(Fresh)
       /\ \A k \in DOMAIN observed' : observed'[k] =
            IF k <= Len(observed) THEN observed[k] ELSE Fresh[k - Len(observed)]
  BY <1>2, <1>4, <1>5, <1>6, ConcatProperties, LenProperties DEF Types
<1>15. Search!Ball' = Search!Ball
  BY <1>2, SameRows
<1>16. Levels'
  <2>1. CASE Fresh = <<>>
    <3>1. observed' = observed /\ to_visit' = <<>>
      BY <1>2, <1>4, <2>1, ConcatEmptySeq DEF Types
    <3>2. Range(to_visit') = {}
      BY <3>1, EmptyRange
    <3>3. LevelOK(d)'
      BY <1>2, <1>12, <1>13, <1>15, <3>1, <3>2 DEF LevelOK, Near
    <3>4. Ordered(observed)'
      BY <1>2, <1>11, <3>1, SameRows
    <3> QED BY <1>11, <3>1, <3>3, <3>4 DEF Levels
  <2>2. CASE Fresh # <<>>
    <3>1. Len(Fresh) > 0
      BY <1>5, <1>14, <2>2, EmptySeq
    <3>2. d \in Nat /\ d + 1 < Len(observed')
      BY <1>12, <1>14, <3>1, MaxDistanceIsNat DEF LevelOK
    <3>3. IsInjective(observed')
      BY <1>6, <1>11 DEF Ordered
    <3>4. Len(observed') <= MaxDistance
      BY <1>6, <3>3, InjectiveIsShort, VerticesAssumption DEF MaxDistance
    <3>5. d + 1 \in 1 .. MaxDistance /\ (d + 1) - 1 = d
      BY <1>14, <3>2, <3>4, MaxDistanceIsNat
    <3>6. Search!Ball[d + 1] = Range(observed')
      BY <1>13, <3>5, BallIs
    <3>7. LevelOK(d + 1)'
      <4>1. Range(to_visit') \subseteq Search!Ball[d + 1]
        BY <1>2, <1>5, <1>6, <3>6
      <4>2. ASSUME NEW v \in Search!Ball[d + 1], v \notin Range(to_visit')
            PROVE  Range(row[v]) \subseteq Search!Ball[d + 1]
        <5>1. v \in Search!Ball[d]
          BY <1>2, <1>5, <1>6, <1>12, <3>6, <4>2 DEF LevelOK
        <5> QED BY <1>13, <3>6, <5>1 DEF Near
      <4> QED BY <1>2, <1>15, <3>2, <3>6, <4>1, <4>2 DEF LevelOK
    <3>8. Ordered(observed)'
      <4>1. Range(observed') \subseteq Search!Ball[MaxDistance]
        BY <3>5, <3>6, BallGrows, MaxDistanceIsNat
      <4>2. ASSUME NEW n \in DOMAIN observed', NEW k \in 0 .. MaxDistance,
                   observed'[n] \notin Search!Ball[k]
            PROVE  Search!Ball[k] \subseteq {observed'[m] : m \in 1 .. n - 1}
        <5>1. CASE n <= Len(observed)
          <6>1. n \in DOMAIN observed /\ observed'[n] = observed[n]
            BY <1>14, <5>1
          <6>2. Search!Ball[k] \subseteq {observed[m] : m \in 1 .. n - 1}
            BY <1>11, <4>2, <6>1 DEF Ordered
          <6>3. \A m \in 1 .. n - 1 : observed'[m] = observed[m]
            BY <1>14, <5>1
          <6> QED BY <6>2, <6>3
        <5>2. CASE ~(n <= Len(observed))
          <6>1. ~(d + 1 <= k)
            <7>1. observed'[n] \in Search!Ball[d + 1]
              BY <3>6 DEF Range
            <7> QED BY <3>5, <4>2, <7>1, BallGrows, MaxDistanceIsNat
          <6>2. Search!Ball[k] \subseteq Search!Ball[d]
            BY <3>2, <6>1, BallGrows, MaxDistanceIsNat
          <6>3. Search!Ball[d] = {observed[m] : m \in 1 .. Len(observed)}
            BY <1>12, <1>14 DEF LevelOK, Range
          <6>4. \A m \in 1 .. Len(observed) : m \in 1 .. n - 1 /\ observed'[m] = observed[m]
            BY <1>14, <5>2
          <6> QED BY <6>2, <6>3, <6>4
        <5> QED BY <5>1, <5>2
      <4> QED BY <1>15, <3>3, <4>1, <4>2 DEF Ordered
    <3>9. observed' # <<>> /\ d + 1 \in 0 .. MaxDistance
      BY <1>14, <3>2, <3>5
    <3> QED BY <3>7, <3>8, <3>9 DEF Levels
  <2> QED BY <2>1, <2>2
<1> QED BY <1>1, <1>7, <1>8, <1>9, <1>16 DEF SearchInv

LEMMA StepSearch ==
  ASSUME SearchInv, NEW t \in Threads, Step(t)
  PROVE  SearchInv'
BY TestSearch, LookSearch, EndOfRowSearch, ArriveSearch, ArriveLastSearch DEF Step

LEMMA StutterSearch == ASSUME SearchInv, UNCHANGED vars PROVE SearchInv'
<1>1. /\ UNCHANGED <<version, row, visited, to_visit, next_visit>>
      /\ UNCHANGED <<pc, i, j, my_end, observed>>
  BY DEF vars
<1>2. RoundInv'
  <2>1. \A u \in Threads : EndIndex(u)' = EndIndex(u)
    BY <1>1, SharesStay
  <2> QED BY <1>1, <2>1 DEF SearchInv, RoundInv
<1>3. Types'
  BY <1>1 DEF SearchInv, Types
<1>4. Marks' /\ Known' = Known
  BY <1>1, QuietStep DEF SearchInv
<1>5. Levels'
  <2>1. CASE observed = <<>>
    BY <1>1, <2>1 DEF SearchInv, Levels, Joined
  <2>2. CASE observed # <<>>
    <3>1. Ordered(observed) /\ \E d \in 0 .. MaxDistance : LevelOK(d)
      BY <2>2 DEF SearchInv, Levels
    <3> QED BY <1>1, <2>2, <3>1, SameRows DEF Levels
  <2> QED BY <2>1, <2>2
<1>6. \A u \in Threads : SeenBy(u)'
  BY <1>1, <1>4, SeenByOthers DEF SearchInv
<1> QED BY <1>2, <1>3, <1>4, <1>5, <1>6 DEF SearchInv

LEMMA NextSearch == SearchInv /\ [Next]_vars => SearchInv'
<1> SUFFICES ASSUME SearchInv, [Next]_vars PROVE SearchInv'
  OBVIOUS
<1>1. ASSUME NEW v \in 1 .. 3, NEW g \in [Vertices -> Seq(Vertices)], Call(v, g)
      PROVE  SearchInv'
  BY <1>1, CallIsSearch
<1> QED BY <1>1, ForgetSearch, StepSearch, StutterSearch DEF Next

\* Every reachable state of a search: what has been observed are the vertices
\* within some distance of the start, in order; what has been found in the
\* round is new; and what a thread has looked at has been observed or found.
THEOREM SearchInvHolds == Spec => []SearchInv
BY InitSearch, NextSearch, PTL DEF Spec

----------------------------------------------------------------------------
(* The search is a breadth-first search *)

LEMMA OrderedIs == \A s \in Seq(Vertices) : Ordered(s) => Search!InOrder(s)
<1> SUFFICES ASSUME NEW s \in Seq(Vertices), Ordered(s) PROVE Search!InOrder(s)
  OBVIOUS
<1>1. Search!IsInjective(s)
  BY DEF Ordered, IsInjective, Search!IsInjective
<1>2. Search!Range(s) \subseteq Search!Reachable
  BY SameOperators DEF Ordered, Search!Reachable
<1>3. \A n \in DOMAIN s : Search!Range(SubSeq(s, 1, n - 1)) = {s[m] : m \in 1 .. n - 1}
  <2> TAKE n \in DOMAIN s
  <2>1. n \in Nat /\ n - 1 \in Int /\ \A m \in 1 .. n - 1 : m \in DOMAIN s /\ s[m] \in Vertices
    BY LenProperties, ElementOfSeq
  <2>2. PICK q : q = SubSeq(s, 1, n - 1)
    OBVIOUS
  <2>3. /\ q \in Seq(Vertices) /\ DOMAIN q = 1 .. n - 1
        /\ \A m \in 1 .. n - 1 : q[m] = s[m]
    <3>1. /\ q \in Seq(Vertices) /\ Len(q) = IF 1 <= n - 1 THEN n - 1 ELSE 0
          /\ \A m \in 1 .. n - 1 : q[m] = s[m]
      BY <2>1, <2>2, SubSeqProperties
    <3>2. DOMAIN q = 1 .. Len(q)
      BY <3>1, LenProperties
    <3>3. 1 .. Len(q) = 1 .. n - 1
      BY <2>1, <3>1
    <3> QED BY <3>1, <3>2, <3>3
  <2>4. Search!Range(q) = {s[m] : m \in 1 .. n - 1}
    BY <2>3, SameOperators DEF Range
  <2> QED BY <2>2, <2>4
<1>4. ASSUME NEW n \in DOMAIN s, NEW k \in DOMAIN Search!Ball, s[n] \notin Search!Ball[k]
      PROVE  Search!Ball[k] \subseteq Search!Range(SubSeq(s, 1, n - 1))
  BY <1>3, <1>4, BallIs DEF Ordered
<1> QED BY <1>1, <1>2, <1>4 DEF Search!InOrder

\* When the threads have been joined, nothing is left to be found.
LEMMA JoinedIsComplete ==
  ASSUME SearchInv, Joined, observed # <<>>
  PROVE  Search!Complete
<1>1. to_visit = <<>>
  BY ThreadsAssumption DEF SearchInv, RoundInv, Joined, Threads
<1>2. PICK d \in 0 .. MaxDistance : LevelOK(d)
  BY DEF SearchInv, Levels
<1>3. \A v \in Search!Ball[d] : Range(row[v]) \subseteq Search!Ball[d]
  BY <1>1, <1>2, EmptyRange DEF LevelOK
<1>4. Search!Reachable = Search!Ball[d]
  BY <1>3, BallEnds
<1> QED BY <1>2, <1>4, SameOperators DEF LevelOK, Search!Complete

\* The vertices that the completion function adds are observed in one step of
\* the abstract search.
LEMMA ArriveLastObserves ==
  ASSUME SearchInv, NEW t \in Threads, ArriveLast(t)
  PROVE  Search!Observe \/ UNCHANGED Search!vars
<1>1. /\ UNCHANGED row /\ observed' = observed \o Fresh
      /\ observed \in Seq(Vertices) /\ Fresh \in Seq(Vertices) /\ observed # <<>>
  BY FreshFacts DEF ArriveLast, SearchInv, Types, Marks, Levels, Joined
<1>2. CASE Fresh = <<>>
  BY <1>1, <1>2, ConcatEmptySeq DEF Search!vars
<1>3. CASE Fresh # <<>>
  <2>1. observed' \in Seq(Vertices) /\ observed' # <<>> /\ observed' # observed
    BY <1>1, <1>3, ConcatProperties, ConcatEqualIffEmpty
  <2>2. Search!IsStrictPrefix(observed, observed')
    <3>1. /\ Len(observed) \in Nat /\ Len(observed) <= Len(observed')
          /\ \A k \in 1 .. Len(observed) : observed'[k] = observed[k]
      BY <1>1, ConcatProperties, LenProperties
    <3>2. SubSeq(observed, 1, Len(observed)) = SubSeq(observed', 1, Len(observed))
      BY <3>1
    <3> QED BY <2>1, <3>1, <3>2 DEF Search!IsStrictPrefix, Search!IsPrefix
  <2>3. Ordered(observed')
    <3>1. Ordered(observed)'
      BY <2>1, ArriveLastSearch DEF SearchInv, Levels
    <3>2. Search!Ball' = Search!Ball
      BY <1>1, SameRows
    <3> QED BY <3>1, <3>2 DEF Ordered
  <2>4. Search!InOrder(observed')
    BY <2>1, <2>3, OrderedIs
  <2> QED BY <1>1, <2>2, <2>4 DEF Search!Observe
<1> QED BY <1>2, <1>3

\* With any number of threads, in all three versions, over any graph and in any
\* sequence of searches, the observer sees a breadth-first search: everything
\* that can be reached, once, the nearer vertices first.
THEOREM ImplementsBreadthFirstHolds == Spec => ImplementsBreadthFirst
<1> DEFINE Searching == Search!Begin \/ Search!Observe \/ Search!End
<1>1. Init => Search!Init
  BY DEF Init, Search!Init
<1>2. SearchInv /\ [Next]_vars => [Searching]_(Search!vars)
  <2> SUFFICES ASSUME SearchInv, [Next]_vars PROVE Searching \/ UNCHANGED Search!vars
    OBVIOUS
  <2>1. ASSUME NEW v, NEW g, Call(v, g) PROVE Search!Begin
    BY <2>1, JoinedIsComplete DEF Call, Search!Begin
  <2>2. CASE Forget
    BY <2>2 DEF Forget, Search!End
  <2>3. ASSUME NEW t \in Threads, Test(t) \/ Look(t) \/ EndOfRow(t) \/ Arrive(t)
        PROVE  UNCHANGED Search!vars
    BY <2>3 DEF Test, Look, EndOfRow, Arrive, Search!vars
  <2>4. CASE UNCHANGED vars
    BY <2>4 DEF vars, Search!vars
  <2> QED BY <2>1, <2>2, <2>3, <2>4, ArriveLastObserves DEF Next, Step
<1> QED BY <1>1, <1>2, SearchInvHolds, PTL DEF Spec, ImplementsBreadthFirst, Search!Spec

----------------------------------------------------------------------------
(* Rows: places and counts *)

\* How many elements of S are before x or x, in an order R of them.
Rank(S, R) == [x \in S |-> Cardinality({y \in S : <<y, x>> \in R})]

Orders(R, S) ==
  /\ \A x \in S : <<x, x>> \in R
  /\ \A x, y \in S : <<x, y>> \in R /\ <<y, x>> \in R => x = y
  /\ \A x, y \in S : <<x, y>> \in R \/ <<y, x>> \in R
  /\ \A x, y, z \in S : <<x, y>> \in R /\ <<y, z>> \in R => <<x, z>> \in R

LEMMA RankGrows ==
  ASSUME NEW S, IsFiniteSet(S), NEW R, Orders(R, S),
         NEW x \in S, NEW z \in S, <<x, z>> \in R, x # z
  PROVE  Rank(S, R)[x] < Rank(S, R)[z]
<1> DEFINE A == {y \in S : <<y, x>> \in R}
           B == {y \in S : <<y, z>> \in R}
<1>1. A \subseteq B /\ z \in B /\ z \notin A
  BY DEF Orders
<1>2. IsFiniteSet(A) /\ IsFiniteSet(B)
  BY FS_Subset
<1>3. Cardinality(A) <= Cardinality(B) /\ Cardinality(A) # Cardinality(B)
  <2> HIDE DEF A, B
  <2> QED BY <1>1, <1>2, FS_Subset
<1>4. Cardinality(A) \in Nat /\ Cardinality(B) \in Nat
  <2> HIDE DEF A, B
  <2> QED BY <1>2, FS_CardinalityType
<1>5. Rank(S, R)[x] = Cardinality(A) /\ Rank(S, R)[z] = Cardinality(B)
  BY DEF Rank
<1> QED BY <1>3, <1>4, <1>5

\* The ranks are the numbers from 1 on, each of them once.
LEMMA RankIsPlace ==
  ASSUME NEW S, IsFiniteSet(S), NEW R, Orders(R, S)
  PROVE  Rank(S, R) \in Bijection(S, 1 .. Cardinality(S))
<1> DEFINE rank == Rank(S, R)
           N == Cardinality(S)
<1>1. N \in Nat /\ IsFiniteSet(1 .. N) /\ Cardinality(1 .. N) = N
  BY FS_CardinalityType, FS_Interval
<1>2. ASSUME NEW x \in S PROVE rank[x] \in 1 .. N
  <2> DEFINE A == {y \in S : <<y, x>> \in R}
  <2>1. x \in A /\ A \subseteq S
    BY DEF Orders
  <2>2. IsFiniteSet(A) /\ Cardinality(A) <= N /\ Cardinality(A) \in Nat /\ Cardinality(A) # 0
    <3> HIDE DEF A
    <3> QED BY <2>1, FS_Subset, FS_CardinalityType, FS_EmptySet
  <2>3. rank[x] = Cardinality(A)
    BY DEF Rank
  <2> QED BY <1>1, <2>2, <2>3
<1>3. rank \in [S -> 1 .. N]
  BY <1>2 DEF Rank
<1>4. \A x, z \in S : rank[x] = rank[z] => x = z
  <2> SUFFICES ASSUME NEW x \in S, NEW z \in S, x # z PROVE rank[x] # rank[z]
    OBVIOUS
  <2>1. <<x, z>> \in R \/ <<z, x>> \in R
    BY DEF Orders
  <2>2. rank[x] < rank[z] \/ rank[z] < rank[x]
    BY <2>1, RankGrows
  <2> QED BY <2>2, <1>2
<1>5. rank \in Injection(S, 1 .. N)
  <2> HIDE DEF rank, N
  <2> QED BY <1>3, <1>4, Fun_IsInj
<1>6. rank \in Surjection(S, 1 .. N)
  <2> HIDE DEF rank, N
  <2> QED BY <1>1, <1>5, FS_Injection DEF N
<1> QED BY <1>5, <1>6 DEF Bijection

\* at[k] is an element of rank k, if there is one.
HaveRank(at, S, R) ==
  /\ at = [k \in 1 .. Cardinality(S) |-> at[k]]
  /\ \A k \in 1 .. Cardinality(S) :
       (\E x \in S : Rank(S, R)[x] = k) => at[k] \in S /\ Rank(S, R)[at[k]] = k

LEMMA AtPlace ==
  ASSUME NEW S, IsFiniteSet(S), NEW R, Orders(R, S), NEW at, HaveRank(at, S, R)
  PROVE  /\ at \in Bijection(1 .. Cardinality(S), S)
         /\ \A jx, k \in 1 .. Cardinality(S) :
              jx < k => <<at[jx], at[k]>> \in R /\ at[jx] # at[k]
<1> DEFINE N == Cardinality(S)
           rank == Rank(S, R)
<1>1. rank \in Bijection(S, 1 .. N) /\ N \in Nat
  BY RankIsPlace, FS_CardinalityType
<1>2. /\ rank \in [S -> 1 .. N]
      /\ \A x, z \in S : rank[x] = rank[z] => x = z
      /\ \A k \in 1 .. N : \E x \in S : rank[x] = k
  <2> HIDE DEF rank, N
  <2> QED BY <1>1 DEF Bijection, Injection, Surjection, IsInjective
<1>3. \A k \in 1 .. N : at[k] \in S /\ rank[at[k]] = k
  <2> TAKE k \in 1 .. N
  <2>1. \E x \in S : rank[x] = k
    BY <1>2
  <2> QED BY <2>1 DEF HaveRank
<1>4. \A x \in S : at[rank[x]] = x
  BY <1>2, <1>3
<1>5. at \in Bijection(1 .. N, S)
  <2>1. at \in [1 .. N -> S]
    BY <1>3 DEF HaveRank
  <2>2. \A jx, k \in 1 .. N : at[jx] = at[k] => jx = k
    BY <1>3
  <2>3. \A x \in S : \E k \in 1 .. N : at[k] = x
    BY <1>2, <1>4
  <2> HIDE DEF N
  <2> QED BY <2>1, <2>2, <2>3 DEF Bijection, Injection, Surjection, IsInjective
<1>6. ASSUME NEW jx \in 1 .. N, NEW k \in 1 .. N, jx < k
      PROVE  <<at[jx], at[k]>> \in R /\ at[jx] # at[k]
  <2>1. at[jx] \in S /\ at[k] \in S /\ rank[at[jx]] = jx /\ rank[at[k]] = k
    BY <1>3
  <2>2. at[jx] # at[k]
    BY <2>1, <1>1, <1>6
  <2>3. <<at[jx], at[k]>> \in R \/ <<at[k], at[jx]>> \in R
    BY <2>1 DEF Orders
  <2>4. ASSUME <<at[k], at[jx]>> \in R PROVE FALSE
    <3>1. rank[at[k]] < rank[at[jx]]
      BY <2>1, <2>2, <2>4, RankGrows
    <3> QED BY <3>1, <2>1, <1>1, <1>6
  <2> QED BY <2>2, <2>3, <2>4
<1> QED BY <1>5, <1>6

\* Counting through a bijection.
Preimage(at, J, A) == {k \in J : at[k] \in A}

LEMMA CountThrough ==
  ASSUME NEW J, NEW I, IsFiniteSet(I), NEW at \in Bijection(J, I), NEW A, A \subseteq I
  PROVE  Cardinality(Preimage(at, J, A)) = Cardinality(A)
<1> DEFINE K == {k \in J : at[k] \in A}
           f == [k \in K |-> at[k]]
<1>1. /\ at \in [J -> I] /\ \A jx, k \in J : at[jx] = at[k] => jx = k
      /\ \A x \in I : \E k \in J : at[k] = x
  BY DEF Bijection, Injection, Surjection, IsInjective
<1>2. f \in Bijection(K, A)
  <2>1. f \in [K -> A]
    OBVIOUS
  <2>2. \A jx, k \in K : f[jx] = f[k] => jx = k
    BY <1>1
  <2>3. \A x \in A : \E k \in K : f[k] = x
    BY <1>1
  <2> HIDE DEF f, K
  <2> QED BY <2>1, <2>2, <2>3 DEF Bijection, Injection, Surjection, IsInjective
<1>3. IsFiniteSet(A)
  BY FS_Subset
<1>4. ExistsBijection(A, K)
  <2> HIDE DEF f, K
  <2>1. ExistsBijection(K, A)
    BY <1>2 DEF ExistsBijection
  <2> QED BY <2>1, Fun_ExistsBijSymmetric
<1> HIDE DEF K
<1> QED BY <1>3, <1>4, FS_Bijection DEF K, Preimage

\* What std::set, std::erase and std::sort make: every element is somewhere, at
\* one place.
LEMMA AscendingIs ==
  ASSUME NEW S, S \subseteq Int, IsFiniteSet(S)
  PROVE  /\ Ascending(S) \in Bijection(1 .. Cardinality(S), S)
         /\ \A jx, k \in 1 .. Cardinality(S) : jx < k => Ascending(S)[jx] < Ascending(S)[k]
<1> DEFINE R == {p \in S \X S : p[1] <= p[2]}
           N == Cardinality(S)
           e(k) == CHOOSE x \in S : Cardinality({y \in S : y <= x}) = k
           at == [k \in 1 .. N |-> e(k)]
<1>0. Ascending(S) = at
  BY DEF Ascending
<1>1. Orders(R, S)
  <2>1. \A x, y \in S : <<x, y>> \in R <=> x <= y
    OBVIOUS
  <2> HIDE DEF R
  <2> QED BY <2>1 DEF Orders
<1>2. \A x \in S : Rank(S, R)[x] = Cardinality({y \in S : y <= x})
  <2> TAKE x \in S
  <2>1. {y \in S : <<y, x>> \in R} = {y \in S : y <= x}
    OBVIOUS
  <2> QED BY <2>1 DEF Rank
<1>3. at = [k \in 1 .. N |-> at[k]] /\ \A k \in 1 .. N : at[k] = e(k)
  <2> HIDE DEF e
  <2> QED OBVIOUS
<1>4. ASSUME NEW k \in 1 .. N, \E x \in S : Rank(S, R)[x] = k
      PROVE  at[k] \in S /\ Rank(S, R)[at[k]] = k
  <2>1. \E x \in S : Cardinality({y \in S : y <= x}) = k
    BY <1>2, <1>4
  <2>2. at[k] = CHOOSE x \in S : Cardinality({y \in S : y <= x}) = k
    BY <1>3
  <2>3. at[k] \in S /\ Cardinality({y \in S : y <= at[k]}) = k
    BY <2>1, <2>2
  <2> QED BY <2>3, <1>2
<1>5. /\ at \in Bijection(1 .. N, S)
      /\ \A jx, k \in 1 .. N : jx < k => <<at[jx], at[k]>> \in R /\ at[jx] # at[k]
  <2>1. \A k \in 1 .. N : (\E x \in S : Rank(S, R)[x] = k) => at[k] \in S /\ Rank(S, R)[at[k]] = k
    BY <1>4
  <2> HIDE DEF R, at, e
  <2>2. HaveRank(at, S, R)
    BY <1>3, <2>1 DEF HaveRank
  <2> QED BY <1>1, <2>2, AtPlace
<1>6. \A jx, k \in 1 .. N : jx < k => at[jx] < at[k]
  <2> SUFFICES ASSUME NEW jx \in 1 .. N, NEW k \in 1 .. N, jx < k PROVE at[jx] < at[k]
    OBVIOUS
  <2>1. <<at[jx], at[k]>> \in R /\ at[jx] # at[k]
    BY <1>5
  <2> HIDE DEF at
  <2>2. at[jx] \in Int /\ at[k] \in Int /\ at[jx] <= at[k]
    BY <2>1
  <2> QED BY <2>1, <2>2
<1> QED BY <1>0, <1>5, <1>6

LEMMA KeptIs ==
  ASSUME NEW I, I \subseteq Nat \ {0}, IsFiniteSet(I), NEW s
  PROVE  \E at \in Bijection(1 .. Cardinality(I), I) :
           Kept(s, I) = [k \in 1 .. Cardinality(I) |-> s[at[k]]]
<1> DEFINE R == {p \in I \X I : p[1] <= p[2]}
           N == Cardinality(I)
           e(k) == CHOOSE ix \in I : Cardinality(I \cap (1 .. ix)) = k
           at == [k \in 1 .. N |-> e(k)]
<1>1. Orders(R, I)
  <2>1. \A ix, jx \in I : <<ix, jx>> \in R <=> ix <= jx
    OBVIOUS
  <2>2. I \subseteq Int
    OBVIOUS
  <2> HIDE DEF R
  <2> QED BY <2>1, <2>2 DEF Orders
<1>2. \A ix \in I : Rank(I, R)[ix] = Cardinality(I \cap (1 .. ix))
  <2> TAKE ix \in I
  <2>1. {jx \in I : <<jx, ix>> \in R} = I \cap (1 .. ix)
    <3>1. \A jx \in I : <<jx, ix>> \in R <=> jx <= ix
      OBVIOUS
    <3>2. \A jx \in I : jx \in Int /\ jx >= 1
      OBVIOUS
    <3>3. \A jx \in I : jx <= ix <=> jx \in 1 .. ix
      BY <3>2
    <3> HIDE DEF R
    <3> QED BY <3>1, <3>3
  <2> QED BY <2>1 DEF Rank
<1>4. at = [k \in 1 .. N |-> at[k]] /\ \A k \in 1 .. N : at[k] = e(k)
  <2> HIDE DEF e
  <2> QED OBVIOUS
<1>3. ASSUME NEW k \in 1 .. N, \E ix \in I : Rank(I, R)[ix] = k
      PROVE  at[k] \in I /\ Rank(I, R)[at[k]] = k
  <2>1. \E ix \in I : Cardinality(I \cap (1 .. ix)) = k
    BY <1>2, <1>3
  <2>2. at[k] = CHOOSE ix \in I : Cardinality(I \cap (1 .. ix)) = k
    BY <1>4
  <2>3. at[k] \in I /\ Cardinality(I \cap (1 .. at[k])) = k
    BY <2>1, <2>2
  <2> QED BY <2>3, <1>2
<1>5. at \in Bijection(1 .. N, I)
  <2>1. \A k \in 1 .. N : (\E ix \in I : Rank(I, R)[ix] = k) => at[k] \in I /\ Rank(I, R)[at[k]] = k
    BY <1>3
  <2> HIDE DEF R, at, e
  <2>2. HaveRank(at, I, R)
    BY <1>4, <2>1 DEF HaveRank
  <2> QED BY <1>1, <2>2, AtPlace
<1>6. Kept(s, I) = [k \in 1 .. N |-> s[at[k]]]
  BY DEF Kept
<1> QED BY <1>5, <1>6

LEMMA SortedIs ==
  ASSUME NEW s \in Seq(Int)
  PROVE  /\ \E at \in Bijection(DOMAIN s, DOMAIN s) : Sorted(s) = [k \in DOMAIN s |-> s[at[k]]]
         /\ \A jx, k \in DOMAIN s : jx <= k => Sorted(s)[jx] <= Sorted(s)[k]
<1> DEFINE D == DOMAIN s
           R == {p \in D \X D : s[p[1]] < s[p[2]] \/ (s[p[1]] = s[p[2]] /\ p[1] <= p[2])}
           place == [ix \in D |-> Cardinality({jx \in D : s[jx] < s[ix] \/ (s[jx] = s[ix] /\ jx <= ix)})]
           e(k) == CHOOSE ix \in D : place[ix] = k
           at == [k \in D |-> e(k)]
<1>1. D = 1 .. Len(s) /\ Len(s) \in Nat /\ \A ix \in D : s[ix] \in Int
  OBVIOUS
<1>2. IsFiniteSet(D) /\ Cardinality(D) = Len(s)
  BY <1>1, FS_Interval
<1>3. Orders(R, D)
  <2>1. \A ix \in D : ix \in Int /\ s[ix] \in Int
    BY <1>1
  <2>2. \A ix, jx \in D : <<ix, jx>> \in R <=> s[ix] < s[jx] \/ (s[ix] = s[jx] /\ ix <= jx)
    OBVIOUS
  <2> HIDE DEF R, D
  <2>3. \A ix \in D : <<ix, ix>> \in R
    BY <2>1, <2>2
  <2>4. \A ix, jx \in D : <<ix, jx>> \in R /\ <<jx, ix>> \in R => ix = jx
    <3> TAKE ix, jx \in D
    <3>1. /\ <<ix, jx>> \in R <=> s[ix] < s[jx] \/ (s[ix] = s[jx] /\ ix <= jx)
          /\ <<jx, ix>> \in R <=> s[jx] < s[ix] \/ (s[jx] = s[ix] /\ jx <= ix)
      BY <2>2
    <3>2. ix \in Int /\ jx \in Int /\ s[ix] \in Int /\ s[jx] \in Int
      BY <2>1
    <3> QED BY <3>1, <3>2
  <2>5. \A ix, jx \in D : <<ix, jx>> \in R \/ <<jx, ix>> \in R
    <3> TAKE ix, jx \in D
    <3>1. /\ <<ix, jx>> \in R <=> s[ix] < s[jx] \/ (s[ix] = s[jx] /\ ix <= jx)
          /\ <<jx, ix>> \in R <=> s[jx] < s[ix] \/ (s[jx] = s[ix] /\ jx <= ix)
      BY <2>2
    <3>2. ix \in Int /\ jx \in Int /\ s[ix] \in Int /\ s[jx] \in Int
      BY <2>1
    <3> QED BY <3>1, <3>2
  <2>6. \A ix, jx, k \in D : <<ix, jx>> \in R /\ <<jx, k>> \in R => <<ix, k>> \in R
    <3> TAKE ix, jx, k \in D
    <3>1. /\ <<ix, jx>> \in R <=> s[ix] < s[jx] \/ (s[ix] = s[jx] /\ ix <= jx)
          /\ <<jx, k>> \in R <=> s[jx] < s[k] \/ (s[jx] = s[k] /\ jx <= k)
          /\ <<ix, k>> \in R <=> s[ix] < s[k] \/ (s[ix] = s[k] /\ ix <= k)
      BY <2>2
    <3>2. ix \in Int /\ jx \in Int /\ k \in Int /\ s[ix] \in Int /\ s[jx] \in Int /\ s[k] \in Int
      BY <2>1
    <3> QED BY <3>1, <3>2
  <2> QED BY <2>3, <2>4, <2>5, <2>6 DEF Orders
<1>4. Rank(D, R) = place
  <2>1. \A ix, jx \in D : <<jx, ix>> \in R <=> s[jx] < s[ix] \/ (s[jx] = s[ix] /\ jx <= ix)
    OBVIOUS
  <2> HIDE DEF R
  <2> SUFFICES ASSUME NEW ix \in D
               PROVE  Rank(D, R)[ix] = place[ix]
    BY DEF Rank
  <2>2. {jx \in D : <<jx, ix>> \in R} = {jx \in D : s[jx] < s[ix] \/ (s[jx] = s[ix] /\ jx <= ix)}
    BY <2>1
  <2> QED BY <2>2 DEF Rank
<1>5. Sorted(s) = [k \in D |-> s[at[k]]]
  BY DEF Sorted
<1>6. /\ at \in Bijection(D, D)
      /\ \A jx, k \in D : jx < k => <<at[jx], at[k]>> \in R
  <2>1. 1 .. Cardinality(D) = D
    BY <1>1, <1>2
  <2>2. at = [k \in D |-> at[k]] /\ \A k \in D : at[k] = e(k)
    <3> HIDE DEF e
    <3> QED OBVIOUS
  <2>3. ASSUME NEW k \in D, \E ix \in D : Rank(D, R)[ix] = k
        PROVE  at[k] \in D /\ Rank(D, R)[at[k]] = k
    <3>1. \E ix \in D : place[ix] = k
      BY <1>4, <2>3
    <3> HIDE DEF place, D
    <3>2. at[k] = CHOOSE ix \in D : place[ix] = k
      BY <2>2
    <3>3. at[k] \in D /\ place[at[k]] = k
      BY <3>1, <3>2
    <3> QED BY <3>3, <1>4
  <2>4. \A k \in D : (\E ix \in D : Rank(D, R)[ix] = k) => at[k] \in D /\ Rank(D, R)[at[k]] = k
    BY <2>3
  <2> HIDE DEF R, D, at, e
  <2>5. HaveRank(at, D, R)
    BY <2>1, <2>2, <2>4 DEF HaveRank
  <2> QED BY <1>2, <1>3, <2>1, <2>5, AtPlace
<1>7. ASSUME NEW jx \in D, NEW k \in D, jx <= k PROVE Sorted(s)[jx] <= Sorted(s)[k]
  <2>1. at[jx] \in D /\ at[k] \in D
    BY <1>6 DEF Bijection, Injection
  <2>2. CASE jx = k
    <3> HIDE DEF at
    <3> QED BY <2>1, <2>2, <1>1, <1>5
  <2>3. CASE jx < k
    <3>1. <<at[jx], at[k]>> \in R
      BY <1>6, <2>3
    <3> HIDE DEF at
    <3> QED BY <2>1, <3>1, <1>1, <1>5
  <2> QED BY <2>2, <2>3, <1>7, <1>1
<1> QED BY <1>5, <1>6, <1>7

\* The positions in I at which s is y.
Where(s, I, y) == {ix \in I : s[ix] = y}
Image(s, I) == {s[ix] : ix \in I}

LEMMA IndicesFinite ==
  ASSUME NEW V, NEW s \in Seq(V)
  PROVE  /\ DOMAIN s = 1 .. Len(s) /\ Len(s) \in Nat /\ IsFiniteSet(DOMAIN s)
         /\ \A I \in SUBSET DOMAIN s : IsFiniteSet(I) /\ Cardinality(I) \in Nat
         /\ \A ix \in DOMAIN s : s[ix] \in V
<1>1. DOMAIN s = 1 .. Len(s) /\ Len(s) \in Nat /\ \A ix \in DOMAIN s : s[ix] \in V
  OBVIOUS
<1>2. IsFiniteSet(DOMAIN s)
  BY <1>1, FS_Interval
<1>3. \A I \in SUBSET DOMAIN s : IsFiniteSet(I) /\ Cardinality(I) \in Nat
  BY <1>2, FS_Subset, FS_CardinalityType
<1> QED BY <1>1, <1>2, <1>3

LEMMA CopiesIsNat ==
  ASSUME NEW V, NEW s \in Seq(V), NEW y
  PROVE  /\ Copies(s, y) \in Nat
         /\ Copies(s, y) = 0 <=> y \notin Range(s)
<1> DEFINE A == {ix \in DOMAIN s : s[ix] = y}
<1>1. IsFiniteSet(A) /\ Cardinality(A) \in Nat
  <2>1. A \in SUBSET DOMAIN s
    OBVIOUS
  <2> HIDE DEF A
  <2> QED BY <2>1, IndicesFinite
<1>2. Cardinality(A) = 0 <=> A = {}
  <2> HIDE DEF A
  <2> QED BY <1>1, FS_EmptySet
<1>3. A = {} <=> y \notin Range(s)
  BY DEF Range
<1> QED BY <1>1, <1>2, <1>3 DEF Copies

\* A row whose elements are those of another one at other places.
Through(s, at, n) == [k \in 1 .. n |-> s[at[k]]]

LEMMA CopiesThrough ==
  ASSUME NEW V, NEW s \in Seq(V), NEW I, I \subseteq DOMAIN s, NEW n \in Nat,
         NEW at \in Bijection(1 .. n, I)
  PROVE  /\ Through(s, at, n) \in Seq(V) /\ Len(Through(s, at, n)) = n
         /\ Range(Through(s, at, n)) = Image(s, I)
         /\ \A y : Copies(Through(s, at, n), y) = Cardinality(Where(s, I, y))
<1> DEFINE r == Through(s, at, n)
<1>1. \A k \in 1 .. n : at[k] \in I
  BY DEF Bijection, Injection
<1>2. \A ix \in I : \E k \in 1 .. n : at[k] = ix
  BY DEF Bijection, Surjection
<1>3. IsFiniteSet(I) /\ \A ix \in I : s[ix] \in V
  BY IndicesFinite
<1>4. r \in Seq(V) /\ Len(r) = n /\ DOMAIN r = 1 .. n
  BY <1>1, <1>3 DEF Through
<1>5. Range(r) = Image(s, I)
  BY <1>1, <1>2, <1>4 DEF Range, Image, Through
<1>6. ASSUME NEW y PROVE Copies(r, y) = Cardinality(Where(s, I, y))
  <2> DEFINE A == Where(s, I, y)
  <2>1. Cardinality(Preimage(at, 1 .. n, A)) = Cardinality(A)
    <3>1. A \subseteq I
      BY DEF Where
    <3> HIDE DEF A
    <3> QED BY <1>3, <3>1, CountThrough
  <2>2. Preimage(at, 1 .. n, A) = {k \in DOMAIN r : r[k] = y}
    BY <1>1, <1>4 DEF Preimage, Where, Through
  <2> QED BY <2>1, <2>2 DEF Copies
<1> QED BY <1>4, <1>5, <1>6

LEMMA KeptFacts ==
  ASSUME NEW V, NEW s \in Seq(V), NEW I, I \subseteq DOMAIN s
  PROVE  /\ Kept(s, I) \in Seq(V) /\ Len(Kept(s, I)) = Cardinality(I)
         /\ Range(Kept(s, I)) = Image(s, I)
         /\ \A y : Copies(Kept(s, I), y) = Cardinality(Where(s, I, y))
<1>1. IsFiniteSet(I) /\ I \subseteq Nat \ {0} /\ Cardinality(I) \in Nat
  BY IndicesFinite
<1>2. PICK at \in Bijection(1 .. Cardinality(I), I) :
             Kept(s, I) = Through(s, at, Cardinality(I))
  BY <1>1, KeptIs DEF Through
<1> DEFINE n == Cardinality(I)
<1>3. at \in Bijection(1 .. n, I) /\ n \in Nat
  BY <1>1
<1>4. /\ Through(s, at, n) \in Seq(V) /\ Len(Through(s, at, n)) = n
      /\ Range(Through(s, at, n)) = Image(s, I)
      /\ \A y : Copies(Through(s, at, n), y) = Cardinality(Where(s, I, y))
  <2> HIDE DEF n
  <2> QED BY <1>3, CopiesThrough
<1> QED BY <1>2, <1>4

\* Taking out by value.
Chosen(s, S) == Kept(s, {ix \in DOMAIN s : s[ix] \in S})

LEMMA KeptByValue ==
  ASSUME NEW V, NEW s \in Seq(V), NEW S
  PROVE  /\ Chosen(s, S) \in Seq(V) /\ Range(Chosen(s, S)) = Range(s) \cap S
         /\ \A y : Copies(Chosen(s, S), y) = IF y \in S THEN Copies(s, y) ELSE 0
<1> DEFINE I == {ix \in DOMAIN s : s[ix] \in S}
           r == Kept(s, I)
<1>1. I \subseteq DOMAIN s
  OBVIOUS
<1>2. /\ r \in Seq(V) /\ Range(r) = Image(s, I)
      /\ \A y : Copies(r, y) = Cardinality(Where(s, I, y))
  <2> HIDE DEF I
  <2> QED BY <1>1, KeptFacts
<1>3. Image(s, I) = Range(s) \cap S
  BY DEF Range, Image
<1>4. ASSUME NEW y PROVE Copies(r, y) = IF y \in S THEN Copies(s, y) ELSE 0
  <2>1. CASE y \in S
    <3>1. Where(s, I, y) = {ix \in DOMAIN s : s[ix] = y}
      BY <2>1 DEF Where
    <3> QED BY <1>2, <2>1, <3>1 DEF Copies
  <2>2. CASE y \notin S
    <3>1. Where(s, I, y) = {}
      BY <2>2 DEF Where
    <3> QED BY <1>2, <2>2, <3>1, FS_EmptySet
  <2> QED BY <2>1, <2>2
<1> QED BY <1>2, <1>3, <1>4 DEF Chosen

LEMMA SortedFacts ==
  ASSUME NEW s \in Seq(Int)
  PROVE  /\ Sorted(s) \in Seq(Int) /\ Len(Sorted(s)) = Len(s)
         /\ Range(Sorted(s)) = Range(s)
         /\ \A y : Copies(Sorted(s), y) = Copies(s, y)
         /\ \A jx, k \in 1 .. Len(s) : jx <= k => Sorted(s)[jx] <= Sorted(s)[k]
<1>1. DOMAIN s = 1 .. Len(s) /\ Len(s) \in Nat
  OBVIOUS
<1>2. PICK at \in Bijection(1 .. Len(s), DOMAIN s) : Sorted(s) = Through(s, at, Len(s))
  BY <1>1, SortedIs DEF Through
<1> DEFINE n == Len(s)
           I == DOMAIN s
<1>4. /\ at \in Bijection(1 .. n, I) /\ n \in Nat /\ I \subseteq DOMAIN s
      /\ Sorted(s) = Through(s, at, n)
  BY <1>1, <1>2
<1>5. /\ Through(s, at, n) \in Seq(Int) /\ Len(Through(s, at, n)) = n
      /\ Range(Through(s, at, n)) = Image(s, I)
      /\ \A y : Copies(Through(s, at, n), y) = Cardinality(Where(s, I, y))
  <2> HIDE DEF n, I
  <2> QED BY <1>4, CopiesThrough
<1>3. /\ Sorted(s) \in Seq(Int) /\ Len(Sorted(s)) = Len(s)
      /\ Range(Sorted(s)) = Image(s, DOMAIN s)
      /\ \A y : Copies(Sorted(s), y) = Cardinality(Where(s, DOMAIN s, y))
  BY <1>4, <1>5
<1> QED BY <1>1, <1>3, SortedIs DEF Copies, Where, Range, Image

LEMMA CopiesOfConcat ==
  ASSUME NEW V, NEW a \in Seq(V), NEW b \in Seq(V), NEW y
  PROVE  Copies(a \o b, y) = Copies(a, y) + Copies(b, y)
<1> DEFINE A == {ix \in DOMAIN a : a[ix] = y}
           B == {ix \in DOMAIN b : b[ix] = y}
           C == {ix \in DOMAIN (a \o b) : (a \o b)[ix] = y}
           B2 == {ix \in (Len(a) + 1) .. (Len(a) + Len(b)) : b[ix - Len(a)] = y}
<1>1. /\ DOMAIN a = 1 .. Len(a) /\ DOMAIN b = 1 .. Len(b) /\ Len(a) \in Nat /\ Len(b) \in Nat
      /\ DOMAIN (a \o b) = 1 .. Len(a) + Len(b)
      /\ \A ix \in 1 .. Len(a) + Len(b) : (a \o b)[ix] = IF ix <= Len(a) THEN a[ix] ELSE b[ix - Len(a)]
  OBVIOUS
<1>2. C = A \cup B2 /\ A \cap B2 = {}
  BY <1>1
<1>3. IsFiniteSet(A) /\ IsFiniteSet(B) /\ Cardinality(A) \in Nat /\ Cardinality(B) \in Nat
  <2>1. A \in SUBSET DOMAIN a /\ B \in SUBSET DOMAIN b
    OBVIOUS
  <2> HIDE DEF A, B
  <2> QED BY <2>1, IndicesFinite
<1>4. ExistsBijection(B, B2)
  <2> DEFINE f == [ix \in B |-> ix + Len(a)]
  <2>1. f \in [B -> B2]
    BY <1>1
  <2>2. \A ix, jx \in B : f[ix] = f[jx] => ix = jx
    BY <1>1
  <2>3. \A jx \in B2 : \E ix \in B : f[ix] = jx
    <3> TAKE jx \in B2
    <3>1. jx - Len(a) \in B /\ f[jx - Len(a)] = jx
      BY <1>1
    <3> QED BY <3>1
  <2>4. f \in Bijection(B, B2)
    <3> HIDE DEF f, B, B2
    <3> QED BY <2>1, <2>2, <2>3 DEF Bijection, Injection, Surjection, IsInjective
  <2> HIDE DEF f, B, B2
  <2> QED BY <2>4 DEF ExistsBijection
<1>5. IsFiniteSet(B2) /\ Cardinality(B2) = Cardinality(B)
  <2> HIDE DEF B, B2
  <2> QED BY <1>3, <1>4, FS_Bijection
<1>6. Cardinality(A \cup B2) = Cardinality(A) + Cardinality(B2)
  <2> HIDE DEF A, B2
  <2>1. Cardinality(A \cup B2) = Cardinality(A) + Cardinality(B2) - Cardinality({})
    BY <1>2, <1>3, <1>5, FS_Union
  <2> QED BY <2>1, <1>3, <1>5, FS_EmptySet
<1> QED BY <1>2, <1>5, <1>6 DEF Copies

LEMMA CopiesOfOne ==
  /\ \A y : Copies(<<>>, y) = 0
  /\ \A x, y : Copies(<<x>>, y) = IF x = y THEN 1 ELSE 0
<1>1. ASSUME NEW y PROVE Copies(<<>>, y) = 0
  <2>1. {ix \in DOMAIN <<>> : <<>>[ix] = y} = {}
    OBVIOUS
  <2> QED BY <2>1, FS_EmptySet DEF Copies
<1>2. ASSUME NEW x, NEW y PROVE Copies(<<x>>, y) = IF x = y THEN 1 ELSE 0
  <2>1. CASE x = y
    <3>1. {ix \in DOMAIN <<x>> : <<x>>[ix] = y} = {1}
      BY <2>1
    <3> QED BY <2>1, <3>1, FS_Singleton DEF Copies
  <2>2. CASE x # y
    <3>1. {ix \in DOMAIN <<x>> : <<x>>[ix] = y} = {}
      BY <2>2
    <3> QED BY <2>2, <3>1, FS_EmptySet DEF Copies
  <2> QED BY <2>1, <2>2
<1> QED BY <1>1, <1>2

LEMMA CopiesOfAppend ==
  ASSUME NEW V, NEW s \in Seq(V), NEW x \in V, NEW y
  PROVE  Copies(Append(s, x), y) = Copies(s, y) + (IF x = y THEN 1 ELSE 0)
<1>1. Append(s, x) = s \o <<x>>
  OBVIOUS
<1>2. <<x>> \in Seq(V)
  OBVIOUS
<1>3. Copies(s \o <<x>>, y) = Copies(s, y) + Copies(<<x>>, y)
  BY <1>2, CopiesOfConcat
<1> QED BY <1>1, <1>3, CopiesOfOne

----------------------------------------------------------------------------
(* Rows: inserting and removing *)

LEMMA ConcatIs ==
  ASSUME NEW V, NEW a \in Seq(V), NEW b \in Seq(V)
  PROVE  /\ a \o b \in Seq(V) /\ Len(a \o b) = Len(a) + Len(b)
         /\ \A jx \in 1 .. Len(a) : (a \o b)[jx] = a[jx]
         /\ \A jx \in (Len(a) + 1) .. (Len(a) + Len(b)) : (a \o b)[jx] = b[jx - Len(a)]
<1> DEFINE m == Len(a)
           n == Len(b)
<1>1. m \in Nat /\ n \in Nat
  OBVIOUS
<1>2. /\ a \o b \in Seq(V) /\ Len(a \o b) = m + n
      /\ \A ix \in 1 .. m + n : (a \o b)[ix] = IF ix <= m THEN a[ix] ELSE b[ix - m]
  BY ConcatProperties
<1> HIDE DEF m, n
<1>3. /\ \A jx \in 1 .. m : (a \o b)[jx] = a[jx]
      /\ \A jx \in (m + 1) .. (m + n) : (a \o b)[jx] = b[jx - m]
  BY <1>1, <1>2
<1> QED BY <1>2, <1>3 DEF m, n

LEMMA SubSeqIs ==
  ASSUME NEW V, NEW s \in Seq(V), NEW m \in Nat, NEW n \in Nat, m <= n, n <= Len(s)
  PROVE  /\ SubSeq(s, m + 1, n) \in Seq(V) /\ Len(SubSeq(s, m + 1, n)) = n - m
         /\ \A jx \in 1 .. n - m : SubSeq(s, m + 1, n)[jx] = s[m + jx]
<1>1. \A jx \in (m + 1) .. n : s[jx] \in V
  OBVIOUS
<1>2. /\ SubSeq(s, m + 1, n) \in Seq(V)
      /\ Len(SubSeq(s, m + 1, n)) = IF m + 1 <= n THEN n - (m + 1) + 1 ELSE 0
      /\ \A jx \in 1 .. n - (m + 1) + 1 : SubSeq(s, m + 1, n)[jx] = s[(m + 1) + jx - 1]
  BY <1>1, SubSeqProperties
<1>3. \A jx \in 1 .. n - m : (m + 1) + jx - 1 = m + jx
  OBVIOUS
<1> QED BY <1>2, <1>3

\* A row in two parts.
LEMMA SplitIs ==
  ASSUME NEW V, NEW s \in Seq(V), NEW m \in Nat, m <= Len(s)
  PROVE  s = SubSeq(s, 1, m) \o SubSeq(s, m + 1, Len(s))
<1> DEFINE a == SubSeq(s, 1, m)
           b == SubSeq(s, m + 1, Len(s))
           n == Len(s)
           c == a \o b
<1>1. n \in Nat /\ m <= n /\ 0 + 1 = 1
  OBVIOUS
<1>2. /\ a \in Seq(V) /\ Len(a) = m /\ \A jx \in 1 .. m : a[jx] = s[jx]
      /\ b \in Seq(V) /\ Len(b) = n - m /\ \A jx \in 1 .. n - m : b[jx] = s[m + jx]
  BY SubSeqIs, <1>1
<1> HIDE DEF a, b
<1>3. /\ c \in Seq(V) /\ Len(c) = m + (n - m)
      /\ \A jx \in 1 .. m : c[jx] = a[jx]
      /\ \A jx \in (m + 1) .. (m + (n - m)) : c[jx] = b[jx - m]
  <2>0. a \in Seq(V) /\ b \in Seq(V)
    BY <1>2
  <2>1. /\ a \o b \in Seq(V) /\ Len(a \o b) = Len(a) + Len(b)
        /\ \A jx \in 1 .. Len(a) : (a \o b)[jx] = a[jx]
        /\ \A jx \in (Len(a) + 1) .. (Len(a) + Len(b)) : (a \o b)[jx] = b[jx - Len(a)]
    BY <2>0, ConcatIs
  <2>2. Len(a) = m /\ Len(b) = n - m
    BY <1>2
  <2> QED BY <2>1, <2>2
<1>4. Len(c) = n /\ m + (n - m) = n
  BY <1>1, <1>3
<1>5. ASSUME NEW jx \in 1 .. n PROVE c[jx] = s[jx]
  <2> HIDE DEF n, c
  <2>1. CASE jx <= m
    BY <1>1, <1>2, <1>3, <2>1
  <2>2. CASE jx > m
    <3>1. jx - m \in 1 .. n - m /\ m + (jx - m) = jx /\ jx \in (m + 1) .. (m + (n - m))
      BY <1>1, <2>2
    <3> QED BY <1>2, <1>3, <3>1
  <2> QED BY <1>1, <2>1, <2>2
<1>6. Len(s) = n
  OBVIOUS
<1> HIDE DEF c, n
<1>7. s = c
  BY <1>3, <1>4, <1>5, <1>6, SeqEqual
<1> QED BY <1>7 DEF c, a, b

\* e behind the first m elements, and without the one behind them.
Inserted(s, m, e) == InsertAt(s, m + 1, e)
Removed(s, m) == RemoveAt(s, m + 1)

IsInserted(t, s, m, e) ==
  /\ Len(t) = Len(s) + 1
  /\ \A jx \in 1 .. m : t[jx] = s[jx]
  /\ t[m + 1] = e
  /\ \A jx \in (m + 2) .. (Len(s) + 1) : t[jx] = s[jx - 1]
  /\ \A y : Copies(t, y) = Copies(s, y) + (IF e = y THEN 1 ELSE 0)

IsRemoved(t, s, m) ==
  /\ Len(t) = Len(s) - 1
  /\ \A jx \in 1 .. m : t[jx] = s[jx]
  /\ \A jx \in (m + 1) .. (Len(s) - 1) : t[jx] = s[jx + 1]
  /\ \A y : Copies(s, y) = Copies(t, y) + (IF s[m + 1] = y THEN 1 ELSE 0)

LEMMA InsertAtIs ==
  ASSUME NEW V, NEW s \in Seq(V), NEW m \in Nat, m <= Len(s), NEW e \in V
  PROVE  Inserted(s, m, e) \in Seq(V) /\ IsInserted(Inserted(s, m, e), s, m, e)
<1> DEFINE a == SubSeq(s, 1, m)
           b == SubSeq(s, m + 1, Len(s))
           c == <<e>>
           n == Len(s)
           d == a \o c
           r == d \o b
<1>1. n \in Nat /\ m <= n /\ 0 + 1 = 1
  OBVIOUS
<1>2. /\ a \in Seq(V) /\ Len(a) = m /\ \A jx \in 1 .. m : a[jx] = s[jx]
      /\ b \in Seq(V) /\ Len(b) = n - m /\ \A jx \in 1 .. n - m : b[jx] = s[m + jx]
  BY SubSeqIs, <1>1
<1>3. c \in Seq(V) /\ Len(c) = 1 /\ c[1] = e
  OBVIOUS
<1>4. s = a \o b
  BY SplitIs
<1>5. Inserted(s, m, e) = r
  <2>1. (m + 1) - 1 = m
    OBVIOUS
  <2> QED BY <2>1 DEF Inserted, InsertAt
<1> HIDE DEF a, b, c
<1>6. /\ d \in Seq(V) /\ Len(d) = m + 1
      /\ \A jx \in 1 .. m : d[jx] = a[jx]
      /\ \A jx \in (m + 1) .. (m + 1) : d[jx] = c[jx - m]
  <2>0. a \in Seq(V) /\ c \in Seq(V)
    BY <1>2, <1>3
  <2>1. /\ a \o c \in Seq(V) /\ Len(a \o c) = Len(a) + Len(c)
        /\ \A jx \in 1 .. Len(a) : (a \o c)[jx] = a[jx]
        /\ \A jx \in (Len(a) + 1) .. (Len(a) + Len(c)) : (a \o c)[jx] = c[jx - Len(a)]
    BY <2>0, ConcatIs
  <2>2. Len(a) = m /\ Len(c) = 1
    BY <1>2, <1>3
  <2> QED BY <2>1, <2>2
<1>7. d[m + 1] = e
  <2>1. m + 1 \in (m + 1) .. (m + 1) /\ (m + 1) - m = 1
    OBVIOUS
  <2> HIDE DEF d
  <2> QED BY <1>3, <1>6, <2>1
<1> HIDE DEF d
<1>8. /\ r \in Seq(V) /\ Len(r) = (m + 1) + (n - m)
      /\ \A jx \in 1 .. (m + 1) : r[jx] = d[jx]
      /\ \A jx \in ((m + 1) + 1) .. ((m + 1) + (n - m)) : r[jx] = b[jx - (m + 1)]
  <2>0. d \in Seq(V) /\ b \in Seq(V)
    BY <1>2, <1>6
  <2>1. /\ d \o b \in Seq(V) /\ Len(d \o b) = Len(d) + Len(b)
        /\ \A jx \in 1 .. Len(d) : (d \o b)[jx] = d[jx]
        /\ \A jx \in (Len(d) + 1) .. (Len(d) + Len(b)) : (d \o b)[jx] = b[jx - Len(d)]
    BY <2>0, ConcatIs
  <2>2. Len(d) = m + 1 /\ Len(b) = n - m
    BY <1>2, <1>6
  <2> QED BY <2>1, <2>2
<1>9. Len(r) = n + 1
  BY <1>1, <1>8
<1>10. ASSUME NEW jx \in (m + 2) .. (n + 1) PROVE r[jx] = s[jx - 1]
  <2>1. /\ jx - (m + 1) \in 1 .. n - m /\ m + (jx - (m + 1)) = jx - 1
        /\ jx \in ((m + 1) + 1) .. ((m + 1) + (n - m))
    BY <1>1
  <2> HIDE DEF r
  <2> QED BY <1>2, <1>8, <2>1
<1>11. \A jx \in 1 .. m : r[jx] = s[jx]
  <2> HIDE DEF r
  <2> QED BY <1>2, <1>6, <1>8
<1>12. r[m + 1] = e
  <2>1. m + 1 \in 1 .. (m + 1)
    BY <1>1
  <2> HIDE DEF r, d
  <2> QED BY <1>7, <1>8, <2>1
<1>13. ASSUME NEW y
       PROVE  Copies(r, y) = Copies(s, y) + (IF e = y THEN 1 ELSE 0)
  <2>1. Copies(c, y) = IF e = y THEN 1 ELSE 0
    BY CopiesOfOne DEF c
  <2>2. Copies(d, y) = Copies(a, y) + Copies(c, y)
    BY <1>2, <1>3, CopiesOfConcat DEF d
  <2>3. Copies(r, y) = Copies(d, y) + Copies(b, y)
    BY <1>2, <1>6, CopiesOfConcat
  <2>4. Copies(s, y) = Copies(a, y) + Copies(b, y)
    BY <1>2, <1>4, CopiesOfConcat
  <2>5. Copies(a, y) \in Nat /\ Copies(b, y) \in Nat /\ Copies(c, y) \in Nat
    BY <1>2, <1>3, CopiesIsNat
  <2> HIDE DEF r
  <2> QED BY <2>1, <2>2, <2>3, <2>4, <2>5
<1> HIDE DEF r
<1>14. IsInserted(r, s, m, e)
  BY <1>9, <1>10, <1>11, <1>12, <1>13 DEF IsInserted
<1> QED BY <1>5, <1>8, <1>14

LEMMA RemoveAtIs ==
  ASSUME NEW V, NEW s \in Seq(V), NEW m \in Nat, m < Len(s)
  PROVE  Removed(s, m) \in Seq(V) /\ IsRemoved(Removed(s, m), s, m)
<1> DEFINE a == SubSeq(s, 1, m)
           b == SubSeq(s, m + 1, Len(s))
           b2 == SubSeq(s, (m + 1) + 1, Len(s))
           n == Len(s)
           r == a \o b2
<1>1. n \in Nat /\ m < n /\ 0 + 1 = 1 /\ m + 1 \in Nat /\ m + 1 <= n /\ m <= n
  OBVIOUS
<1>2. /\ a \in Seq(V) /\ Len(a) = m /\ \A jx \in 1 .. m : a[jx] = s[jx]
      /\ b \in Seq(V) /\ Len(b) = n - m /\ \A jx \in 1 .. n - m : b[jx] = s[m + jx]
      /\ b2 \in Seq(V) /\ Len(b2) = n - (m + 1) /\ \A jx \in 1 .. n - (m + 1) : b2[jx] = s[(m + 1) + jx]
  <2>1. a \in Seq(V) /\ Len(a) = m - 0 /\ \A jx \in 1 .. m - 0 : a[jx] = s[0 + jx]
    <3>1. 0 \in Nat /\ 0 <= m
      OBVIOUS
    <3> QED BY SubSeqIs, <1>1, <3>1
  <2>2. b \in Seq(V) /\ Len(b) = n - m /\ \A jx \in 1 .. n - m : b[jx] = s[m + jx]
    BY SubSeqIs, <1>1
  <2> DEFINE m2 == m + 1
  <2>3. b2 \in Seq(V) /\ Len(b2) = n - m2 /\ \A jx \in 1 .. n - m2 : b2[jx] = s[m2 + jx]
    <3>1. b2 = SubSeq(s, m2 + 1, n) /\ m2 \in Nat /\ m2 <= n /\ n \in Nat /\ n <= Len(s)
      BY <1>1
    <3> HIDE DEF m2, b2, n
    <3> QED BY SubSeqIs, <3>1
  <2> HIDE DEF a, b, b2, n
  <2>4. m - 0 = m /\ \A jx \in 1 .. m : 0 + jx = jx
    OBVIOUS
  <2> QED BY <2>1, <2>2, <2>3, <2>4
<1>4. s = a \o b
  BY SplitIs, <1>1
<1>5. Removed(s, m) = r
  <2>1. (m + 1) - 1 = m
    OBVIOUS
  <2> QED BY <2>1 DEF Removed, RemoveAt
<1> HIDE DEF a, b, b2, n
<1>6. s[m + 1] \in V /\ <<s[m + 1]>> \in Seq(V) /\ Len(<<s[m + 1]>>) = 1
  BY <1>1 DEF n
<1>7. b = <<s[m + 1]>> \o b2
  <2> DEFINE f == <<s[m + 1]>>
             t == f \o b2
             k == n - (m + 1)
  <2>1. f \in Seq(V) /\ Len(f) = 1 /\ f[1] = s[m + 1] /\ k \in Nat /\ n - m = k + 1 /\ Len(b2) = k
    BY <1>1, <1>2, <1>6
  <2> HIDE DEF f, k
  <2>2. /\ t \in Seq(V) /\ Len(t) = 1 + k
        /\ \A jx \in 1 .. 1 : t[jx] = f[jx]
        /\ \A jx \in (1 + 1) .. (1 + k) : t[jx] = b2[jx - 1]
    <3>0. f \in Seq(V) /\ b2 \in Seq(V)
      BY <1>2, <2>1
    <3>1. /\ f \o b2 \in Seq(V) /\ Len(f \o b2) = Len(f) + Len(b2)
          /\ \A jx \in 1 .. Len(f) : (f \o b2)[jx] = f[jx]
          /\ \A jx \in (Len(f) + 1) .. (Len(f) + Len(b2)) : (f \o b2)[jx] = b2[jx - Len(f)]
      BY <3>0, ConcatIs
    <3>2. Len(f) = 1 /\ Len(b2) = k
      BY <1>2, <2>1
    <3> QED BY <3>1, <3>2
  <2> HIDE DEF t
  <2>3. ASSUME NEW jx \in 1 .. n - m PROVE t[jx] = b[jx]
    <3>1. CASE jx = 1
      BY <1>1, <1>2, <2>1, <2>2, <3>1
    <3>2. CASE jx # 1
      <4>1. jx \in (1 + 1) .. (1 + k) /\ jx - 1 \in 1 .. k /\ (m + 1) + (jx - 1) = m + jx
        BY <1>1, <2>1, <3>2
      <4>2. b2[jx - 1] = s[(m + 1) + (jx - 1)]
        BY <1>2, <4>1 DEF k
      <4> QED BY <1>2, <2>2, <4>1, <4>2
    <3> QED BY <3>1, <3>2
  <2>4. Len(t) = Len(b)
    BY <1>2, <2>1, <2>2
  <2>5. b = t
    BY <1>2, <2>2, <2>3, <2>4, SeqEqual
  <2> QED BY <2>5 DEF t, f
<1>8. /\ r \in Seq(V) /\ Len(r) = m + (n - (m + 1))
      /\ \A jx \in 1 .. m : r[jx] = a[jx]
      /\ \A jx \in (m + 1) .. (m + (n - (m + 1))) : r[jx] = b2[jx - m]
  <2>0. a \in Seq(V) /\ b2 \in Seq(V)
    BY <1>2
  <2>1. /\ a \o b2 \in Seq(V) /\ Len(a \o b2) = Len(a) + Len(b2)
        /\ \A jx \in 1 .. Len(a) : (a \o b2)[jx] = a[jx]
        /\ \A jx \in (Len(a) + 1) .. (Len(a) + Len(b2)) : (a \o b2)[jx] = b2[jx - Len(a)]
    BY <2>0, ConcatIs
  <2>2. Len(a) = m /\ Len(b2) = n - (m + 1)
    BY <1>2
  <2> QED BY <2>1, <2>2
<1>9. Len(r) = n - 1 /\ m + (n - (m + 1)) = n - 1
  BY <1>1, <1>8
<1>10. ASSUME NEW jx \in (m + 1) .. (n - 1) PROVE r[jx] = s[jx + 1]
  <2>1. jx - m \in 1 .. n - (m + 1) /\ (m + 1) + (jx - m) = jx + 1
    BY <1>1
  <2> HIDE DEF r
  <2>2. b2[jx - m] = s[jx + 1]
    BY <1>2, <2>1
  <2> QED BY <1>8, <1>9, <2>2
<1>11. \A jx \in 1 .. m : r[jx] = s[jx]
  <2> HIDE DEF r
  <2> QED BY <1>2, <1>8
<1>12. ASSUME NEW y PROVE Copies(s, y) = Copies(r, y) + (IF s[m + 1] = y THEN 1 ELSE 0)
  <2>1. Copies(<<s[m + 1]>>, y) = IF s[m + 1] = y THEN 1 ELSE 0
    BY CopiesOfOne
  <2>2. Copies(b, y) = Copies(<<s[m + 1]>>, y) + Copies(b2, y)
    <3> DEFINE f == <<s[m + 1]>>
    <3>1. f \in Seq(V) /\ b = f \o b2
      BY <1>6, <1>7
    <3> HIDE DEF f
    <3>2. Copies(b, y) = Copies(f, y) + Copies(b2, y)
      BY <1>2, <3>1, CopiesOfConcat
    <3> QED BY <3>2 DEF f
  <2>3. Copies(r, y) = Copies(a, y) + Copies(b2, y)
    BY <1>2, CopiesOfConcat
  <2>4. Copies(s, y) = Copies(a, y) + Copies(b, y)
    BY <1>2, <1>4, CopiesOfConcat
  <2>5. Copies(a, y) \in Nat /\ Copies(b2, y) \in Nat
    BY <1>2, CopiesIsNat
  <2> HIDE DEF r
  <2> QED BY <2>1, <2>2, <2>3, <2>4, <2>5
<1> HIDE DEF r
<1>13. IsRemoved(r, s, m)
  BY <1>9, <1>10, <1>11, <1>12 DEF IsRemoved, n
<1> QED BY <1>5, <1>8, <1>13

----------------------------------------------------------------------------
(* Rows: places in a sorted one *)

LEMMA LowerBoundIs ==
  ASSUME NEW line \in Seq(Int), \A ix, jx \in 1 .. Len(line) : ix <= jx => line[ix] <= line[jx],
         NEW q \in Int
  PROVE  LET k == Cardinality({ix \in DOMAIN line : line[ix] < q})
         IN /\ k \in Nat /\ k <= Len(line)
            /\ \A ix \in 1 .. Len(line) : line[ix] < q <=> ix <= k
<1> DEFINE B == {ix \in DOMAIN line : line[ix] < q}
           k == Cardinality(B)
           n == Len(line)
<1>1. DOMAIN line = 1 .. n /\ n \in Nat /\ \A ix \in 1 .. n : line[ix] \in Int
  OBVIOUS
<1>2. B \subseteq 1 .. n /\ IsFiniteSet(1 .. n) /\ Cardinality(1 .. n) = n
  <2>1. B \subseteq 1 .. n
    BY <1>1
  <2> HIDE DEF B, n
  <2>2. IsFiniteSet(1 .. n) /\ Cardinality(1 .. n) = IF 1 > n THEN 0 ELSE n - 1 + 1
    BY <1>1, FS_Interval
  <2> QED BY <1>1, <2>1, <2>2
<1>3. IsFiniteSet(B) /\ k \in Nat /\ k <= n
  <2> HIDE DEF B
  <2> QED BY <1>2, FS_Subset, FS_CardinalityType
<1>4. ASSUME NEW ix \in 1 .. n, line[ix] < q PROVE ix <= k
  <2>1. \A jx \in 1 .. ix : jx \in 1 .. n /\ line[jx] <= line[ix] /\ line[jx] \in Int
    BY <1>1
  <2>2. 1 .. ix \subseteq B
    BY <1>1, <1>4, <2>1
  <2>3. IsFiniteSet(1 .. ix) /\ Cardinality(1 .. ix) = ix
    BY FS_Interval
  <2> HIDE DEF B
  <2> QED BY <1>3, <2>2, <2>3, FS_Subset
<1>5. ASSUME NEW ix \in 1 .. n, ~(line[ix] < q) PROVE k < ix
  <2>1. \A jx \in 1 .. n : line[jx] < q => jx < ix
    BY <1>1, <1>5
  <2>2. B \subseteq 1 .. (ix - 1)
    BY <1>1, <2>1
  <2>3. IsFiniteSet(1 .. (ix - 1)) /\ Cardinality(1 .. (ix - 1)) = ix - 1
    BY FS_Interval
  <2>4. k <= ix - 1
    <3> HIDE DEF B
    <3> QED BY <2>2, <2>3, FS_Subset, ZenonT(60)
  <2> QED BY <1>3, <2>4
<1>6. \A ix \in 1 .. n : line[ix] < q <=> ix <= k
  <2> TAKE ix \in 1 .. n
  <2> HIDE DEF k
  <2> QED BY <1>3, <1>4, <1>5
<1> QED BY <1>3, <1>6

----------------------------------------------------------------------------
(* Recursive functions *)

\* F[n] makes the n-th value of the one before.
Recursion(v0, F, N, f) == f = [n \in 0 .. N |-> IF n = 0 THEN v0 ELSE F[n][f[n - 1]]]

LEMMA RecursionExists ==
  ASSUME NEW V, NEW v0 \in V, NEW N \in Nat, NEW F, \A n \in 1 .. N : \A v \in V : F[n][v] \in V
  PROVE  \E f \in [0 .. N -> V] : Recursion(v0, F, N, f)
<1> DEFINE P(m) == \E f \in [0 .. m -> V] : Recursion(v0, F, m, f)
           Q == {m \in Nat : m <= N => P(m)}
<1>1. 0 \in Q
  <2>1. [n \in 0 .. 0 |-> v0] \in [0 .. 0 -> V]
    OBVIOUS
  <2>2. Recursion(v0, F, 0, [n \in 0 .. 0 |-> v0])
    BY DEF Recursion
  <2> QED BY <2>1, <2>2
<1>2. ASSUME NEW m \in Nat, m \in Q PROVE m + 1 \in Q
  <2> SUFFICES ASSUME m + 1 <= N PROVE P(m + 1)
    OBVIOUS
  <2>1. PICK f \in [0 .. m -> V] : Recursion(v0, F, m, f)
    BY <1>2
  <2> DEFINE g == [n \in 0 .. m + 1 |-> IF n <= m THEN f[n] ELSE F[m + 1][f[m]]]
  <2>2. g \in [0 .. m + 1 -> V]
    <3>1. f[m] \in V /\ m + 1 \in 1 .. N
      OBVIOUS
    <3>2. F[m + 1][f[m]] \in V
      BY <3>1
    <3> QED BY <3>2
  <2>3. ASSUME NEW n \in 0 .. m + 1
        PROVE  g[n] = IF n = 0 THEN v0 ELSE F[n][g[n - 1]]
    <3>1. CASE n = 0
      <4>1. f[0] = v0
        BY <2>1 DEF Recursion
      <4> QED BY <3>1, <4>1
    <3>2. CASE n # 0 /\ n <= m
      <4>1. n \in 0 .. m /\ n - 1 \in 0 .. m /\ n - 1 \in 0 .. m + 1 /\ n - 1 <= m
        BY <3>2
      <4>2. f[n] = F[n][f[n - 1]]
        BY <2>1, <3>2, <4>1 DEF Recursion
      <4> QED BY <3>2, <4>1, <4>2
    <3>3. CASE n = m + 1
      <4>1. g[n] = F[m + 1][f[m]] /\ n - 1 = m /\ g[n - 1] = f[m] /\ n # 0
        BY <3>3
      <4> QED BY <3>3, <4>1
    <3> QED BY <3>1, <3>2, <3>3
  <2>4. Recursion(v0, F, m + 1, g)
    <3>1. g = [n \in 0 .. m + 1 |-> g[n]]
      OBVIOUS
    <3> HIDE DEF g
    <3> QED BY <2>3, <3>1 DEF Recursion
  <2> HIDE DEF g
  <2> QED BY <2>2, <2>4
<1>3. Nat \subseteq Q
  <2>1. \A m \in Nat : m \in Q => m + 1 \in Q
    BY <1>2
  <2> HIDE DEF Q
  <2> QED BY <1>1, <2>1, NumberInduction
<1>4. N \in Q
  BY <1>3
<1> QED BY <1>4

\* The rows one after the other.
Joins(J, rows, V) ==
  /\ Len(rows) \in Nat /\ \A n \in 1 .. Len(rows) : rows[n] \in Seq(V)
  /\ J \in [0 .. Len(rows) -> Seq(V)]
  /\ J[0] = <<>>
  /\ \A n \in 1 .. Len(rows) : J[n] = J[n - 1] \o rows[n]

LEMMA JoiningIs ==
  ASSUME NEW V, NEW rows \in Seq(Seq(V))
  PROVE  Joins(Joining(rows), rows, V)
<1> DEFINE F == [n \in 1 .. Len(rows) |-> [v \in Seq(V) |-> v \o rows[n]]]
           N == Len(rows)
           Is(f) == f = [n \in 0 .. N |-> IF n = 0 THEN <<>> ELSE f[n - 1] \o rows[n]]
           joining == CHOOSE f : Is(f)
<1>1. N \in Nat /\ \A n \in 1 .. N : rows[n] \in Seq(V)
  OBVIOUS
<1>2. \A n \in 1 .. N : \A v \in Seq(V) : F[n][v] = v \o rows[n] /\ F[n][v] \in Seq(V)
  BY <1>1
<1>3. <<>> \in Seq(V)
  OBVIOUS
<1>4. PICK f \in [0 .. N -> Seq(V)] : Recursion(<<>>, F, N, f)
  <2> HIDE DEF F, N
  <2> QED BY <1>1, <1>2, <1>3, RecursionExists
<1>5. Is(f)
  <2>1. \A n \in 0 .. N : n # 0 => n - 1 \in 0 .. N /\ n \in 1 .. N /\ f[n - 1] \in Seq(V)
    <3> HIDE DEF N
    <3> QED BY <1>1
  <2>2. \A n \in 0 .. N : f[n] = IF n = 0 THEN <<>> ELSE F[n][f[n - 1]]
    BY <1>4, Zenon DEF Recursion
  <2>3. \A n \in 0 .. N : f[n] = IF n = 0 THEN <<>> ELSE f[n - 1] \o rows[n]
    <3> HIDE DEF F, N
    <3> QED BY <1>2, <2>1, <2>2, Zenon
  <2> HIDE DEF F, N
  <2> QED BY <2>3
<1>6. Is(joining)
  BY <1>5, Zenon
<1>7. Joining(rows) = joining
  BY DEF Joining
<1> HIDE DEF joining
<1>8. /\ DOMAIN joining = 0 .. N /\ joining[0] = <<>>
      /\ \A n \in 1 .. N : joining[n] = joining[n - 1] \o rows[n]
  <2> HIDE DEF N
  <2>1. \A n \in 1 .. N : n \in 0 .. N /\ n # 0
    BY <1>1
  <2>2. 0 \in 0 .. N
    BY <1>1
  <2> QED BY <1>6, <2>1, <2>2
<1>9. \A n \in Nat : n <= N => joining[n] \in Seq(V)
  <2> DEFINE Q == {n \in Nat : n <= N => joining[n] \in Seq(V)}
  <2>1. 0 \in Q
    BY <1>3, <1>8
  <2>2. ASSUME NEW n \in Nat, n \in Q PROVE n + 1 \in Q
    <3> SUFFICES ASSUME n + 1 <= N PROVE joining[n + 1] \in Seq(V)
      OBVIOUS
    <3>1. n + 1 \in 1 .. N /\ n <= N /\ (n + 1) - 1 = n
      BY <1>1
    <3>2. joining[n] \in Seq(V) /\ rows[n + 1] \in Seq(V) /\ joining[n + 1] = joining[n] \o rows[n + 1]
      BY <1>1, <1>8, <2>2, <3>1
    <3> QED BY <3>2
  <2>3. Nat \subseteq Q
    <3>1. \A n \in Nat : n \in Q => n + 1 \in Q
      BY <2>2
    <3> HIDE DEF Q
    <3> QED BY <2>1, <3>1, NumberInduction
  <2> QED BY <2>3
<1>10. joining \in [0 .. N -> Seq(V)]
  BY <1>1, <1>6, <1>9
<1> QED BY <1>1, <1>7, <1>8, <1>10 DEF Joins

LEMMA JoiningExtends ==
  ASSUME NEW V, NEW rows, NEW J, Joins(J, rows, V),
         NEW n \in 0 .. Len(rows), NEW m \in 0 .. Len(rows), n <= m
  PROVE  /\ Len(J[n]) <= Len(J[m])
         /\ \A jx \in 1 .. Len(J[n]) : J[m][jx] = J[n][jx]
<1> DEFINE N == Len(rows)
           Ext(k) == /\ Len(J[n]) <= Len(J[k])
                     /\ \A jx \in 1 .. Len(J[n]) : J[k][jx] = J[n][jx]
           Q == {d \in Nat : n + d <= N => Ext(n + d)}
<1>1. /\ N \in Nat /\ \A k \in 0 .. N : J[k] \in Seq(V) /\ Len(J[k]) \in Nat
      /\ \A k \in 1 .. N : J[k] = J[k - 1] \o rows[k] /\ rows[k] \in Seq(V)
  BY DEF Joins
<1> HIDE DEF N
<1>2. 0 \in Q
  <2>1. n + 0 = n /\ n \in 0 .. N
    BY DEF N
  <2> QED BY <1>1, <2>1
<1>3. ASSUME NEW d \in Nat, d \in Q PROVE d + 1 \in Q
  <2> SUFFICES ASSUME n + (d + 1) <= N PROVE Ext(n + (d + 1))
    OBVIOUS
  <2> DEFINE k == n + d
  <2>1. /\ n \in 0 .. N /\ k \in 0 .. N /\ n + (d + 1) = k + 1 /\ k + 1 \in 1 .. N /\ (k + 1) - 1 = k
        /\ k + 1 \in 0 .. N /\ k <= N
    BY <1>1 DEF N
  <2>2. Ext(k)
    BY <1>3, <2>1
  <2> HIDE DEF k
  <2>3. J[k + 1] = J[k] \o rows[k + 1] /\ J[k] \in Seq(V) /\ rows[k + 1] \in Seq(V)
    BY <1>1, <2>1
  <2>4. /\ Len(J[k + 1]) = Len(J[k]) + Len(rows[k + 1])
        /\ \A jx \in 1 .. Len(J[k]) : J[k + 1][jx] = J[k][jx]
    <3> DEFINE a == J[k]
               b == rows[k + 1]
    <3>1. a \in Seq(V) /\ b \in Seq(V) /\ J[k + 1] = a \o b
      BY <2>3
    <3> HIDE DEF a, b
    <3>2. Len(a \o b) = Len(a) + Len(b) /\ \A jx \in 1 .. Len(a) : (a \o b)[jx] = a[jx]
      BY <3>1, ConcatIs
    <3> QED BY <3>1, <3>2 DEF a, b
  <2>5. Len(J[k]) \in Nat /\ Len(J[n]) \in Nat /\ Len(rows[k + 1]) \in Nat
    BY <1>1, <2>1, <2>3
  <2>6. Ext(k + 1)
    <3>0. Len(J[n]) <= Len(J[k])
      BY <2>2
    <3>1. Len(J[n]) <= Len(J[k]) /\ Len(J[k]) <= Len(J[k + 1]) /\ Len(J[k + 1]) \in Nat
      <4> DEFINE x == Len(J[n])
                 y == Len(J[k])
                 z == Len(J[k + 1])
                 w == Len(rows[k + 1])
      <4>1. x <= y /\ z = y + w /\ x \in Nat /\ y \in Nat /\ w \in Nat
        BY <2>4, <2>5, <3>0
      <4> HIDE DEF x, y, z, w
      <4>2. x <= y /\ y <= z /\ z \in Nat
        BY <4>1
      <4> QED BY <4>2 DEF x, y, z
    <3>2. ASSUME NEW jx \in 1 .. Len(J[n]) PROVE J[k + 1][jx] = J[n][jx]
      <4>1. jx \in 1 .. Len(J[k])
        BY <2>5, <3>1
      <4> QED BY <2>2, <2>4, <4>1
    <3>3. Len(J[n]) <= Len(J[k + 1])
      <4> DEFINE x == Len(J[n])
                 y == Len(J[k])
                 z == Len(J[k + 1])
      <4>1. x <= y /\ y <= z /\ x \in Nat /\ y \in Nat /\ z \in Nat
        BY <2>5, <3>1
      <4> HIDE DEF x, y, z
      <4>2. x <= z
        BY <4>1
      <4> QED BY <4>2 DEF x, z
    <3> QED BY <3>2, <3>3
  <2> QED BY <2>1, <2>6
<1>4. Nat \subseteq Q
  <2>1. \A d \in Nat : d \in Q => d + 1 \in Q
    BY <1>3
  <2> HIDE DEF Q
  <2> QED BY <1>2, <2>1, NumberInduction
<1>5. m - n \in Nat /\ n + (m - n) = m /\ m <= N
  BY DEF N
<1>6. Ext(n + (m - n))
  BY <1>4, <1>5
<1> QED BY <1>5, <1>6

\* Row n is where the rows before it end.
JoinedAt(J, rows, n) ==
  LET all == J[Len(rows)]
  IN /\ Len(J[n]) = Len(J[n - 1]) + Len(rows[n])
     /\ Len(J[n - 1]) \in Nat /\ Len(J[n]) \in Nat /\ Len(J[n]) <= Len(all)
     /\ SubSeq(all, Len(J[n - 1]) + 1, Len(J[n])) = rows[n]

LEMMA JoinedRow ==
  ASSUME NEW V, NEW rows, NEW J, Joins(J, rows, V), NEW n \in 1 .. Len(rows)
  PROVE  JoinedAt(J, rows, n)
<1> DEFINE N == Len(rows)
           all == J[N]
           a == Len(J[n - 1])
           b == Len(J[n])
           s == SubSeq(all, a + 1, b)
<1>0. N \in Nat /\ J \in [0 .. N -> Seq(V)] /\ n \in 1 .. N
  BY DEF Joins
<1>1. /\ N \in Nat /\ J \in [0 .. N -> Seq(V)] /\ n \in 1 .. N /\ n \in 0 .. N /\ n - 1 \in 0 .. N /\ N \in 0 .. N
      /\ n <= N
      /\ J[n] = J[n - 1] \o rows[n] /\ rows[n] \in Seq(V) /\ n \in Int
  <2>1. J[n] = J[n - 1] \o rows[n] /\ rows[n] \in Seq(V)
    BY DEF Joins
  <2> HIDE DEF N
  <2> QED BY <1>0, <2>1
<1>2. /\ Len(J[n]) <= Len(all) /\ \A jx \in 1 .. Len(J[n]) : all[jx] = J[n][jx]
  <2>1. n \in 0 .. Len(rows) /\ Len(rows) \in 0 .. Len(rows) /\ n <= Len(rows)
    BY <1>1
  <2> QED BY <2>1, JoiningExtends
<1> HIDE DEF N
<1>3. all \in Seq(V) /\ J[n] \in Seq(V) /\ J[n - 1] \in Seq(V) /\ a \in Nat /\ b \in Nat /\ Len(rows[n]) \in Nat
  <2>1. all \in Seq(V) /\ J[n] \in Seq(V) /\ J[n - 1] \in Seq(V)
    BY <1>1
  <2>2. rows[n] \in Seq(V)
    BY <1>1
  <2> QED BY <2>1, <2>2, LenProperties
<1>4. /\ b = a + Len(rows[n])
      /\ \A jx \in (a + 1) .. b : J[n][jx] = rows[n][jx - a]
  <2>1. /\ Len(J[n - 1] \o rows[n]) = Len(J[n - 1]) + Len(rows[n])
        /\ \A jx \in (Len(J[n - 1]) + 1) .. (Len(J[n - 1]) + Len(rows[n])) :
             (J[n - 1] \o rows[n])[jx] = rows[n][jx - Len(J[n - 1])]
    <3> DEFINE c == J[n - 1]
               d == rows[n]
    <3>1. c \in Seq(V) /\ d \in Seq(V)
      BY <1>1, <1>3
    <3> HIDE DEF c, d
    <3>2. /\ Len(c \o d) = Len(c) + Len(d)
          /\ \A jx \in (Len(c) + 1) .. (Len(c) + Len(d)) : (c \o d)[jx] = d[jx - Len(c)]
      BY <3>1, ConcatIs
    <3> QED BY <3>2 DEF c, d
  <2> QED BY <1>1, <2>1
<1> HIDE DEF all, a, b
<1>5. s \in Seq(V) /\ Len(s) = b - a /\ \A jx \in 1 .. b - a : s[jx] = all[a + jx]
  <2>1. a <= b /\ b <= Len(all)
    BY <1>2, <1>3, <1>4 DEF b
  <2> QED BY <1>3, <2>1, SubSeqIs
<1>6. Len(s) = Len(rows[n])
  BY <1>3, <1>4, <1>5
<1>7. ASSUME NEW jx \in 1 .. Len(s) PROVE s[jx] = rows[n][jx]
  <2>1. jx \in 1 .. b - a /\ a + jx \in (a + 1) .. b /\ a + jx \in 1 .. b /\ (a + jx) - a = jx
    BY <1>3, <1>4, <1>5
  <2>2. s[jx] = all[a + jx] /\ all[a + jx] = J[n][a + jx]
    BY <1>2, <1>5, <2>1 DEF b
  <2> QED BY <1>4, <2>1, <2>2
<1>8. s = rows[n]
  <2> HIDE DEF s
  <2> QED BY <1>1, <1>5, <1>6, <1>7, SeqEqual
<1> QED BY <1>2, <1>3, <1>4, <1>8 DEF N, all, a, b, JoinedAt

\* The operators on rows are the same in every instance.
LEMMA ContainersRows ==
  /\ \A s, I : Adj!Kept(s, I) = Kept(s, I)
  /\ \A s, I : EdgeList!Kept(s, I) = Kept(s, I)
  /\ \A s : CSR!Sorted(s) = Sorted(s)
  /\ \A S : CSR!Ascending(S) = Ascending(S)
  /\ \A rows : CSR!Joining(rows) = Joining(rows)
  /\ \A f : CSR!Range(f) = Range(f)
  /\ \A f : Adj!Range(f) = Range(f)
  /\ \A f : EdgeList!Range(f) = Range(f)
  /\ \A S : CSR!Cardinality(S) = Cardinality(S)
<1>1. \A S : CSR!Cardinality(S) = Cardinality(S)
  BY DEF CSR!Cardinality, Cardinality
<1>3. \A s, I : Adj!Kept(s, I) = Kept(s, I)
  BY DEF Adj!Kept, Kept, Adj!Cardinality, Cardinality
<1>4. \A s, I : EdgeList!Kept(s, I) = Kept(s, I)
  BY DEF EdgeList!Kept, Kept, EdgeList!Cardinality, Cardinality
<1>5. \A s : CSR!Sorted(s) = Sorted(s)
  BY DEF CSR!Sorted, Sorted, CSR!Cardinality, Cardinality
<1>6. \A S : CSR!Ascending(S) = Ascending(S)
  BY DEF CSR!Ascending, Ascending, CSR!Cardinality, Cardinality
<1>7. \A rows : CSR!Joining(rows) = Joining(rows)
  BY DEF CSR!Joining, Joining
<1>8. \A f : CSR!Range(f) = Range(f)
  BY DEF CSR!Range, Range
<1>9. \A f : Adj!Range(f) = Range(f)
  BY DEF Adj!Range, Range
<1>10. \A f : EdgeList!Range(f) = Range(f)
  BY DEF EdgeList!Range, Range
<1> QED BY <1>1, <1>3, <1>4, <1>5, <1>6, <1>7, <1>8, <1>9, <1>10

----------------------------------------------------------------------------
(* The multigraph of a container *)

\* What a call makes of the numbers of edges.
Cleared(after, before, x) ==
  after = [p \in T \X T |-> IF x \in {p[1], p[2]} THEN 0 ELSE before[p]]

OneSet(after, before, x, y, n) ==
  after = [p \in T \X T |-> IF p = <<x, y>> THEN n ELSE before[p]]

AdjVertices == Adj!vertices
AdjCount == [p \in T \X T |-> Copies(Adj!neighbors(p[1]), p[2])]

LEMMA AdjGraphIs ==
  /\ Edges(Adj!neighbors) = AdjCount
  /\ (Edges(Adj!neighbors))' = AdjCount'
<1>1. \A p \in T \X T : p[1] \in T
  OBVIOUS
<1>2. Edges(Adj!neighbors) = AdjCount
  BY <1>1, ContainersRows DEF Edges, AdjCount
<1>3. (Edges(Adj!neighbors))' = AdjCount'
  BY <1>1, ContainersRows DEF Edges, AdjCount
<1> QED BY <1>2, <1>3

\* A step of MultiGraph, told by the vertices and the numbers of edges.
GraphStep(afterV, after, beforeV, before, all) ==
  \/ \E x \in T : x \notin beforeV /\ afterV = beforeV \cup {x} /\ after = before
  \/ \E x \in T : x \in beforeV /\ afterV = beforeV \ {x} /\ Cleared(after, before, x)
  \/ \E x, y \in T : /\ {x, y} \subseteq beforeV /\ afterV = beforeV
                     /\ OneSet(after, before, x, y, before[<<x, y>>] + 1)
  \/ \E x, y \in T : /\ before[<<x, y>>] > 0 /\ afterV = beforeV
                     /\ OneSet(after, before, x, y, IF all THEN 0 ELSE before[<<x, y>>] - 1)

LEMMA AdjSteps ==
  ASSUME GraphStep(AdjVertices', AdjCount', AdjVertices, AdjCount, TRUE)
  PROVE  AdjGraph!Next
<1> USE AdjGraphIs
<1>1. ASSUME NEW x \in T, x \notin AdjVertices, AdjVertices' = AdjVertices \cup {x},
             AdjCount' = AdjCount
      PROVE  AdjGraph!Next
  <2>1. AdjGraph!AddVertex(x)
    BY <1>1 DEF AdjGraph!AddVertex, AdjVertices
  <2> QED BY <2>1 DEF AdjGraph!Next
<1>2. ASSUME NEW x \in T, x \in AdjVertices, AdjVertices' = AdjVertices \ {x},
             Cleared(AdjCount', AdjCount, x)
      PROVE  AdjGraph!Next
  <2>1. \A p \in T \X T : AdjCount'[p] = IF x \in {p[1], p[2]} THEN 0 ELSE AdjCount[p]
    BY <1>2 DEF Cleared
  <2>2. AdjGraph!RemoveVertex(x)
    BY <1>2, <2>1 DEF AdjGraph!RemoveVertex, AdjVertices
  <2> QED BY <2>2 DEF AdjGraph!Next
<1>3. ASSUME NEW x \in T, NEW y \in T, NEW n, AdjVertices' = AdjVertices,
             OneSet(AdjCount', AdjCount, x, y, n)
      PROVE  AdjGraph!SetEdge(x, y, n)
  <2>1. <<x, y>> \in T \X T
    OBVIOUS
  <2>2. AdjCount'[<<x, y>>] = n
    BY <1>3, <2>1 DEF OneSet
  <2>3. \A p \in T \X T : p # <<x, y>> => AdjCount'[p] = AdjCount[p]
    BY <1>3 DEF OneSet
  <2> QED BY <1>3, <2>2, <2>3, Zenon DEF AdjGraph!SetEdge, AdjVertices
<1>4. ASSUME NEW x \in T, NEW y \in T, {x, y} \subseteq AdjVertices, AdjVertices' = AdjVertices,
             OneSet(AdjCount', AdjCount, x, y, AdjCount[<<x, y>>] + 1)
      PROVE  AdjGraph!Next
  <2>1. AdjGraph!SetEdge(x, y, AdjCount[<<x, y>>] + 1)
    BY <1>3, <1>4
  <2>2. AdjGraph!AddEdge(x, y)
    BY <1>4, <2>1 DEF AdjGraph!AddEdge, AdjVertices
  <2> QED BY <2>2 DEF AdjGraph!Next
<1>5. ASSUME NEW x \in T, NEW y \in T, AdjCount[<<x, y>>] > 0, AdjVertices' = AdjVertices,
             OneSet(AdjCount', AdjCount, x, y, 0)
      PROVE  AdjGraph!Next
  <2>1. AdjGraph!SetEdge(x, y, 0)
    BY <1>3, <1>5
  <2>2. AdjGraph!RemoveEdge(x, y)
    BY <1>5, <2>1 DEF AdjGraph!RemoveEdge
  <2> QED BY <2>2 DEF AdjGraph!Next
<1> QED BY <1>1, <1>2, <1>4, <1>5 DEF GraphStep

----------------------------------------------------------------------------
(* GraphAdjacencyList *)

\* A row without x.
Lacking(line, x) == Kept(line, {ix \in DOMAIN line : line[ix] # x})

LEMMA WithoutLacks == \A line, x : Adj!Without(line, x) = Lacking(line, x)
BY ContainersRows DEF Adj!Without, Lacking

LEMMA LackingIs ==
  ASSUME NEW V, NEW line \in Seq(V), NEW x, NEW W, \A v \in V : v # x => v \in W
  PROVE  /\ Lacking(line, x) \in Seq(W)
         /\ \A y : Copies(Lacking(line, x), y) = IF y = x THEN 0 ELSE Copies(line, y)
<1> DEFINE r == Chosen(line, V \ {x})
<1>1. /\ r \in Seq(V) /\ Range(r) = Range(line) \cap (V \ {x})
      /\ \A y : Copies(r, y) = IF y \in V \ {x} THEN Copies(line, y) ELSE 0
  <2> DEFINE S == V \ {x}
  <2> HIDE DEF S
  <2>1. /\ Chosen(line, S) \in Seq(V) /\ Range(Chosen(line, S)) = Range(line) \cap S
        /\ \A y : Copies(Chosen(line, S), y) = IF y \in S THEN Copies(line, y) ELSE 0
    BY KeptByValue
  <2> QED BY <2>1 DEF S
<1>2. {ix \in DOMAIN line : line[ix] \in V \ {x}} = {ix \in DOMAIN line : line[ix] # x}
  <2>1. \A ix \in DOMAIN line : line[ix] \in V
    BY IndicesFinite
  <2> QED BY <2>1
<1>3. Lacking(line, x) = r
  BY <1>2 DEF Lacking, Chosen
<1>4. r \in Seq(W)
  <2> HIDE DEF r
  <2>1. \A ix \in 1 .. Len(r) : r[ix] \in Range(r)
    BY <1>1, IndicesFinite DEF Range
  <2> QED BY <1>1, <2>1
<1>5. \A y : Copies(r, y) = IF y = x THEN 0 ELSE Copies(line, y)
  <2> TAKE y
  <2>1. CASE y \in V
    <3>1. Copies(r, y) = IF y \in V \ {x} THEN Copies(line, y) ELSE 0
      BY <1>1
    <3> HIDE DEF r
    <3> QED BY <2>1, <3>1
  <2>2. CASE y \notin V
    <3>1. y \notin Range(line)
      BY <2>2, IndicesFinite DEF Range
    <3> QED BY <1>1, <2>2, <3>1, CopiesIsNat
  <2> QED BY <2>1, <2>2
<1> HIDE DEF r
<1> QED BY <1>3, <1>4, <1>5

\* Rows of vertices that hold vertices.
AdjInv ==
  /\ AdjVertices \subseteq T
  /\ adj_list \in [AdjVertices -> Seq(AdjVertices)]

LEMMA AdjQueries ==
  ASSUME AdjInv
  PROVE  /\ AdjVertices = DOMAIN adj_list
         /\ \A x \in AdjVertices : /\ x \in T /\ adj_list[x] \in Seq(AdjVertices)
                                   /\ Adj!neighbors(x) = adj_list[x]
         /\ \A p \in T \X T : AdjCount[p] = IF p[1] \in AdjVertices
                                            THEN Copies(adj_list[p[1]], p[2]) ELSE 0
         /\ \A p \in T \X T : AdjCount[p] \in Nat
         /\ \A p \in T \X T : p[1] \notin AdjVertices \/ p[2] \notin AdjVertices => AdjCount[p] = 0
<1>1. AdjVertices = DOMAIN adj_list
  BY DEF AdjVertices, Adj!vertices
<1>2. \A x \in AdjVertices : x \in T /\ adj_list[x] \in Seq(AdjVertices)
  BY DEF AdjInv
<1>3. \A x : Adj!neighbors(x) = IF x \in AdjVertices THEN adj_list[x] ELSE <<>>
  BY DEF AdjVertices, Adj!neighbors
<1>4. \A p \in T \X T : AdjCount[p] = Copies(Adj!neighbors(p[1]), p[2])
  BY DEF AdjCount
<1>5. \A p \in T \X T : AdjCount[p] = IF p[1] \in AdjVertices
                                      THEN Copies(adj_list[p[1]], p[2]) ELSE 0
  BY <1>3, <1>4, CopiesOfOne
<1>6. \A x \in AdjVertices : \A y : /\ Copies(adj_list[x], y) \in Nat
                                    /\ y \notin AdjVertices => Copies(adj_list[x], y) = 0
  <2> TAKE x \in AdjVertices
  <2> TAKE y
  <2>1. \A ix \in DOMAIN adj_list[x] : adj_list[x][ix] \in AdjVertices
    BY <1>2, IndicesFinite
  <2>2. y \notin AdjVertices => y \notin Range(adj_list[x])
    BY <2>1 DEF Range
  <2> QED BY <1>2, <2>2, CopiesIsNat
<1>7. \A p \in T \X T : AdjCount[p] \in Nat
  BY <1>5, <1>6
<1>8. \A p \in T \X T : p[1] \notin AdjVertices \/ p[2] \notin AdjVertices => AdjCount[p] = 0
  BY <1>5, <1>6
<1> QED BY <1>1, <1>2, <1>3, <1>5, <1>7, <1>8

\* The queries after a call that leaves rows.
LEMMA AdjMakes ==
  ASSUME NEW D, D \subseteq T, adj_list' \in [D -> Seq(D)]
  PROVE  /\ AdjInv' /\ AdjVertices' = D
         /\ AdjCount' = [p \in T \X T |-> IF p[1] \in D THEN Copies(adj_list'[p[1]], p[2]) ELSE 0]
<1>1. AdjVertices' = D
  BY DEF AdjVertices, Adj!vertices
<1>2. AdjInv'
  BY <1>1 DEF AdjInv
<1>3. \A x : Adj!neighbors(x)' = IF x \in D THEN adj_list'[x] ELSE <<>>
  BY <1>1 DEF AdjVertices, Adj!neighbors
<1>4. AdjCount' = [p \in T \X T |-> Copies(Adj!neighbors(p[1])', p[2])]
  BY DEF AdjCount
<1>5. \A p \in T \X T : Copies(Adj!neighbors(p[1])', p[2])
                        = IF p[1] \in D THEN Copies(adj_list'[p[1]], p[2]) ELSE 0
  BY <1>3, CopiesOfOne
<1> QED BY <1>1, <1>2, <1>4, <1>5

LEMMA AdjInitially ==
  ASSUME Adj!Init
  PROVE  AdjInv /\ AdjGraph!Init
<1>1. adj_list = <<>> /\ DOMAIN adj_list = {}
  BY DEF Adj!Init
<1>2. AdjVertices = {}
  BY <1>1 DEF AdjVertices, Adj!vertices
<1>3. adj_list \in [{} -> Seq({})]
  BY <1>1
<1>4. AdjInv
  BY <1>2, <1>3 DEF AdjInv
<1>5. AdjCount = [p \in T \X T |-> 0]
  <2>1. \A p \in T \X T : AdjCount[p] = 0
    BY <1>2, <1>4, AdjQueries
  <2> QED BY <2>1 DEF AdjCount
<1>6. AdjGraph!Init
  BY <1>2, <1>5, AdjGraphIs DEF AdjGraph!Init, AdjVertices
<1> QED BY <1>4, <1>6

LEMMA AdjAddVertex ==
  ASSUME AdjInv, NEW x \in T, x \notin AdjVertices, Adj!add_vertex(x)
  PROVE  AdjInv' /\ GraphStep(AdjVertices', AdjCount', AdjVertices, AdjCount, TRUE)
<1> DEFINE D == AdjVertices \cup {x}
<1>1. adj_list' = [v \in D |-> IF v = x THEN <<>> ELSE adj_list[v]]
  BY DEF Adj!add_vertex, Adj!With, AdjVertices
<1>2. \A v \in AdjVertices : adj_list[v] \in Seq(D)
  BY AdjQueries
<1>3. D \subseteq T /\ adj_list' \in [D -> Seq(D)]
  BY <1>1, <1>2 DEF AdjInv
<1>4. /\ AdjInv' /\ AdjVertices' = D
      /\ AdjCount' = [p \in T \X T |-> IF p[1] \in D THEN Copies(adj_list'[p[1]], p[2]) ELSE 0]
  <2> HIDE DEF D
  <2> QED BY <1>3, AdjMakes
<1>5. \A p \in T \X T : AdjCount[p] = IF p[1] \in D THEN Copies(adj_list'[p[1]], p[2]) ELSE 0
  <2> TAKE p \in T \X T
  <2>1. AdjCount[p] = IF p[1] \in AdjVertices THEN Copies(adj_list[p[1]], p[2]) ELSE 0
    BY AdjQueries
  <2>2. CASE p[1] = x
    BY <1>1, <2>1, <2>2, CopiesOfOne
  <2>3. CASE p[1] # x
    BY <1>1, <2>1, <2>3
  <2> QED BY <2>2, <2>3
<1>6. AdjCount' = AdjCount
  <2>1. AdjCount = [p \in T \X T |-> AdjCount[p]]
    BY DEF AdjCount
  <2> QED BY <1>4, <1>5, <2>1
<1> QED BY <1>4, <1>6 DEF GraphStep

LEMMA AdjRemoveVertex ==
  ASSUME AdjInv, NEW x \in T, Adj!remove_vertex(x)
  PROVE  /\ AdjInv'
         /\ \/ GraphStep(AdjVertices', AdjCount', AdjVertices, AdjCount, TRUE)
            \/ AdjVertices' = AdjVertices /\ AdjCount' = AdjCount
<1> DEFINE D == AdjVertices \ {x}
           line(v) == Lacking(adj_list[v], x)
<1>1. adj_list' = [v \in D |-> line(v)]
  BY WithoutLacks DEF Adj!remove_vertex, AdjVertices
<1>2. \A v \in AdjVertices : /\ line(v) \in Seq(D)
                             /\ \A y : Copies(line(v), y) = IF y = x THEN 0 ELSE Copies(adj_list[v], y)
  <2> TAKE v \in AdjVertices
  <2> DEFINE old == adj_list[v]
             V == AdjVertices
  <2>1. old \in Seq(V) /\ \A w \in V : w # x => w \in D
    BY AdjQueries
  <2> HIDE DEF old, V, D
  <2>2. /\ Lacking(old, x) \in Seq(D)
        /\ \A y : Copies(Lacking(old, x), y) = IF y = x THEN 0 ELSE Copies(old, y)
    BY <2>1, LackingIs
  <2> QED BY <2>2 DEF old, V
<1> HIDE DEF line
<1>3. D \subseteq T /\ adj_list' \in [D -> Seq(D)]
  BY <1>1, <1>2 DEF AdjInv
<1>4. /\ AdjInv' /\ AdjVertices' = D
      /\ AdjCount' = [p \in T \X T |-> IF p[1] \in D THEN Copies(adj_list'[p[1]], p[2]) ELSE 0]
  <2> HIDE DEF D
  <2> QED BY <1>3, AdjMakes
<1>5. \A p \in T \X T : (IF p[1] \in D THEN Copies(adj_list'[p[1]], p[2]) ELSE 0)
                        = IF x \in {p[1], p[2]} THEN 0 ELSE AdjCount[p]
  <2> TAKE p \in T \X T
  <2>1. AdjCount[p] = IF p[1] \in AdjVertices THEN Copies(adj_list[p[1]], p[2]) ELSE 0
    BY AdjQueries
  <2>2. CASE p[1] \in D
    BY <1>1, <1>2, <2>1, <2>2
  <2>3. CASE p[1] \notin D
    BY <2>1, <2>3
  <2> QED BY <2>2, <2>3
<1>6. Cleared(AdjCount', AdjCount, x)
  BY <1>4, <1>5 DEF Cleared
<1>7. CASE x \in AdjVertices
  BY <1>4, <1>6, <1>7 DEF GraphStep
<1>8. CASE x \notin AdjVertices
  <2>1. \A p \in T \X T : x \in {p[1], p[2]} => AdjCount[p] = 0
    BY <1>8, AdjQueries
  <2>2. AdjCount = [p \in T \X T |-> AdjCount[p]]
    BY DEF AdjCount
  <2>3. AdjCount' = AdjCount
    BY <1>6, <2>1, <2>2 DEF Cleared
  <2> QED BY <1>4, <1>8, <2>3
<1> QED BY <1>7, <1>8

LEMMA AdjAddEdge ==
  ASSUME AdjInv, NEW x \in AdjVertices, NEW y \in AdjVertices, Adj!add_edge(x, y)
  PROVE  AdjInv' /\ GraphStep(AdjVertices', AdjCount', AdjVertices, AdjCount, TRUE)
<1> DEFINE D == AdjVertices
           line == Append(adj_list[x], y)
<1>0. x \in T /\ y \in T /\ adj_list[x] \in Seq(D) /\ D \subseteq T
  BY AdjQueries DEF AdjInv
<1>1. adj_list' = [v \in D |-> IF v = x THEN line ELSE adj_list[v]]
  <2>1. Adj!neighbors(x) = adj_list[x]
    BY AdjQueries
  <2>2. Adj!With(x, line) = [v \in D |-> IF v = x THEN line ELSE adj_list[v]]
    BY DEF Adj!With, AdjVertices
  <2> HIDE DEF line
  <2>3. Adj!With(x, Append(Adj!neighbors(x), y)) = Adj!With(x, line)
    BY <2>1 DEF line
  <2> QED BY <2>2, <2>3 DEF Adj!add_edge
<1>2. line \in Seq(D) /\ \A z : Copies(line, z) = Copies(adj_list[x], z) + (IF y = z THEN 1 ELSE 0)
  BY <1>0, CopiesOfAppend
<1> HIDE DEF line
<1>3. adj_list' \in [D -> Seq(D)]
  BY <1>1, <1>2, AdjQueries
<1>4. /\ AdjInv' /\ AdjVertices' = D
      /\ AdjCount' = [p \in T \X T |-> IF p[1] \in D THEN Copies(adj_list'[p[1]], p[2]) ELSE 0]
  <2> HIDE DEF D
  <2> QED BY <1>0, <1>3, AdjMakes
<1>5. \A p \in T \X T : (IF p[1] \in D THEN Copies(adj_list'[p[1]], p[2]) ELSE 0)
                        = IF p = <<x, y>> THEN AdjCount[<<x, y>>] + 1 ELSE AdjCount[p]
  <2> TAKE p \in T \X T
  <2>1. AdjCount[p] = IF p[1] \in D THEN Copies(adj_list[p[1]], p[2]) ELSE 0
    BY AdjQueries
  <2>2. AdjCount[p] \in Nat
    BY AdjQueries
  <2>3. p = <<x, y>> <=> p[1] = x /\ p[2] = y
    OBVIOUS
  <2>4. CASE p[1] = x
    <3>1. adj_list'[p[1]] = line /\ p[1] \in D /\ AdjCount[p] = Copies(adj_list[x], p[2])
      BY <1>1, <2>1, <2>4
    <3>2. Copies(line, p[2]) = AdjCount[p] + (IF y = p[2] THEN 1 ELSE 0)
      BY <1>2, <3>1
    <3>3. CASE p[2] = y
      BY <2>3, <2>4, <3>1, <3>2, <3>3
    <3>4. CASE p[2] # y
      BY <2>2, <2>3, <2>4, <3>1, <3>2, <3>4
    <3> QED BY <3>3, <3>4
  <2>5. CASE p[1] # x
    BY <1>1, <2>1, <2>3, <2>5
  <2> QED BY <2>4, <2>5
<1>6. OneSet(AdjCount', AdjCount, x, y, AdjCount[<<x, y>>] + 1)
  BY <1>4, <1>5 DEF OneSet
<1> QED BY <1>0, <1>4, <1>6 DEF GraphStep

LEMMA AdjRemoveEdge ==
  ASSUME AdjInv, NEW x \in AdjVertices, NEW y \in T, Adj!remove_edge(x, y)
  PROVE  /\ AdjInv'
         /\ \/ GraphStep(AdjVertices', AdjCount', AdjVertices, AdjCount, TRUE)
            \/ AdjVertices' = AdjVertices /\ AdjCount' = AdjCount
<1> DEFINE D == AdjVertices
           line == Lacking(adj_list[x], y)
<1>0. x \in T /\ adj_list[x] \in Seq(D) /\ D \subseteq T
  BY AdjQueries DEF AdjInv
<1>1. adj_list' = [v \in D |-> IF v = x THEN line ELSE adj_list[v]]
  <2>1. Adj!neighbors(x) = adj_list[x]
    BY AdjQueries
  <2>2. Adj!With(x, line) = [v \in D |-> IF v = x THEN line ELSE adj_list[v]]
    BY DEF Adj!With, AdjVertices
  <2> HIDE DEF line
  <2>3. Adj!With(x, Adj!Without(Adj!neighbors(x), y))
        = Adj!With(x, line)
    BY <2>1, WithoutLacks DEF line
  <2> QED BY <2>2, <2>3 DEF Adj!remove_edge
<1>2. /\ line \in Seq(D)
      /\ \A z : Copies(line, z) = IF z = y THEN 0 ELSE Copies(adj_list[x], z)
  <2> DEFINE old == adj_list[x]
  <2> HIDE DEF old, D
  <2>1. old \in Seq(D)
    BY <1>0 DEF old
  <2>2. /\ Lacking(old, y) \in Seq(D)
        /\ \A z : Copies(Lacking(old, y), z) = IF z = y THEN 0 ELSE Copies(old, z)
    BY <2>1, LackingIs
  <2> QED BY <2>2 DEF old
<1> HIDE DEF line
<1>3. adj_list' \in [D -> Seq(D)]
  <2>1. line \in Seq(D)
    BY <1>2
  <2> QED BY <1>1, <2>1, AdjQueries
<1>4. /\ AdjInv' /\ AdjVertices' = D
      /\ AdjCount' = [p \in T \X T |-> IF p[1] \in D THEN Copies(adj_list'[p[1]], p[2]) ELSE 0]
  <2> HIDE DEF D
  <2> QED BY <1>0, <1>3, AdjMakes
<1>5. \A p \in T \X T : (IF p[1] \in D THEN Copies(adj_list'[p[1]], p[2]) ELSE 0)
                        = IF p = <<x, y>> THEN 0 ELSE AdjCount[p]
  <2> TAKE p \in T \X T
  <2>1. AdjCount[p] = IF p[1] \in D THEN Copies(adj_list[p[1]], p[2]) ELSE 0
    BY AdjQueries
  <2>3. p = <<x, y>> <=> p[1] = x /\ p[2] = y
    OBVIOUS
  <2>4. CASE p[1] = x
    <3>1. adj_list'[p[1]] = line /\ p[1] \in D /\ AdjCount[p] = Copies(adj_list[x], p[2])
      BY <1>1, <2>1, <2>4
    <3> QED BY <1>2, <2>3, <2>4, <3>1
  <2>5. CASE p[1] # x
    BY <1>1, <2>1, <2>3, <2>5
  <2> QED BY <2>4, <2>5
<1>6. OneSet(AdjCount', AdjCount, x, y, 0)
  BY <1>4, <1>5 DEF OneSet
<1>7. AdjCount[<<x, y>>] \in Nat
  BY <1>0, AdjQueries
<1>8. CASE AdjCount[<<x, y>>] > 0
  <2>1. OneSet(AdjCount', AdjCount, x, y, IF TRUE THEN 0 ELSE AdjCount[<<x, y>>] - 1)
    BY <1>6
  <2> QED BY <1>0, <1>4, <1>8, <2>1 DEF GraphStep
<1>9. CASE AdjCount[<<x, y>>] = 0
  <2>1. AdjCount = [p \in T \X T |-> AdjCount[p]]
    BY DEF AdjCount
  <2>2. \A p \in T \X T : (IF p = <<x, y>> THEN 0 ELSE AdjCount[p]) = AdjCount[p]
    BY <1>9
  <2> DEFINE c == AdjCount
  <2> HIDE DEF c
  <2>3. AdjCount' = [p \in T \X T |-> c[p]]
    BY <1>6, <2>2 DEF OneSet, c
  <2>4. AdjCount' = AdjCount
    <3>1. c = [p \in T \X T |-> c[p]]
      BY <2>1 DEF c
    <3>2. AdjCount' = c
      BY <2>3, <3>1, Zenon
    <3> QED BY <3>2 DEF c
  <2> QED BY <1>4, <2>4
<1> DEFINE n == AdjCount[<<x, y>>]
<1>10. n > 0 \/ n = 0
  <2>1. n \in Nat
    BY <1>7
  <2> HIDE DEF n
  <2> QED BY <2>1
<1> QED BY <1>8, <1>9, <1>10

LEMMA AdjStep ==
  ASSUME AdjInv, ContainersNext
  PROVE  AdjInv' /\ (AdjGraph!Next \/ UNCHANGED AdjGraph!vars)
<1>1. AdjVertices' = AdjVertices /\ AdjCount' = AdjCount => UNCHANGED AdjGraph!vars
  BY AdjGraphIs DEF AdjGraph!vars, AdjVertices
<1>2. ASSUME NEW x \in T, add_vertex(x)
      PROVE  AdjInv' /\ GraphStep(AdjVertices', AdjCount', AdjVertices, AdjCount, TRUE)
  BY <1>2, AdjAddVertex DEF add_vertex, AdjVertices
<1>3. ASSUME NEW x \in T, remove_vertex(x)
      PROVE  /\ AdjInv'
             /\ \/ GraphStep(AdjVertices', AdjCount', AdjVertices, AdjCount, TRUE)
                \/ AdjVertices' = AdjVertices /\ AdjCount' = AdjCount
  BY <1>3, AdjRemoveVertex DEF remove_vertex
<1>4. ASSUME NEW x \in T, NEW y \in T, add_edge(x, y)
      PROVE  AdjInv' /\ GraphStep(AdjVertices', AdjCount', AdjVertices, AdjCount, TRUE)
  BY <1>4, AdjAddEdge DEF add_edge, AdjVertices
<1>5. ASSUME NEW x \in T, NEW y \in T, remove_edge(x, y)
      PROVE  /\ AdjInv'
             /\ \/ GraphStep(AdjVertices', AdjCount', AdjVertices, AdjCount, TRUE)
                \/ AdjVertices' = AdjVertices /\ AdjCount' = AdjCount
  BY <1>5, AdjRemoveEdge DEF remove_edge, AdjVertices
<1> QED BY <1>1, <1>2, <1>3, <1>4, <1>5, AdjSteps DEF ContainersNext

\* After any calls the rows of GraphAdjacencyList hold a multigraph: add_vertex,
\* remove_vertex, add_edge and remove_edge change the vertex or the edges they
\* name, and no others.
THEOREM AdjacencyListIsMultiGraph == ContainersSpec => AdjImplements
<1>1. ContainersInit => AdjInv /\ AdjGraph!Init
  BY AdjInitially DEF ContainersInit
<1>2. AdjInv /\ [ContainersNext]_containers
      => AdjInv' /\ [AdjGraph!Next]_(AdjGraph!vars)
  <2>1. CASE UNCHANGED containers
    <3>1. ASSUME AdjInv, UNCHANGED adj_list
          PROVE  AdjInv' /\ AdjCount' = AdjCount /\ AdjVertices' = AdjVertices
      <4>1. AdjVertices' = AdjVertices
        BY <3>1 DEF AdjVertices, Adj!vertices
      <4>2. AdjInv'
        BY <3>1, <4>1 DEF AdjInv
      <4>3. AdjCount' = AdjCount
        BY <3>1, <4>1 DEF AdjCount, Adj!neighbors, AdjVertices
      <4> QED BY <4>1, <4>2, <4>3
    <3> QED BY <2>1, <3>1, AdjGraphIs DEF containers, AdjGraph!vars, AdjVertices
  <2> QED BY <2>1, AdjStep
<1> QED BY <1>1, <1>2, PTL DEF ContainersSpec, AdjImplements, AdjGraph!Spec

----------------------------------------------------------------------------
(* GraphEdgeList *)

\* What neighbors and vertices are of a list of edges.
Out(s, x) == [k \in DOMAIN Kept(s, {ix \in DOMAIN s : s[ix][1] = x /\ s[ix][2] # max}) |->
                Kept(s, {ix \in DOMAIN s : s[ix][1] = x /\ s[ix][2] # max})[k][2]]
Ends(s) == UNION {{e[1]} \cup ({e[2]} \ {max}) : e \in Range(s)}

EdgeListVertices == Ends(edges)
EdgeListCount == [p \in T \X T |-> Copies(Out(edges, p[1]), p[2])]

LEMMA EdgeListGraphIs ==
  /\ Edges(EdgeList!neighbors) = EdgeListCount
  /\ (Edges(EdgeList!neighbors))' = EdgeListCount'
  /\ EdgeList!vertices = EdgeListVertices
  /\ EdgeList!vertices' = EdgeListVertices'
<1>1. \A x : EdgeList!neighbors(x) = Out(edges, x)
  BY ContainersRows DEF EdgeList!neighbors, Out
<1>2. \A x : EdgeList!neighbors(x)' = Out(edges', x)
  BY ContainersRows DEF EdgeList!neighbors, Out
<1>3. \A p \in T \X T : p[1] \in T
  OBVIOUS
<1>4. Edges(EdgeList!neighbors) = EdgeListCount
  BY <1>1, <1>3, ContainersRows DEF Edges, EdgeListCount
<1>5. (Edges(EdgeList!neighbors))' = EdgeListCount'
  BY <1>2, <1>3, ContainersRows DEF Edges, EdgeListCount
<1>6. EdgeList!vertices = EdgeListVertices
  BY ContainersRows DEF EdgeList!vertices, EdgeListVertices, Ends
<1>7. EdgeList!vertices' = EdgeListVertices'
  BY ContainersRows DEF EdgeList!vertices, EdgeListVertices, Ends
<1> QED BY <1>4, <1>5, <1>6, <1>7

LEMMA EdgeListSteps ==
  ASSUME GraphStep(EdgeListVertices', EdgeListCount', EdgeListVertices, EdgeListCount, TRUE)
  PROVE  EdgeListGraph!Next
<1> USE EdgeListGraphIs
<1>1. ASSUME NEW x \in T, x \notin EdgeListVertices, EdgeListVertices' = EdgeListVertices \cup {x},
             EdgeListCount' = EdgeListCount
      PROVE  EdgeListGraph!Next
  <2>1. EdgeListGraph!AddVertex(x)
    BY <1>1 DEF EdgeListGraph!AddVertex
  <2> QED BY <2>1 DEF EdgeListGraph!Next
<1>2. ASSUME NEW x \in T, x \in EdgeListVertices, EdgeListVertices' = EdgeListVertices \ {x},
             Cleared(EdgeListCount', EdgeListCount, x)
      PROVE  EdgeListGraph!Next
  <2>1. \A p \in T \X T : EdgeListCount'[p] = IF x \in {p[1], p[2]} THEN 0 ELSE EdgeListCount[p]
    BY <1>2 DEF Cleared
  <2>2. EdgeListGraph!RemoveVertex(x)
    BY <1>2, <2>1 DEF EdgeListGraph!RemoveVertex
  <2> QED BY <2>2 DEF EdgeListGraph!Next
<1>3. ASSUME NEW x \in T, NEW y \in T, NEW n, EdgeListVertices' = EdgeListVertices,
             OneSet(EdgeListCount', EdgeListCount, x, y, n)
      PROVE  EdgeListGraph!SetEdge(x, y, n)
  <2>1. <<x, y>> \in T \X T
    OBVIOUS
  <2>2. EdgeListCount'[<<x, y>>] = n
    BY <1>3, <2>1 DEF OneSet
  <2>3. \A p \in T \X T : p # <<x, y>> => EdgeListCount'[p] = EdgeListCount[p]
    BY <1>3 DEF OneSet
  <2> QED BY <1>3, <2>2, <2>3, Zenon DEF EdgeListGraph!SetEdge
<1>4. ASSUME NEW x \in T, NEW y \in T, {x, y} \subseteq EdgeListVertices, EdgeListVertices' = EdgeListVertices,
             OneSet(EdgeListCount', EdgeListCount, x, y, EdgeListCount[<<x, y>>] + 1)
      PROVE  EdgeListGraph!Next
  <2>1. EdgeListGraph!SetEdge(x, y, EdgeListCount[<<x, y>>] + 1)
    BY <1>3, <1>4
  <2>2. EdgeListGraph!AddEdge(x, y)
    BY <1>4, <2>1 DEF EdgeListGraph!AddEdge
  <2> QED BY <2>2 DEF EdgeListGraph!Next
<1>5. ASSUME NEW x \in T, NEW y \in T, EdgeListCount[<<x, y>>] > 0, EdgeListVertices' = EdgeListVertices,
             OneSet(EdgeListCount', EdgeListCount, x, y, 0)
      PROVE  EdgeListGraph!Next
  <2>1. EdgeListGraph!SetEdge(x, y, 0)
    BY <1>3, <1>5
  <2>2. EdgeListGraph!RemoveEdge(x, y)
    BY <1>5, <2>1 DEF EdgeListGraph!RemoveEdge
  <2> QED BY <2>2 DEF EdgeListGraph!Next
<1> QED BY <1>1, <1>2, <1>4, <1>5 DEF GraphStep

LEMMA OutIs ==
  ASSUME NEW E, \A e \in E : e = <<e[1], e[2]>>, NEW s \in Seq(E), NEW x, NEW y, y # max
  PROVE  Copies(Out(s, x), y) = Copies(s, <<x, y>>)
<1> DEFINE I == {ix \in DOMAIN s : s[ix][1] = x /\ s[ix][2] # max}
           k == Kept(s, I)
<1>0. s \in Seq(E) /\ I \subseteq DOMAIN s /\ \A ix \in DOMAIN s : s[ix] = <<s[ix][1], s[ix][2]>>
  <2>1. \A ix \in DOMAIN s : s[ix] \in E
    BY IndicesFinite
  <2> QED BY <2>1
<1>1. /\ k \in Seq(E) /\ Range(k) = Image(s, I)
      /\ \A e : Copies(k, e) = Cardinality(Where(s, I, e))
  <2> HIDE DEF I
  <2> QED BY <1>0, KeptFacts
<1>2. \A ix \in DOMAIN k : k[ix][1] = x /\ k[ix] = <<k[ix][1], k[ix][2]>>
  <2> TAKE ix \in DOMAIN k
  <2>1. k[ix] \in Image(s, I)
    BY <1>1 DEF Range
  <2>2. PICK jx \in I : k[ix] = s[jx]
    BY <2>1 DEF Image
  <2> HIDE DEF k
  <2> QED BY <1>0, <2>2
<1>3. Out(s, x) = [ix \in DOMAIN k |-> k[ix][2]]
  BY DEF Out
<1>4. {ix \in DOMAIN Out(s, x) : Out(s, x)[ix] = y} = {ix \in DOMAIN k : k[ix] = <<x, y>>}
  <2> HIDE DEF k
  <2> DEFINE o == Out(s, x)
  <2>1. DOMAIN o = DOMAIN k /\ \A ix \in DOMAIN k : o[ix] = k[ix][2]
    BY <1>3
  <2> HIDE DEF o
  <2>2. \A ix \in DOMAIN k : o[ix] = y <=> k[ix] = <<x, y>>
    BY <1>2, <2>1
  <2>3. {ix \in DOMAIN o : o[ix] = y} = {ix \in DOMAIN k : k[ix] = <<x, y>>}
    BY <2>1, <2>2
  <2> QED BY <2>3 DEF o
<1>5. Copies(Out(s, x), y) = Copies(k, <<x, y>>)
  BY <1>4 DEF Copies
<1>6. Where(s, I, <<x, y>>) = {ix \in DOMAIN s : s[ix] = <<x, y>>}
  BY DEF Where
<1>7. Copies(k, <<x, y>>) = Copies(s, <<x, y>>)
  BY <1>1, <1>6 DEF Copies
<1> QED BY <1>5, <1>7

\* Every vertex has a pair of its own, and the pairs name vertices only.
Listed(s, D) ==
  /\ s \in Seq(D \X (D \cup {max}))
  /\ \A v \in D : <<v, max>> \in Range(s)

LEMMA ListedIs ==
  ASSUME NEW s, NEW D, D \subseteq T, max \notin T, Listed(s, D)
  PROVE  /\ Ends(s) = D
         /\ [p \in T \X T |-> Copies(Out(s, p[1]), p[2])] = [p \in T \X T |-> Copies(s, p)]
         /\ \A p \in T \X T : /\ Copies(s, p) \in Nat
                              /\ p[1] \notin D \/ p[2] \notin D => Copies(s, p) = 0
<1> DEFINE W == D \cup {max}
<1>0. s \in Seq(D \X W)
  BY DEF Listed
<1>1. \A e \in Range(s) : e \in D \X (D \cup {max})
  BY <1>0, IndicesFinite DEF Range
<1>2. Ends(s) \subseteq D
  <2>1. \A e \in Range(s) : {e[1]} \cup ({e[2]} \ {max}) \subseteq D
    BY <1>1
  <2> QED BY <2>1 DEF Ends
<1>3. D \subseteq Ends(s)
  <2> SUFFICES ASSUME NEW v \in D PROVE v \in Ends(s)
    OBVIOUS
  <2>1. <<v, max>> \in Range(s)
    BY DEF Listed
  <2> DEFINE e == <<v, max>>
  <2>2. v \in {e[1]} \cup ({e[2]} \ {max})
    OBVIOUS
  <2> HIDE DEF e
  <2>3. \E d \in Range(s) : v \in {d[1]} \cup ({d[2]} \ {max})
    BY <2>1, <2>2 DEF e
  <2> QED BY <2>3 DEF Ends
<1> DEFINE E == D \X W
<1>4. \A p \in T \X T : Copies(Out(s, p[1]), p[2]) = Copies(s, p)
  <2> TAKE p \in T \X T
  <2> DEFINE x == p[1] y == p[2]
  <2>1. y # max /\ p = <<x, y>>
    OBVIOUS
  <2>3. s \in Seq(E) /\ \A e \in E : e = <<e[1], e[2]>>
    BY <1>0
  <2> HIDE DEF x, y, E
  <2>2. Copies(Out(s, x), y) = Copies(s, <<x, y>>)
    BY <2>1, <2>3, OutIs
  <2> QED BY <2>1, <2>2 DEF x, y
<1>5. \A p \in T \X T : /\ Copies(s, p) \in Nat
                        /\ p[1] \notin D \/ p[2] \notin D => Copies(s, p) = 0
  <2> TAKE p \in T \X T
  <2>1. p[1] \notin D \/ p[2] \notin D => p \notin Range(s)
    BY <1>1
  <2> HIDE DEF E
  <2>2. Copies(s, p) \in Nat /\ (Copies(s, p) = 0 <=> p \notin Range(s))
    BY <1>0, CopiesIsNat DEF E
  <2> QED BY <2>1, <2>2
<1> QED BY <1>2, <1>3, <1>4, <1>5

EdgeListInv == Listed(edges, AdjVertices)

\* The queries after a call.
LEMMA EdgeListMakes ==
  ASSUME max \notin T, AdjInv, EdgeListInv
  PROVE  /\ EdgeListVertices = AdjVertices
         /\ EdgeListCount = [p \in T \X T |-> Copies(edges, p)]
         /\ \A p \in T \X T : /\ Copies(edges, p) \in Nat
                              /\ p[1] \notin AdjVertices \/ p[2] \notin AdjVertices => Copies(edges, p) = 0
BY ListedIs DEF AdjInv, EdgeListInv, EdgeListVertices, EdgeListCount

LEMMA EdgeListMakesNext ==
  ASSUME max \notin T, AdjInv', EdgeListInv'
  PROVE  /\ EdgeListVertices' = AdjVertices'
         /\ EdgeListCount' = [p \in T \X T |-> Copies(edges', p)]
BY ListedIs DEF AdjInv, EdgeListInv, EdgeListVertices, EdgeListCount

LEMMA InRangeOfAppend ==
  ASSUME NEW V, NEW s \in Seq(V), NEW e \in V
  PROVE  \A y : y \in Range(s) \/ y = e => y \in Range(Append(s, e))
<1>1. \A ix \in DOMAIN s : ix \in DOMAIN Append(s, e) /\ Append(s, e)[ix] = s[ix]
  OBVIOUS
<1>2. Len(s) + 1 \in DOMAIN Append(s, e) /\ Append(s, e)[Len(s) + 1] = e
  <2>1. Append(s, e) \in Seq(V) /\ Len(Append(s, e)) = Len(s) + 1 /\ Append(s, e)[Len(s) + 1] = e
    OBVIOUS
  <2>2. DOMAIN Append(s, e) = 1 .. Len(s) + 1 /\ Len(s) \in Nat
    <3> DEFINE a == Append(s, e)
    <3> HIDE DEF a
    <3>1. a \in Seq(V) /\ Len(a) = Len(s) + 1
      BY <2>1 DEF a
    <3> QED BY <3>1, IndicesFinite DEF a
  <2> DEFINE n == Len(s) + 1
  <2>3. n \in 1 .. n
    BY <2>2
  <2> HIDE DEF n
  <2> QED BY <2>1, <2>2, <2>3 DEF n
<1>3. \A y \in Range(s) : y \in Range(Append(s, e))
  BY <1>1 DEF Range
<1>4. e \in Range(Append(s, e))
  BY <1>2 DEF Range
<1> QED BY <1>3, <1>4

LEMMA ListedAfterAdding ==
  ASSUME NEW s, NEW D, D \subseteq T, max \notin T, Listed(s, D),
         NEW x \in T, NEW y \in T \cup {max}, y \in T => x \in D /\ y \in D
  PROVE  /\ Listed(Append(s, <<x, y>>), D \cup {x})
         /\ \A p \in T \X T : Copies(Append(s, <<x, y>>), p)
                              = IF p = <<x, y>> THEN Copies(s, p) + 1 ELSE Copies(s, p)
<1> DEFINE DD == D \cup {x}
           E == DD \X (DD \cup {max})
           e == <<x, y>>
           t == Append(s, e)
<1>1. s \in Seq(E) /\ \A v \in D : <<v, max>> \in Range(s)
  BY DEF Listed
<1>2. e \in E
  OBVIOUS
<1> HIDE DEF E, e
<1>3. t \in Seq(E)
  BY <1>1, <1>2
<1>4. \A v \in DD : <<v, max>> \in Range(t)
  <2>1. \A z : z \in Range(s) \/ z = e => z \in Range(t)
    BY <1>1, <1>2, InRangeOfAppend
  <2>2. x \notin D => e = <<x, max>>
    BY DEF e
  <2> HIDE DEF t
  <2> QED BY <1>1, <2>1, <2>2
<1>5. Listed(t, DD)
  BY <1>3, <1>4 DEF Listed, E
<1>6. \A p \in T \X T : Copies(t, p) = IF p = <<x, y>> THEN Copies(s, p) + 1 ELSE Copies(s, p)
  <2> TAKE p \in T \X T
  <2>1. Copies(t, p) = Copies(s, p) + (IF e = p THEN 1 ELSE 0)
    BY <1>1, <1>2, CopiesOfAppend
  <2>2. Copies(s, p) \in Nat
    BY <1>1, CopiesIsNat
  <2> HIDE DEF t
  <2>3. CASE e = p
    BY <2>1, <2>3 DEF e
  <2>4. CASE e # p
    BY <2>1, <2>2, <2>4 DEF e
  <2> QED BY <2>3, <2>4
<1> QED BY <1>5, <1>6 DEF e

\* The pairs that do not name x.
Away(s, x) == Kept(s, {ix \in DOMAIN s : x \notin {s[ix][1], s[ix][2]}})

LEMMA ListedAfterClearing ==
  ASSUME NEW s, NEW D, D \subseteq T, max \notin T, Listed(s, D), NEW x \in T
  PROVE  /\ Listed(Away(s, x), D \ {x})
         /\ \A p \in T \X T : Copies(Away(s, x), p) = IF x \in {p[1], p[2]} THEN 0 ELSE Copies(s, p)
<1> DEFINE E == D \X (D \cup {max})
           S == {e \in E : x \notin {e[1], e[2]}}
           t == Chosen(s, S)
           DD == D \ {x}
<1>1. s \in Seq(E) /\ \A v \in D : <<v, max>> \in Range(s)
  BY DEF Listed
<1>2. \A ix \in DOMAIN s : s[ix] \in E
  <2> HIDE DEF E
  <2> QED BY <1>1, IndicesFinite
<1>3. {ix \in DOMAIN s : x \notin {s[ix][1], s[ix][2]}} = {ix \in DOMAIN s : s[ix] \in S}
  BY <1>2
<1>4. /\ t \in Seq(E) /\ Range(t) = Range(s) \cap S
      /\ \A y : Copies(t, y) = IF y \in S THEN Copies(s, y) ELSE 0
  <2> HIDE DEF E, S
  <2>0. s \in Seq(E)
    BY <1>1
  <2> QED BY <2>0, KeptByValue
<1> HIDE DEF t
<1>5. t \in Seq(DD \X (DD \cup {max}))
  <2>1. \A ix \in 1 .. Len(t) : t[ix] \in Range(t)
    BY <1>4, IndicesFinite DEF Range
  <2>2. \A e \in S : e \in DD \X (DD \cup {max})
    OBVIOUS
  <2>3. \A ix \in 1 .. Len(t) : t[ix] \in DD \X (DD \cup {max})
    <3> HIDE DEF S, DD
    <3> QED BY <1>4, <2>1, <2>2
  <2> QED BY <1>4, <2>3
<1>6. \A v \in DD : <<v, max>> \in Range(t)
  <2> TAKE v \in DD
  <2>1. <<v, max>> \in S
    OBVIOUS
  <2>2. <<v, max>> \in Range(s)
    BY <1>1
  <2> HIDE DEF S
  <2> QED BY <1>4, <2>1, <2>2
<1>7. Listed(t, DD)
  BY <1>5, <1>6 DEF Listed
<1>8. \A p \in T \X T : Copies(t, p) = IF x \in {p[1], p[2]} THEN 0 ELSE Copies(s, p)
  <2> TAKE p \in T \X T
  <2>1. CASE x \in {p[1], p[2]}
    <3>1. p \notin S
      BY <2>1
    <3> QED BY <1>4, <2>1, <3>1
  <2>2. CASE x \notin {p[1], p[2]} /\ p \in E
    <3>1. p \in S
      BY <2>2
    <3> QED BY <1>4, <2>2, <3>1
  <2>3. CASE x \notin {p[1], p[2]} /\ p \notin E
    <3>1. p \notin S
      BY <2>3
    <3>2. p \notin Range(s)
      BY <1>2, <2>3 DEF Range
    <3>3. Copies(s, p) = 0
      <4> HIDE DEF E
      <4> QED BY <1>1, <3>2, CopiesIsNat
    <3> QED BY <1>4, <2>3, <3>1, <3>3
  <2> QED BY <2>1, <2>2, <2>3
<1> QED BY <1>3, <1>7, <1>8 DEF t, Chosen, Away

LEMMA ListedAfterRemoving ==
  ASSUME NEW s, NEW D, D \subseteq T, max \notin T, Listed(s, D), NEW x \in T, NEW y \in T
  PROVE  /\ Listed(Lacking(s, <<x, y>>), D)
         /\ \A p \in T \X T : Copies(Lacking(s, <<x, y>>), p) = IF p = <<x, y>> THEN 0 ELSE Copies(s, p)
<1> DEFINE E == D \X (D \cup {max})
           e == <<x, y>>
           t == Lacking(s, e)
<1>1. s \in Seq(E) /\ \A v \in D : <<v, max>> \in Range(s) /\ <<v, max>> # e
  BY DEF Listed
<1>2. \A d \in E : d # e => d \in E
  OBVIOUS
<1>3. /\ t \in Seq(E)
      /\ \A p : Copies(t, p) = IF p = e THEN 0 ELSE Copies(s, p)
  <2> HIDE DEF E, e
  <2> QED BY <1>1, <1>2, LackingIs
<1>4. \A v \in D : <<v, max>> \in Range(t)
  <2> TAKE v \in D
  <2> DEFINE d == <<v, max>>
  <2>1. d \in Range(s) /\ d # e
    BY <1>1
  <2> HIDE DEF d, E, e, t
  <2>2. Copies(s, d) # 0
    BY <1>1, <2>1, CopiesIsNat
  <2>3. Copies(t, d) # 0
    BY <1>3, <2>1, <2>2
  <2>4. d \in Range(t)
    BY <1>3, <2>3, CopiesIsNat
  <2> QED BY <2>4 DEF d
<1>5. Listed(t, D)
  BY <1>3, <1>4 DEF Listed
<1> HIDE DEF t
<1> QED BY <1>3, <1>5 DEF t

\* What the calls make of the vertices.
LEMMA AdjVerticesNext ==
  /\ \A x : Adj!add_vertex(x) => AdjVertices' = AdjVertices \cup {x}
  /\ \A x : Adj!remove_vertex(x) => AdjVertices' = AdjVertices \ {x}
  /\ \A x, y \in AdjVertices : Adj!add_edge(x, y) => AdjVertices' = AdjVertices
  /\ \A x \in AdjVertices : \A y : Adj!remove_edge(x, y) => AdjVertices' = AdjVertices
<1>1. \A x, line : DOMAIN Adj!With(x, line) = AdjVertices \cup {x}
  BY DEF Adj!With, AdjVertices
<1>2. AdjVertices' = DOMAIN adj_list'
  BY DEF AdjVertices, Adj!vertices
<1>3. \A x : Adj!add_vertex(x) => AdjVertices' = AdjVertices \cup {x}
  BY <1>1, <1>2 DEF Adj!add_vertex
<1>4. \A x : Adj!remove_vertex(x) => AdjVertices' = AdjVertices \ {x}
  BY <1>2 DEF Adj!remove_vertex, AdjVertices
<1>5. \A x, y \in AdjVertices : Adj!add_edge(x, y) => AdjVertices' = AdjVertices
  <2> SUFFICES ASSUME NEW x \in AdjVertices, NEW y \in AdjVertices, Adj!add_edge(x, y)
               PROVE  AdjVertices' = AdjVertices
    OBVIOUS
  <2> DEFINE line == Append(Adj!neighbors(x), y)
             added == Adj!With(x, line)
  <2>1. DOMAIN added = AdjVertices
    <3> HIDE DEF line
    <3> QED BY DEF Adj!With, AdjVertices
  <2>2. adj_list' = [v \in DOMAIN added \cup {y} |-> IF v \in DOMAIN added THEN added[v] ELSE <<>>]
    BY DEF Adj!add_edge
  <2> HIDE DEF added
  <2> QED BY <1>2, <2>1, <2>2
<1>6. \A x \in AdjVertices : \A y : Adj!remove_edge(x, y) => AdjVertices' = AdjVertices
  BY <1>1, <1>2 DEF Adj!remove_edge
<1> QED BY <1>3, <1>4, <1>5, <1>6

EdgeListStepped ==
  /\ EdgeListInv'
  /\ \/ GraphStep(EdgeListVertices', EdgeListCount', EdgeListVertices, EdgeListCount, TRUE)
     \/ EdgeListVertices' = EdgeListVertices /\ EdgeListCount' = EdgeListCount

\* From the pairs to the numbers of edges.
LEMMA EdgeListStepping ==
  ASSUME max \notin T, AdjInv, AdjInv', EdgeListInv, EdgeListInv',
         LET before == [p \in T \X T |-> Copies(edges, p)]
             after == [p \in T \X T |-> Copies(edges', p)]
         IN \/ GraphStep(AdjVertices', after, AdjVertices, before, TRUE)
            \/ AdjVertices' = AdjVertices /\ after = before
  PROVE  EdgeListStepped
<1>1. EdgeListVertices = AdjVertices /\ EdgeListCount = [p \in T \X T |-> Copies(edges, p)]
  BY EdgeListMakes
<1>2. EdgeListVertices' = AdjVertices' /\ EdgeListCount' = [p \in T \X T |-> Copies(edges', p)]
  BY EdgeListMakesNext
<1> QED BY <1>1, <1>2 DEF EdgeListStepped

LEMMA EdgeListAdds ==
  ASSUME max \notin T, AdjInv, AdjInv', EdgeListInv,
         NEW x \in T, x \notin AdjVertices, AdjVertices' = AdjVertices \cup {x},
         EdgeList!add_vertex(x)
  PROVE  EdgeListStepped
<1> DEFINE t == Append(edges, <<x, max>>)
<1>1. edges' = t
  BY DEF EdgeList!add_vertex, EdgeList!add_edge
<1>2. /\ Listed(t, AdjVertices \cup {x})
      /\ \A p \in T \X T : Copies(t, p) = IF p = <<x, max>> THEN Copies(edges, p) + 1 ELSE Copies(edges, p)
  <2> DEFINE m == max
             D == AdjVertices
  <2>1. m \in T \cup {max} /\ (m \in T => x \in D /\ m \in D) /\ D \subseteq T /\ Listed(edges, D)
    BY DEF AdjInv, EdgeListInv
  <2> HIDE DEF m, D
  <2>2. /\ Listed(Append(edges, <<x, m>>), D \cup {x})
        /\ \A p \in T \X T : Copies(Append(edges, <<x, m>>), p)
                             = IF p = <<x, m>> THEN Copies(edges, p) + 1 ELSE Copies(edges, p)
    BY <2>1, ListedAfterAdding
  <2> QED BY <2>2 DEF m, D
<1> HIDE DEF t
<1>3. EdgeListInv'
  BY <1>1, <1>2 DEF EdgeListInv
<1>4. \A p \in T \X T : Copies(edges', p) = Copies(edges, p)
  BY <1>1, <1>2
<1> DEFINE before == [p \in T \X T |-> Copies(edges, p)]
           after == [p \in T \X T |-> Copies(edges', p)]
<1>5. after = before
  BY <1>4
<1> HIDE DEF before, after
<1>6. GraphStep(AdjVertices', after, AdjVertices, before, TRUE)
  BY <1>5 DEF GraphStep
<1> QED BY <1>3, <1>6, EdgeListStepping DEF before, after

LEMMA EdgeListClears ==
  ASSUME max \notin T, AdjInv, AdjInv', EdgeListInv,
         NEW x \in T, AdjVertices' = AdjVertices \ {x},
         EdgeList!remove_vertex(x)
  PROVE  EdgeListStepped
<1> DEFINE t == Away(edges, x)
<1>1. edges' = t
  BY ContainersRows DEF EdgeList!remove_vertex, Away
<1>2. /\ Listed(t, AdjVertices \ {x})
      /\ \A p \in T \X T : Copies(t, p) = IF x \in {p[1], p[2]} THEN 0 ELSE Copies(edges, p)
  <2> DEFINE D == AdjVertices
  <2>1. D \subseteq T /\ Listed(edges, D)
    BY DEF AdjInv, EdgeListInv
  <2> HIDE DEF D
  <2>2. /\ Listed(Away(edges, x), D \ {x})
        /\ \A p \in T \X T : Copies(Away(edges, x), p) = IF x \in {p[1], p[2]} THEN 0 ELSE Copies(edges, p)
    BY <2>1, ListedAfterClearing
  <2> QED BY <2>2 DEF D
<1> HIDE DEF t
<1>3. EdgeListInv'
  BY <1>1, <1>2 DEF EdgeListInv
<1>4. \A p \in T \X T : Copies(edges', p) = IF x \in {p[1], p[2]} THEN 0 ELSE Copies(edges, p)
  BY <1>1, <1>2
<1> DEFINE before == [p \in T \X T |-> Copies(edges, p)]
           after == [p \in T \X T |-> Copies(edges', p)]
<1>5. Cleared(after, before, x)
  BY <1>4 DEF Cleared
<1>6. x \notin AdjVertices => after = before
  <2> SUFFICES ASSUME x \notin AdjVertices PROVE after = before
    OBVIOUS
  <2>1. \A p \in T \X T : x \in {p[1], p[2]} => Copies(edges, p) = 0
    BY EdgeListMakes
  <2> QED BY <1>4, <2>1
<1> HIDE DEF before, after
<1>7. \/ GraphStep(AdjVertices', after, AdjVertices, before, TRUE)
      \/ AdjVertices' = AdjVertices /\ after = before
  <2>1. CASE x \in AdjVertices
    BY <1>5, <2>1 DEF GraphStep
  <2>2. CASE x \notin AdjVertices
    BY <1>6, <2>2
  <2> QED BY <2>1, <2>2
<1> QED BY <1>3, <1>7, EdgeListStepping DEF before, after

LEMMA EdgeListConnects ==
  ASSUME max \notin T, AdjInv, AdjInv', EdgeListInv,
         NEW x \in AdjVertices, NEW y \in AdjVertices, AdjVertices' = AdjVertices,
         EdgeList!add_edge(x, y)
  PROVE  EdgeListStepped
<1>0. x \in T /\ y \in T /\ AdjVertices \subseteq T
  BY DEF AdjInv
<1> DEFINE t == Append(edges, <<x, y>>)
<1>1. edges' = t
  BY DEF EdgeList!add_edge
<1>2. /\ Listed(t, AdjVertices \cup {x})
      /\ \A p \in T \X T : Copies(t, p) = IF p = <<x, y>> THEN Copies(edges, p) + 1 ELSE Copies(edges, p)
  BY <1>0, ListedAfterAdding DEF EdgeListInv
<1> HIDE DEF t
<1>3. EdgeListInv'
  <2>1. AdjVertices \cup {x} = AdjVertices
    OBVIOUS
  <2> QED BY <1>1, <1>2, <2>1 DEF EdgeListInv
<1>4. \A p \in T \X T : Copies(edges', p) = IF p = <<x, y>> THEN Copies(edges, p) + 1 ELSE Copies(edges, p)
  BY <1>1, <1>2
<1> DEFINE before == [p \in T \X T |-> Copies(edges, p)]
           after == [p \in T \X T |-> Copies(edges', p)]
           n == before[<<x, y>>] + 1
<1>5. n = Copies(edges, <<x, y>>) + 1
  BY <1>0
<1>6. OneSet(after, before, x, y, n)
  <2> HIDE DEF n
  <2>1. \A p \in T \X T : Copies(edges', p) = IF p = <<x, y>> THEN n ELSE before[p]
    BY <1>4, <1>5
  <2> QED BY <2>1 DEF OneSet
<1> HIDE DEF before, after
<1>7. GraphStep(AdjVertices', after, AdjVertices, before, TRUE)
  BY <1>0, <1>6 DEF GraphStep
<1> QED BY <1>3, <1>7, EdgeListStepping DEF before, after

LEMMA EdgeListDisconnects ==
  ASSUME max \notin T, AdjInv, AdjInv', EdgeListInv,
         NEW x \in T, NEW y \in T, AdjVertices' = AdjVertices,
         EdgeList!remove_edge(x, y)
  PROVE  EdgeListStepped
<1> DEFINE t == Lacking(edges, <<x, y>>)
<1>1. edges' = t
  BY ContainersRows DEF EdgeList!remove_edge, Lacking
<1>2. /\ Listed(t, AdjVertices)
      /\ \A p \in T \X T : Copies(t, p) = IF p = <<x, y>> THEN 0 ELSE Copies(edges, p)
  BY ListedAfterRemoving DEF AdjInv, EdgeListInv
<1> HIDE DEF t
<1>3. EdgeListInv'
  BY <1>1, <1>2 DEF EdgeListInv
<1>4. \A p \in T \X T : Copies(edges', p) = IF p = <<x, y>> THEN 0 ELSE Copies(edges, p)
  BY <1>1, <1>2
<1> DEFINE before == [p \in T \X T |-> Copies(edges, p)]
           after == [p \in T \X T |-> Copies(edges', p)]
<1>5. OneSet(after, before, x, y, 0)
  <2>1. \A p \in T \X T : Copies(edges', p) = IF p = <<x, y>> THEN 0 ELSE before[p]
    BY <1>4
  <2> QED BY <2>1 DEF OneSet
<1>6. before[<<x, y>>] = Copies(edges, <<x, y>>) /\ Copies(edges, <<x, y>>) \in Nat
  BY EdgeListMakes
<1>7. Copies(edges, <<x, y>>) = 0 => after = before
  <2> SUFFICES ASSUME Copies(edges, <<x, y>>) = 0 PROVE after = before
    OBVIOUS
  <2>1. \A p \in T \X T : Copies(edges', p) = Copies(edges, p)
    BY <1>4
  <2> QED BY <2>1
<1> DEFINE n == Copies(edges, <<x, y>>)
<1>8. n > 0 \/ n = 0
  <2>1. n \in Nat
    BY <1>6
  <2> HIDE DEF n
  <2> QED BY <2>1
<1> HIDE DEF before, after, n
<1>9. \/ GraphStep(AdjVertices', after, AdjVertices, before, TRUE)
      \/ AdjVertices' = AdjVertices /\ after = before
  <2>1. CASE n > 0
    <3>1. before[<<x, y>>] > 0
      BY <1>6, <2>1 DEF n
    <3>2. OneSet(after, before, x, y, IF TRUE THEN 0 ELSE before[<<x, y>>] - 1)
      BY <1>5
    <3> QED BY <3>1, <3>2 DEF GraphStep
  <2>2. CASE n = 0
    BY <1>7, <2>2 DEF n
  <2> QED BY <1>8, <2>1, <2>2
<1> QED BY <1>3, <1>9, EdgeListStepping DEF before, after

LEMMA EdgeListStep ==
  ASSUME max \notin T, AdjInv, EdgeListInv, ContainersNext
  PROVE  EdgeListInv' /\ (EdgeListGraph!Next \/ UNCHANGED EdgeListGraph!vars)
<1>0. AdjInv'
  BY AdjStep
<1>1. EdgeListVertices' = EdgeListVertices /\ EdgeListCount' = EdgeListCount
      => UNCHANGED EdgeListGraph!vars
  BY EdgeListGraphIs DEF EdgeListGraph!vars
<1>2. ASSUME NEW x \in T, add_vertex(x) PROVE EdgeListStepped
  BY <1>0, <1>2, EdgeListAdds, AdjVerticesNext DEF add_vertex, AdjVertices
<1>3. ASSUME NEW x \in T, remove_vertex(x) PROVE EdgeListStepped
  BY <1>0, <1>3, EdgeListClears, AdjVerticesNext DEF remove_vertex
<1>4. ASSUME NEW x \in T, NEW y \in T, add_edge(x, y) PROVE EdgeListStepped
  <2>1. x \in AdjVertices /\ y \in AdjVertices
    BY <1>4 DEF add_edge, AdjVertices
  <2>2. Adj!add_edge(x, y) /\ EdgeList!add_edge(x, y)
    BY <1>4 DEF add_edge
  <2>3. AdjVertices' = AdjVertices
    BY <2>1, <2>2, AdjVerticesNext
  <2> QED BY <1>0, <2>1, <2>2, <2>3, EdgeListConnects
<1>5. ASSUME NEW x \in T, NEW y \in T, remove_edge(x, y) PROVE EdgeListStepped
  <2>1. x \in AdjVertices
    BY <1>5 DEF remove_edge, AdjVertices
  <2>2. Adj!remove_edge(x, y) /\ EdgeList!remove_edge(x, y)
    BY <1>5 DEF remove_edge
  <2>3. AdjVertices' = AdjVertices
    BY <2>1, <2>2, AdjVerticesNext
  <2> QED BY <1>0, <2>2, <2>3, EdgeListDisconnects
<1> QED BY <1>1, <1>2, <1>3, <1>4, <1>5, EdgeListSteps DEF ContainersNext, EdgeListStepped

\* The same of GraphEdgeList, whose vertices are what its pairs name: no call
\* loses a vertex with its last edge, and the pair with max is never an edge.
THEOREM EdgeListIsMultiGraph == ContainersSpec => EdgeListImplements
<1>0. max \notin T
  BY TAssumption
<1> USE <1>0
<1>1. ContainersInit => AdjInv /\ EdgeListInv /\ EdgeListGraph!Init
  <2> SUFFICES ASSUME ContainersInit PROVE AdjInv /\ EdgeListInv /\ EdgeListGraph!Init
    OBVIOUS
  <2>1. AdjInv /\ AdjVertices = {}
    BY AdjInitially DEF ContainersInit, AdjGraph!Init, AdjVertices
  <2>2. edges = <<>> /\ Range(edges) = {}
    BY DEF ContainersInit, EdgeList!Init, Range
  <2>3. EdgeListInv
    BY <2>1, <2>2 DEF EdgeListInv, Listed
  <2>4. EdgeListVertices = {}
    BY <2>1, <2>3, EdgeListMakes
  <2>5. EdgeListCount = [p \in T \X T |-> 0]
    BY <2>1, <2>2, <2>3, EdgeListMakes, CopiesOfOne
  <2> QED BY <2>1, <2>3, <2>4, <2>5, EdgeListGraphIs DEF EdgeListGraph!Init
<1>2. /\ AdjInv /\ EdgeListInv /\ [ContainersNext]_containers
      => AdjInv' /\ EdgeListInv' /\ [EdgeListGraph!Next]_(EdgeListGraph!vars)
  <2>1. ASSUME AdjInv, EdgeListInv, UNCHANGED containers
        PROVE  AdjInv' /\ EdgeListInv' /\ UNCHANGED EdgeListGraph!vars
    <3>1. adj_list' = adj_list /\ edges' = edges
      BY <2>1 DEF containers, csr
    <3>2. AdjVertices' = AdjVertices
      BY <3>1 DEF AdjVertices, Adj!vertices
    <3>3. EdgeListVertices' = EdgeListVertices /\ EdgeListCount' = EdgeListCount
      BY <3>1 DEF EdgeListVertices, EdgeListCount
    <3>4. AdjInv' /\ EdgeListInv'
      BY <2>1, <3>1, <3>2 DEF AdjInv, EdgeListInv
    <3> QED BY <3>3, <3>4, EdgeListGraphIs DEF EdgeListGraph!vars
  <2> QED BY <2>1, AdjStep, EdgeListStep
<1> QED BY <1>1, <1>2, PTL DEF ContainersSpec, EdgeListImplements, EdgeListGraph!Spec

----------------------------------------------------------------------------
(* The arrays of GraphCSR *)

\* The rows R of n vertices lie one after the other in ci, and rp tells where.
LaidAt(rp, ci, R, p) ==
  /\ rp[p + 2] = rp[p + 1] + Len(R[p])
  /\ \A jx \in 1 .. Len(R[p]) : ci[rp[p + 1] + jx] = R[p][jx]

Laid(rp, ci, n, R) ==
  /\ n \in Nat /\ rp \in Seq(Nat) /\ ci \in Seq(Nat) /\ Len(rp) = n + 1
  /\ rp[1] = 0 /\ rp[n + 1] = Len(ci)
  /\ R \in [0 .. n - 1 -> Seq(Nat)]
  /\ \A p \in 0 .. n - 1 : LaidAt(rp, ci, R, p)

LEMMA LaidIs ==
  ASSUME NEW rp, NEW ci, NEW n, NEW R, Laid(rp, ci, n, R)
  PROVE  /\ n \in Nat /\ rp \in Seq(Nat) /\ ci \in Seq(Nat) /\ Len(rp) = n + 1
         /\ \A ix \in 1 .. n + 1 : rp[ix] \in Nat
         /\ rp[1] = 0 /\ rp[n + 1] = Len(ci) /\ Len(ci) \in Nat
         /\ R = [p \in 0 .. n - 1 |-> R[p]]
         /\ \A p \in 0 .. n - 1 : /\ R[p] \in Seq(Nat) /\ Len(R[p]) \in Nat
                                  /\ p + 1 \in 1 .. n + 1 /\ p + 2 \in 1 .. n + 1
                                  /\ LaidAt(rp, ci, R, p)
<1>1. /\ n \in Nat /\ rp \in Seq(Nat) /\ ci \in Seq(Nat) /\ Len(rp) = n + 1
      /\ rp[1] = 0 /\ rp[n + 1] = Len(ci) /\ R \in [0 .. n - 1 -> Seq(Nat)]
  BY DEF Laid
<1>2. \A ix \in 1 .. n + 1 : rp[ix] \in Nat
  <2>1. DOMAIN rp = 1 .. Len(rp) /\ \A ix \in DOMAIN rp : rp[ix] \in Nat
    BY <1>1, IndicesFinite
  <2> QED BY <1>1, <2>1
<1>3. Len(ci) \in Nat /\ R = [p \in 0 .. n - 1 |-> R[p]]
  BY <1>1
<1>4. \A p \in 0 .. n - 1 : R[p] \in Seq(Nat) /\ Len(R[p]) \in Nat
  BY <1>1
<1>5. \A p \in 0 .. n - 1 : p + 1 \in 1 .. n + 1 /\ p + 2 \in 1 .. n + 1
  BY <1>1
<1>6. \A p \in 0 .. n - 1 : LaidAt(rp, ci, R, p)
  BY DEF Laid
<1> QED BY <1>1, <1>2, <1>3, <1>4, <1>5, <1>6

\* r lies in ci between a and b.
Spans(ci, a, b, r) == /\ a \in Nat /\ b \in Nat /\ r \in Seq(Nat) /\ Len(r) \in Nat
                      /\ b = a + Len(r)
                      /\ \A jx \in 1 .. Len(r) : ci[a + jx] = r[jx]

LEMMA LaidRowIs ==
  ASSUME NEW rp, NEW ci, NEW n, NEW R, Laid(rp, ci, n, R), NEW p \in 0 .. n - 1
  PROVE  Spans(ci, rp[p + 1], rp[p + 2], R[p])
<1>1. /\ p + 1 \in 1 .. n + 1 /\ p + 2 \in 1 .. n + 1 /\ R[p] \in Seq(Nat) /\ Len(R[p]) \in Nat
      /\ LaidAt(rp, ci, R, p)
  BY LaidIs
<1>2. rp[p + 1] \in Nat /\ rp[p + 2] \in Nat
  BY <1>1, LaidIs
<1> QED BY <1>1, <1>2 DEF LaidAt, Spans

LEMMA LaidGrows ==
  ASSUME NEW rp, NEW ci, NEW n, NEW R, Laid(rp, ci, n, R)
  PROVE  \A ix, jx \in 1 .. n + 1 : ix <= jx => rp[ix] <= rp[jx]
<1> DEFINE Q == {jx \in Nat : \A ix \in 1 .. n + 1 : ix <= jx /\ jx <= n + 1 => rp[ix] <= rp[jx]}
<1>0. n \in Nat /\ \A ix \in 1 .. n + 1 : rp[ix] \in Nat
  BY LaidIs
<1>1. 0 \in Q
  BY <1>0
<1>2. \A jx \in Nat : jx \in Q => jx + 1 \in Q
  <2> SUFFICES ASSUME NEW jx \in Q, NEW ix \in 1 .. n + 1, ix <= jx + 1, jx + 1 <= n + 1
               PROVE  rp[ix] <= rp[jx + 1]
    OBVIOUS
  <2>1. CASE ix = jx + 1
    BY <1>0, <2>1
  <2>2. CASE ix <= jx
    <3> DEFINE p == jx - 1
    <3>1. p \in 0 .. n - 1 /\ jx = p + 1 /\ jx + 1 = p + 2
      BY <1>0, <2>2
    <3>2. rp[ix] <= rp[jx] /\ jx \in 1 .. n + 1
      BY <1>0, <2>2
    <3> HIDE DEF p
    <3> DEFINE a == rp[p + 1] b == rp[p + 2] r == R[p] c == rp[ix]
    <3>3. a \in Nat /\ b \in Nat /\ Len(r) \in Nat /\ b = a + Len(r)
      <4>1. Spans(ci, a, b, r)
        BY <3>1, LaidRowIs
      <4> QED BY <4>1 DEF Spans
    <3>4. c \in Nat /\ c <= a
      BY <1>0, <3>1, <3>2
    <3> HIDE DEF a, b, c, r
    <3>5. c <= b
      BY <3>3, <3>4
    <3> QED BY <3>1, <3>5 DEF b, c
  <2> QED BY <1>0, <2>1, <2>2
<1> HIDE DEF Q
<1>3. Nat \subseteq Q
  BY <1>1, <1>2, NumberInduction
<1> QED BY <1>0, <1>3 DEF Q

\* The rows again.
RowAt(rp, ci, p) == SubSeq(ci, rp[p + 1] + 1, rp[p + 2])

LEMMA LaidRow ==
  ASSUME NEW rp, NEW ci, NEW n, NEW R, Laid(rp, ci, n, R), NEW p \in 0 .. n - 1
  PROVE  RowAt(rp, ci, p) = R[p]
<1> DEFINE a == rp[p + 1] b == rp[p + 2] r == R[p]
<1>1. /\ ci \in Seq(Nat) /\ r \in Seq(Nat) /\ Len(r) \in Nat /\ a \in Nat /\ b \in Nat
      /\ b = a + Len(r) /\ \A jx \in 1 .. Len(r) : ci[a + jx] = r[jx]
  <2>1. ci \in Seq(Nat)
    BY LaidIs
  <2>2. /\ a \in Nat /\ b \in Nat /\ r \in Seq(Nat) /\ Len(r) \in Nat
        /\ b = a + Len(r)
        /\ \A jx \in 1 .. Len(r) : ci[a + jx] = r[jx]
    <3>1. Spans(ci, a, b, r)
      BY LaidRowIs
    <3> QED BY <3>1 DEF Spans
  <2> QED BY <2>1, <2>2
<1>2. b <= Len(ci)
  <2>1. n \in Nat /\ rp[n + 1] = Len(ci)
    BY LaidIs
  <2>2. p + 2 \in 1 .. n + 1 /\ n + 1 \in 1 .. n + 1 /\ p + 2 <= n + 1
    BY <2>1
  <2>3. rp[p + 2] <= rp[n + 1]
    BY <2>2, LaidGrows
  <2> QED BY <2>1, <2>3
<1> HIDE DEF a, b, r
<1>3. a <= b /\ b - a = Len(r)
  BY <1>1
<1>4. /\ SubSeq(ci, a + 1, b) \in Seq(Nat) /\ Len(SubSeq(ci, a + 1, b)) = b - a
      /\ \A jx \in 1 .. b - a : SubSeq(ci, a + 1, b)[jx] = ci[a + jx]
  <2>1. ci \in Seq(Nat) /\ a \in Nat /\ b \in Nat
    BY <1>1
  <2> QED BY <2>1, <1>2, <1>3, SubSeqIs
<1> DEFINE s == SubSeq(ci, a + 1, b)
<1>5. s \in Seq(Nat) /\ Len(s) = Len(r) /\ \A jx \in 1 .. Len(r) : s[jx] = r[jx]
  BY <1>1, <1>3, <1>4
<1> HIDE DEF s
<1>6. s = r
  BY <1>1, <1>5, SeqEqual
<1> QED BY <1>6 DEF s, a, b, r, RowAt

\* A row of sorted positions.
Rising(line) == \A ix, jx \in 1 .. Len(line) : ix <= jx => line[ix] <= line[jx]

\* Shape, told by the rows.
LEMMA LaidShape ==
  ASSUME NEW rp, NEW ci, NEW n, NEW R, Laid(rp, ci, n, R), \A p \in 0 .. n - 1 : Rising(R[p])
  PROVE  /\ Len(rp) = n + 1
         /\ rp[1] = 0 /\ rp[Len(rp)] = Len(ci)
         /\ \A ix, jx \in DOMAIN rp : ix <= jx => rp[ix] <= rp[jx]
         /\ \A p \in 0 .. n - 1 : \A ix, jx \in 1 .. Len(RowAt(rp, ci, p)) :
              ix < jx => RowAt(rp, ci, p)[ix] <= RowAt(rp, ci, p)[jx]
<1>1. DOMAIN rp = 1 .. n + 1
  BY LaidIs
<1>2. \A ix, jx \in DOMAIN rp : ix <= jx => rp[ix] <= rp[jx]
  BY <1>1, LaidGrows
<1>3. ASSUME NEW p \in 0 .. n - 1
      PROVE  \A ix, jx \in 1 .. Len(RowAt(rp, ci, p)) : ix < jx => RowAt(rp, ci, p)[ix] <= RowAt(rp, ci, p)[jx]
  <2>1. RowAt(rp, ci, p) = R[p]
    BY LaidRow
  <2>2. Rising(R[p])
    OBVIOUS
  <2> QED BY <2>1, <2>2 DEF Rising
<1> QED BY <1>2, <1>3, LaidIs

\* The beginnings of the rows behind the one of p move by d.
Shift(rp, p, d) == [ix \in DOMAIN rp |-> IF ix > p + 1 THEN rp[ix] + d ELSE rp[ix]]

\* The row of p becomes r.
Put(R, p, r) == [q \in DOMAIN R |-> IF q = p THEN r ELSE R[q]]

\* A row that ends where the next begins.
LEMMA LaidOrder ==
  ASSUME NEW rp, NEW ci, NEW n, NEW R, Laid(rp, ci, n, R), NEW p \in 0 .. n - 1, NEW q \in 0 .. n - 1
  PROVE  /\ rp[p + 2] <= Len(ci)
         /\ q < p => rp[q + 2] <= rp[p + 1]
<1>1. /\ n \in Nat /\ rp[n + 1] = Len(ci)
  BY LaidIs
<1>2. p + 2 \in 1 .. n + 1 /\ n + 1 \in 1 .. n + 1 /\ p + 2 <= n + 1
  BY <1>1
<1>3. rp[p + 2] <= rp[n + 1]
  BY <1>2, LaidGrows
<1>4. ASSUME q < p PROVE rp[q + 2] <= rp[p + 1]
  <2>1. q + 2 \in 1 .. n + 1 /\ p + 1 \in 1 .. n + 1 /\ q + 2 <= p + 1
    BY <1>1, <1>4
  <2> QED BY <2>1, LaidGrows
<1> QED BY <1>1, <1>3, <1>4

LEMMA InsertLaid ==
  ASSUME NEW rp, NEW ci, NEW n, NEW R, Laid(rp, ci, n, R),
         NEW p \in 0 .. n - 1, NEW k \in Nat, k <= Len(R[p]), NEW e \in Nat
  PROVE  Laid(Shift(rp, p, 1), Inserted(ci, rp[p + 1] + k, e), n,
              Put(R, p, Inserted(R[p], k, e)))
<1> DEFINE a == rp[p + 1] b == rp[p + 2] r == R[p] m == a + k
           rr == Inserted(r, k, e)
           rp2 == Shift(rp, p, 1) ci2 == Inserted(ci, m, e) R2 == Put(R, p, rr)
<1>1. /\ n \in Nat /\ rp \in Seq(Nat) /\ ci \in Seq(Nat) /\ Len(rp) = n + 1
      /\ \A ix \in 1 .. n + 1 : rp[ix] \in Nat
      /\ rp[1] = 0 /\ rp[n + 1] = Len(ci) /\ Len(ci) \in Nat
      /\ R = [q \in 0 .. n - 1 |-> R[q]]
      /\ \A q \in 0 .. n - 1 : R[q] \in Seq(Nat)
  BY LaidIs, ZenonT(60)
<1>2. /\ a \in Nat /\ b \in Nat /\ r \in Seq(Nat) /\ Len(r) \in Nat
      /\ b = a + Len(r)
      /\ \A jx \in 1 .. Len(r) : ci[a + jx] = r[jx]
  <2>1. Spans(ci, a, b, r)
    BY LaidRowIs
  <2> QED BY <2>1 DEF Spans
<1>3. b <= Len(ci)
  BY LaidOrder
<1>4. m \in Nat /\ m <= Len(ci) /\ k <= Len(r)
  <2> HIDE DEF a, b, r
  <2>1. k <= Len(r)
    BY DEF r
  <2>2. a \in Nat /\ b \in Nat /\ Len(r) \in Nat /\ b = a + Len(r) /\ b <= Len(ci) /\ Len(ci) \in Nat
    BY <1>1, <1>2, <1>3
  <2> QED BY <2>1, <2>2 DEF m
<1> HIDE DEF m
<1>5. /\ ci2 \in Seq(Nat) /\ Len(ci2) = Len(ci) + 1
      /\ \A jx \in 1 .. m : ci2[jx] = ci[jx]
      /\ ci2[m + 1] = e
      /\ \A jx \in (m + 2) .. (Len(ci) + 1) : ci2[jx] = ci[jx - 1]
  <2>1. ci \in Seq(Nat) /\ m \in Nat /\ m <= Len(ci) /\ e \in Nat
    BY <1>1, <1>4
  <2>2. ci2 \in Seq(Nat) /\ IsInserted(ci2, ci, m, e)
    BY <2>1, InsertAtIs
  <2> HIDE DEF ci2
  <2> QED BY <2>2 DEF IsInserted
<1>6. /\ rr \in Seq(Nat) /\ Len(rr) = Len(r) + 1
      /\ \A jx \in 1 .. k : rr[jx] = r[jx]
      /\ rr[k + 1] = e
      /\ \A jx \in (k + 2) .. (Len(r) + 1) : rr[jx] = r[jx - 1]
  <2> HIDE DEF r
  <2>1. r \in Seq(Nat) /\ k \in Nat /\ k <= Len(r) /\ e \in Nat
    BY <1>2, <1>4
  <2>2. rr \in Seq(Nat) /\ IsInserted(rr, r, k, e)
    BY <2>1, InsertAtIs
  <2> HIDE DEF rr
  <2> QED BY <2>2 DEF IsInserted
<1>7. /\ rp2 \in Seq(Nat) /\ Len(rp2) = n + 1
      /\ \A ix \in 1 .. n + 1 : rp2[ix] = IF ix > p + 1 THEN rp[ix] + 1 ELSE rp[ix]
  <2>1. DOMAIN rp = 1 .. n + 1
    BY <1>1
  <2>2. rp2 = [ix \in 1 .. n + 1 |-> IF ix > p + 1 THEN rp[ix] + 1 ELSE rp[ix]]
    BY <2>1 DEF Shift
  <2>3. \A ix \in 1 .. n + 1 : (IF ix > p + 1 THEN rp[ix] + 1 ELSE rp[ix]) \in Nat
    BY <1>1, SMTT(40)
  <2> HIDE DEF rp2
  <2>4. rp2 \in [1 .. n + 1 -> Nat]
    BY <2>2, <2>3
  <2>5. rp2 \in Seq(Nat) /\ Len(rp2) = n + 1
    <3> DEFINE N == n + 1
    <3>1. N \in Nat /\ rp2 \in [1 .. N -> Nat]
      BY <1>1, <2>4
    <3> HIDE DEF N
    <3>2. rp2 \in Seq(Nat) /\ Len(rp2) = N
      BY <3>1
    <3> QED BY <3>2 DEF N
  <2> QED BY <2>2, <2>5
<1>8. /\ R2 \in [0 .. n - 1 -> Seq(Nat)] /\ R2[p] = rr
      /\ \A q \in 0 .. n - 1 : q # p => R2[q] = R[q]
  <2> HIDE DEF rr
  <2> QED BY <1>1, <1>6 DEF Put
<1> HIDE DEF rp2, ci2, R2, rr, a, b, r
<1>9. rp2[1] = 0 /\ rp2[n + 1] = Len(ci2)
  <2>1. /\ 1 \in 1 .. n + 1 /\ n + 1 \in 1 .. n + 1
        /\ ~(1 > p + 1) /\ n + 1 > p + 1
    BY <1>1
  <2>2. rp2[1] = rp[1] /\ rp2[n + 1] = rp[n + 1] + 1
    BY <1>7, <2>1
  <2> QED BY <1>1, <1>5, <2>2
<1>10. ASSUME NEW q \in 0 .. n - 1 PROVE LaidAt(rp2, ci2, R2, q)
  <2> DEFINE aq == rp[q + 1] bq == rp[q + 2] rq == R[q]
  <2>1. /\ aq \in Nat /\ bq \in Nat /\ rq \in Seq(Nat) /\ Len(rq) \in Nat
        /\ bq = aq + Len(rq)
        /\ \A jx \in 1 .. Len(rq) : ci[aq + jx] = rq[jx]
    <3>1. Spans(ci, aq, bq, rq)
      BY LaidRowIs
    <3> QED BY <3>1 DEF Spans
  <2>2. /\ rp2[q + 1] = IF q > p THEN aq + 1 ELSE aq
        /\ rp2[q + 2] = IF q >= p THEN bq + 1 ELSE bq
    <3>1. /\ q + 1 \in 1 .. n + 1 /\ q + 2 \in 1 .. n + 1
          /\ q + 1 > p + 1 <=> q > p
          /\ q + 2 > p + 1 <=> q >= p
      <4>1. n \in Nat
        BY <1>1
      <4> QED BY <4>1
    <3>2. /\ rp2[q + 1] = IF q + 1 > p + 1 THEN rp[q + 1] + 1 ELSE rp[q + 1]
          /\ rp2[q + 2] = IF q + 2 > p + 1 THEN rp[q + 2] + 1 ELSE rp[q + 2]
      BY <1>7, <3>1
    <3> QED BY <3>1, <3>2
  <2>3. bq <= Len(ci) /\ (q < p => bq <= a) /\ (p < q => b <= aq)
    BY LaidOrder DEF a, b
  <2>4. q = p => aq = a /\ bq = b /\ rq = r
    BY DEF a, b, r
  <2> HIDE DEF aq, bq, rq
  <2>5. CASE q < p
    <3>1. R2[q] = rq /\ rp2[q + 1] = aq /\ rp2[q + 2] = bq
      BY <1>8, <2>2, <2>5 DEF rq
    <3>2. \A jx \in 1 .. Len(rq) : aq + jx \in 1 .. m
      BY <1>2, <2>1, <2>3, <2>5 DEF m
    <3>3. \A jx \in 1 .. Len(rq) : ci2[aq + jx] = rq[jx]
      BY <1>5, <2>1, <3>2
    <3> QED BY <2>1, <3>1, <3>3 DEF LaidAt
  <2>6. CASE q > p
    <3>1. R2[q] = rq /\ rp2[q + 1] = aq + 1 /\ rp2[q + 2] = bq + 1
      BY <1>8, <2>2, <2>6 DEF rq
    <3>2. \A jx \in 1 .. Len(rq) : aq + 1 + jx \in (m + 2) .. (Len(ci) + 1) /\ aq + 1 + jx - 1 = aq + jx
      <4> DEFINE l == Len(ci) lq == Len(rq) lr == Len(r)
      <4>1. /\ l \in Nat /\ lq \in Nat /\ lr \in Nat /\ a \in Nat /\ b \in Nat /\ aq \in Nat /\ bq \in Nat
            /\ b = a + lr /\ bq = aq + lq /\ bq <= l /\ b <= aq /\ k <= lr
        BY <1>1, <1>2, <1>4, <2>1, <2>3, <2>6
      <4> HIDE DEF l, lq, lr
      <4>2. \A jx \in 1 .. lq : aq + 1 + jx \in (m + 2) .. (l + 1) /\ aq + 1 + jx - 1 = aq + jx
        BY <4>1 DEF m
      <4> QED BY <4>2 DEF l, lq
    <3>3. \A jx \in 1 .. Len(rq) : ci2[aq + 1 + jx] = rq[jx]
      BY <1>5, <2>1, <3>2
    <3>4. bq + 1 = aq + 1 + Len(rq)
      BY <2>1
    <3> QED BY <3>1, <3>3, <3>4 DEF LaidAt
  <2>7. CASE q = p
    <3>1. R2[q] = rr /\ rp2[q + 1] = a /\ rp2[q + 2] = b + 1
      BY <1>8, <2>2, <2>4, <2>7
    <3>2. ASSUME NEW jx \in 1 .. Len(rr) PROVE ci2[a + jx] = rr[jx]
      <4>1. jx \in 1 .. k \/ jx = k + 1 \/ jx \in (k + 2) .. (Len(r) + 1)
        BY <1>2, <1>6
      <4>2. CASE jx \in 1 .. k
        <5>1. a + jx \in 1 .. m /\ jx \in 1 .. Len(r)
          BY <1>2, <1>4, <4>2 DEF m
        <5> QED BY <1>2, <1>5, <1>6, <4>2, <5>1
      <4>3. CASE jx = k + 1
        <5>1. a + jx = m + 1
          BY <1>2, <4>3 DEF m
        <5> QED BY <1>5, <1>6, <4>3, <5>1
      <4>4. CASE jx \in (k + 2) .. (Len(r) + 1)
        <5>1. /\ a + jx \in (m + 2) .. (Len(ci) + 1) /\ jx - 1 \in 1 .. Len(r)
              /\ a + jx - 1 = a + (jx - 1)
          <6> DEFINE l == Len(ci) lr == Len(r)
          <6>1. /\ l \in Nat /\ lr \in Nat /\ a \in Nat /\ b \in Nat
                /\ b = a + lr /\ b <= l /\ k <= lr /\ jx \in (k + 2) .. (lr + 1)
            BY <1>1, <1>2, <1>3, <1>4, <4>4
          <6> HIDE DEF l, lr
          <6>2. a + jx \in (m + 2) .. (l + 1) /\ jx - 1 \in 1 .. lr /\ a + jx - 1 = a + (jx - 1)
            BY <6>1 DEF m
          <6> QED BY <6>2 DEF l, lr
        <5>2. ci2[a + jx] = ci[a + (jx - 1)]
          <6>1. ASSUME NEW ix, ix = a + jx PROVE ci2[ix] = ci[ix - 1]
            <7>1. ix \in (m + 2) .. (Len(ci) + 1)
              BY <5>1, <6>1
            <7> QED BY <1>5, <7>1
          <6>2. ASSUME NEW ix, ix = a + jx PROVE ix - 1 = a + (jx - 1)
            BY <1>2, <6>2
          <6> QED BY <6>1, <6>2
        <5>3. ci[a + (jx - 1)] = r[jx - 1]
          BY <1>2, <5>1
        <5> QED BY <1>6, <4>4, <5>2, <5>3
      <4> QED BY <4>1, <4>2, <4>3, <4>4
    <3>3. b + 1 = a + Len(rr)
      BY <1>2, <1>6
    <3> QED BY <3>1, <3>2, <3>3 DEF LaidAt
  <2> QED BY <1>1, <2>5, <2>6, <2>7
<1>11. Laid(rp2, ci2, n, R2)
  BY <1>1, <1>5, <1>7, <1>8, <1>9, <1>10 DEF Laid
<1> QED BY <1>11 DEF rp2, ci2, R2, rr, a, r, m

LEMMA RemoveLaid ==
  ASSUME NEW rp, NEW ci, NEW n, NEW R, Laid(rp, ci, n, R),
         NEW p \in 0 .. n - 1, NEW k \in Nat, k < Len(R[p])
  PROVE  Laid(Shift(rp, p, -1), Removed(ci, rp[p + 1] + k), n, Put(R, p, Removed(R[p], k)))
<1> DEFINE a == rp[p + 1] b == rp[p + 2] r == R[p] m == a + k
           rr == Removed(r, k)
           rp2 == Shift(rp, p, -1) ci2 == Removed(ci, m) R2 == Put(R, p, rr)
<1>1. /\ n \in Nat /\ rp \in Seq(Nat) /\ ci \in Seq(Nat) /\ Len(rp) = n + 1
      /\ \A ix \in 1 .. n + 1 : rp[ix] \in Nat
      /\ rp[1] = 0 /\ rp[n + 1] = Len(ci) /\ Len(ci) \in Nat
      /\ R = [q \in 0 .. n - 1 |-> R[q]]
      /\ \A q \in 0 .. n - 1 : R[q] \in Seq(Nat)
  BY LaidIs, ZenonT(60)
<1>2. /\ a \in Nat /\ b \in Nat /\ r \in Seq(Nat) /\ Len(r) \in Nat
      /\ b = a + Len(r)
      /\ \A jx \in 1 .. Len(r) : ci[a + jx] = r[jx]
  <2>1. Spans(ci, a, b, r)
    BY LaidRowIs
  <2> QED BY <2>1 DEF Spans
<1>3. b <= Len(ci)
  BY LaidOrder
<1>4. m \in Nat /\ m < Len(ci) /\ k < Len(r)
  <2> HIDE DEF a, b, r
  <2>1. k < Len(r)
    BY DEF r
  <2> DEFINE l == Len(ci) lr == Len(r)
  <2>2. l \in Nat /\ lr \in Nat /\ a \in Nat /\ b \in Nat /\ b = a + lr /\ b <= l /\ k < lr
    BY <1>1, <1>2, <1>3, <2>1
  <2> HIDE DEF l, lr
  <2>3. m \in Nat /\ m < l
    BY <2>2
  <2> QED BY <2>1, <2>3 DEF l
<1> HIDE DEF m
<1>5. /\ ci2 \in Seq(Nat) /\ Len(ci2) = Len(ci) - 1
      /\ \A jx \in 1 .. m : ci2[jx] = ci[jx]
      /\ \A jx \in (m + 1) .. (Len(ci) - 1) : ci2[jx] = ci[jx + 1]
  <2>1. ci \in Seq(Nat) /\ m \in Nat /\ m < Len(ci)
    BY <1>1, <1>4
  <2>2. ci2 \in Seq(Nat) /\ IsRemoved(ci2, ci, m)
    BY <2>1, RemoveAtIs
  <2> HIDE DEF ci2
  <2> QED BY <2>2 DEF IsRemoved
<1>6. /\ rr \in Seq(Nat) /\ Len(rr) = Len(r) - 1
      /\ \A jx \in 1 .. k : rr[jx] = r[jx]
      /\ \A jx \in (k + 1) .. (Len(r) - 1) : rr[jx] = r[jx + 1]
  <2> HIDE DEF r
  <2>1. r \in Seq(Nat) /\ k \in Nat /\ k < Len(r)
    BY <1>2, <1>4
  <2>2. rr \in Seq(Nat) /\ IsRemoved(rr, r, k)
    BY <2>1, RemoveAtIs
  <2> HIDE DEF rr
  <2> QED BY <2>2 DEF IsRemoved
<1>7. /\ rp2 \in Seq(Nat) /\ Len(rp2) = n + 1
      /\ \A ix \in 1 .. n + 1 : rp2[ix] = IF ix > p + 1 THEN rp[ix] - 1 ELSE rp[ix]
  <2>1. DOMAIN rp = 1 .. n + 1
    BY <1>1
  <2>2. rp2 = [ix \in 1 .. n + 1 |-> IF ix > p + 1 THEN rp[ix] + (-1) ELSE rp[ix]]
    BY <2>1 DEF Shift
  <2>3. \A ix \in 1 .. n + 1 : ix > p + 1 => rp[ix] >= 1
    <3> SUFFICES ASSUME NEW ix \in 1 .. n + 1, ix > p + 1 PROVE rp[ix] >= 1
      OBVIOUS
    <3>1. p + 2 \in 1 .. n + 1 /\ p + 2 <= ix
      <4>1. n \in Nat
        BY <1>1
      <4> QED BY <4>1
    <3>2. rp[p + 2] <= rp[ix]
      BY <3>1, LaidGrows
    <3> DEFINE c == rp[ix] lr == Len(r)
    <3>3. c \in Nat /\ lr \in Nat /\ k < lr /\ b = a + lr /\ a \in Nat /\ b <= c
      BY <1>1, <1>2, <1>4, <3>2
    <3> HIDE DEF a, b, c, lr
    <3> QED BY <3>3 DEF c
  <2>4. \A ix \in 1 .. n + 1 : /\ (IF ix > p + 1 THEN rp[ix] + (-1) ELSE rp[ix]) \in Nat
                              /\ rp[ix] + (-1) = rp[ix] - 1
    <3> SUFFICES ASSUME NEW ix \in 1 .. n + 1
                 PROVE  /\ (IF ix > p + 1 THEN rp[ix] + (-1) ELSE rp[ix]) \in Nat
                        /\ rp[ix] + (-1) = rp[ix] - 1
      OBVIOUS
    <3> DEFINE c == rp[ix]
    <3>1. c \in Nat /\ (ix > p + 1 => c >= 1)
      BY <1>1, <2>3
    <3> HIDE DEF c
    <3>2. (IF ix > p + 1 THEN c + (-1) ELSE c) \in Nat /\ c + (-1) = c - 1
      BY <3>1
    <3> QED BY <3>2 DEF c
  <2> HIDE DEF rp2
  <2>5. rp2 \in [1 .. n + 1 -> Nat]
    BY <2>2, <2>4
  <2>6. rp2 \in Seq(Nat) /\ Len(rp2) = n + 1
    <3> DEFINE N == n + 1
    <3>1. N \in Nat /\ rp2 \in [1 .. N -> Nat]
      BY <1>1, <2>5
    <3> HIDE DEF N
    <3>2. rp2 \in Seq(Nat) /\ Len(rp2) = N
      BY <3>1
    <3> QED BY <3>2 DEF N
  <2> QED BY <2>2, <2>4, <2>6
<1>8. /\ R2 \in [0 .. n - 1 -> Seq(Nat)] /\ R2[p] = rr
      /\ \A q \in 0 .. n - 1 : q # p => R2[q] = R[q]
  <2> HIDE DEF rr
  <2> QED BY <1>1, <1>6 DEF Put
<1> HIDE DEF rp2, ci2, R2, rr, a, b, r
<1>9. rp2[1] = 0 /\ rp2[n + 1] = Len(ci2)
  <2>1. /\ 1 \in 1 .. n + 1 /\ n + 1 \in 1 .. n + 1
        /\ ~(1 > p + 1) /\ n + 1 > p + 1
    BY <1>1, SMTT(40)
  <2>2. rp2[1] = rp[1] /\ rp2[n + 1] = rp[n + 1] - 1
    BY <1>7, <2>1
  <2> QED BY <1>1, <1>5, <2>2
<1>10. ASSUME NEW q \in 0 .. n - 1 PROVE LaidAt(rp2, ci2, R2, q)
  <2> DEFINE aq == rp[q + 1] bq == rp[q + 2] rq == R[q]
  <2>1. /\ aq \in Nat /\ bq \in Nat /\ rq \in Seq(Nat) /\ Len(rq) \in Nat
        /\ bq = aq + Len(rq)
        /\ \A jx \in 1 .. Len(rq) : ci[aq + jx] = rq[jx]
    <3>1. Spans(ci, aq, bq, rq)
      BY LaidRowIs
    <3> QED BY <3>1 DEF Spans
  <2>2. /\ rp2[q + 1] = IF q > p THEN aq - 1 ELSE aq
        /\ rp2[q + 2] = IF q >= p THEN bq - 1 ELSE bq
    <3>1. /\ q + 1 \in 1 .. n + 1 /\ q + 2 \in 1 .. n + 1
          /\ q + 1 > p + 1 <=> q > p
          /\ q + 2 > p + 1 <=> q >= p
      <4>1. n \in Nat
        BY <1>1
      <4> QED BY <4>1
    <3>2. /\ rp2[q + 1] = IF q + 1 > p + 1 THEN rp[q + 1] - 1 ELSE rp[q + 1]
          /\ rp2[q + 2] = IF q + 2 > p + 1 THEN rp[q + 2] - 1 ELSE rp[q + 2]
      BY <1>7, <3>1
    <3> QED BY <3>1, <3>2
  <2>3. bq <= Len(ci) /\ (q < p => bq <= a) /\ (p < q => b <= aq)
    BY LaidOrder DEF a, b
  <2>4. q = p => aq = a /\ bq = b /\ rq = r
    BY DEF a, b, r
  <2> HIDE DEF aq, bq, rq
  <2> DEFINE l == Len(ci) lq == Len(rq) lr == Len(r)
  <2>0. /\ l \in Nat /\ lq \in Nat /\ lr \in Nat /\ a \in Nat /\ b \in Nat /\ aq \in Nat /\ bq \in Nat
        /\ b = a + lr /\ bq = aq + lq /\ bq <= l /\ k < lr /\ b <= l
        /\ (p < q => b <= aq) /\ (q < p => bq <= a)
    BY <1>1, <1>2, <1>3, <1>4, <2>1, <2>3
  <2> HIDE DEF l, lq, lr
  <2>5. CASE q < p
    <3>1. R2[q] = rq /\ rp2[q + 1] = aq /\ rp2[q + 2] = bq
      BY <1>8, <2>2, <2>5 DEF rq
    <3>2. \A jx \in 1 .. lq : aq + jx \in 1 .. m
      BY <2>0, <2>5 DEF m
    <3>3. \A jx \in 1 .. lq : ci2[aq + jx] = rq[jx]
      BY <1>5, <2>1, <3>2 DEF lq
    <3> QED BY <2>1, <3>1, <3>3 DEF LaidAt, lq
  <2>6. CASE q > p
    <3>1. R2[q] = rq /\ rp2[q + 1] = aq - 1 /\ rp2[q + 2] = bq - 1
      BY <1>8, <2>2, <2>6 DEF rq
    <3>2. ASSUME NEW jx \in 1 .. lq PROVE ci2[aq - 1 + jx] = rq[jx]
      <4>1. ASSUME NEW ix, ix = aq - 1 + jx PROVE ci2[ix] = rq[jx]
        <5>1. ix \in (m + 1) .. (l - 1) /\ ix + 1 = aq + jx
          BY <2>0, <2>6, <4>1 DEF m
        <5>2. ci2[ix] = ci[ix + 1]
          BY <1>5, <5>1 DEF l
        <5>3. ci[aq + jx] = rq[jx]
          BY <2>1 DEF lq
        <5> QED BY <5>1, <5>2, <5>3
      <4> QED BY <4>1
    <3>3. bq - 1 = aq - 1 + Len(rq)
      BY <2>1
    <3> QED BY <3>1, <3>2, <3>3 DEF LaidAt, lq
  <2>7. CASE q = p
    <3>1. R2[q] = rr /\ rp2[q + 1] = a /\ rp2[q + 2] = b - 1
      BY <1>8, <2>2, <2>4, <2>7
    <3>2. ASSUME NEW jx \in 1 .. Len(rr) PROVE ci2[a + jx] = rr[jx]
      <4>1. Len(rr) = lr - 1 /\ jx \in 1 .. lr - 1
        BY <1>6 DEF lr
      <4>2. CASE jx <= k
        <5>1. a + jx \in 1 .. m /\ jx \in 1 .. Len(r) /\ jx \in 1 .. k
          BY <2>0, <4>1, <4>2 DEF m, lr
        <5> QED BY <1>2, <1>5, <1>6, <5>1
      <4>3. CASE jx > k
        <5>1. ASSUME NEW ix, ix = a + jx PROVE ci2[ix] = rr[jx]
          <6>1. ix \in (m + 1) .. (l - 1) /\ ix + 1 = a + (jx + 1) /\ jx + 1 \in 1 .. lr /\ jx \in (k + 1) .. (lr - 1)
            BY <2>0, <4>1, <4>3, <5>1 DEF m
          <6>2. ci2[ix] = ci[ix + 1]
            BY <1>5, <6>1 DEF l
          <6>3. ci[a + (jx + 1)] = r[jx + 1]
            BY <1>2, <6>1 DEF lr
          <6>4. rr[jx] = r[jx + 1]
            BY <1>6, <6>1 DEF lr
          <6> QED BY <6>1, <6>2, <6>3, <6>4
        <5> QED BY <5>1
      <4> QED BY <2>0, <4>1, <4>2, <4>3
    <3>3. b - 1 = a + Len(rr)
      BY <1>2, <1>6
    <3> QED BY <3>1, <3>2, <3>3 DEF LaidAt
  <2> QED BY <1>1, <2>5, <2>6, <2>7
<1>11. Laid(rp2, ci2, n, R2)
  BY <1>1, <1>5, <1>7, <1>8, <1>9, <1>10 DEF Laid
<1> QED BY <1>11 DEF rp2, ci2, R2, rr, a, r, m

\* A vertex more, without edges.
LEMMA AppendLaid ==
  ASSUME NEW rp, NEW ci, NEW n, NEW R, Laid(rp, ci, n, R)
  PROVE  Laid(Append(rp, rp[Len(rp)]), ci, n + 1, [q \in 0 .. n |-> IF q = n THEN <<>> ELSE R[q]])
<1> DEFINE e == rp[Len(rp)]
           rp2 == Append(rp, e) R2 == [q \in 0 .. n |-> IF q = n THEN <<>> ELSE R[q]]
<1>1. /\ n \in Nat /\ rp \in Seq(Nat) /\ ci \in Seq(Nat) /\ Len(rp) = n + 1
      /\ \A ix \in 1 .. n + 1 : rp[ix] \in Nat
      /\ rp[1] = 0 /\ rp[n + 1] = Len(ci) /\ Len(ci) \in Nat
      /\ \A q \in 0 .. n - 1 : R[q] \in Seq(Nat)
  BY LaidIs
<1>2. e = Len(ci) /\ e \in Nat
  BY <1>1
<1> HIDE DEF e
<1>3. /\ rp2 \in Seq(Nat) /\ Len(rp2) = n + 1 + 1
      /\ rp2[n + 1 + 1] = e
      /\ \A ix \in 1 .. n + 1 : rp2[ix] = rp[ix]
  <2> DEFINE N == n + 1
  <2>1. N \in Nat /\ Len(rp) = N /\ rp \in Seq(Nat) /\ e \in Nat
    BY <1>1, <1>2
  <2> HIDE DEF N
  <2>2. /\ rp2 \in Seq(Nat) /\ Len(rp2) = N + 1 /\ rp2[N + 1] = e
        /\ \A ix \in 1 .. N : rp2[ix] = rp[ix]
    BY <2>1
  <2> HIDE DEF rp2
  <2> QED BY <2>2 DEF N
<1> HIDE DEF rp2
<1>4. R2 \in [0 .. (n + 1) - 1 -> Seq(Nat)] /\ R2[n] = <<>> /\ \A q \in 0 .. n - 1 : R2[q] = R[q]
  <2>1. (n + 1) - 1 = n /\ \A q \in 0 .. n : q # n => q \in 0 .. n - 1
    BY <1>1
  <2>2. \A q \in 0 .. n : (IF q = n THEN <<>> ELSE R[q]) \in Seq(Nat)
    BY <1>1, <2>1
  <2>3. n \in 0 .. n /\ \A q \in 0 .. n - 1 : q \in 0 .. n /\ q # n
    BY <1>1
  <2> QED BY <2>1, <2>2, <2>3
<1> HIDE DEF R2
<1>5. ASSUME NEW q \in 0 .. (n + 1) - 1 PROVE LaidAt(rp2, ci, R2, q)
  <2>1. CASE q = n
    <3>1. Len(R2[q]) = 0 /\ rp2[q + 1] = e /\ rp2[q + 2] = e
      <4>1. n + 1 \in 1 .. n + 1 /\ q + 1 = n + 1 /\ q + 2 = n + 1 + 1
        BY <1>1, <2>1
      <4>2. rp2[n + 1] = e
        BY <1>1, <1>2, <1>3, <4>1
      <4> QED BY <1>3, <1>4, <2>1, <4>1, <4>2
    <3> QED BY <1>2, <3>1 DEF LaidAt
  <2>2. CASE q # n
    <3>1. q \in 0 .. n - 1 /\ q + 1 \in 1 .. n + 1 /\ q + 2 \in 1 .. n + 1
      BY <1>1, <2>2
    <3>2. R2[q] = R[q] /\ rp2[q + 1] = rp[q + 1] /\ rp2[q + 2] = rp[q + 2]
      BY <1>3, <1>4, <3>1
    <3>3. LaidAt(rp, ci, R, q)
      BY <3>1, LaidIs
    <3> QED BY <3>2, <3>3 DEF LaidAt
  <2> QED BY <2>1, <2>2
<1>6. rp2[1] = 0 /\ rp2[(n + 1) + 1] = Len(ci)
  <2>1. 1 \in 1 .. n + 1
    BY <1>1
  <2> QED BY <1>1, <1>2, <1>3, <2>1
<1>7. Laid(rp2, ci, n + 1, R2)
  BY <1>1, <1>3, <1>4, <1>5, <1>6, SMTT(40) DEF Laid
<1> QED BY <1>7 DEF rp2, R2, e

LEMMA EmptyLaid == Laid(<<0>>, <<>>, 0, [q \in 0 .. 0 - 1 |-> <<>>])
BY DEF Laid

\* Without what is between two places.
Cut(s, a, b) == SubSeq(s, 1, a) \o SubSeq(s, b + 1, Len(s))

IsCut(t, s, a, b) ==
  /\ Len(t) = a + (Len(s) - b)
  /\ \A jx \in 1 .. a : t[jx] = s[jx]
  /\ \A jx \in (a + 1) .. (a + (Len(s) - b)) : t[jx] = s[b + (jx - a)]

LEMMA CutIs ==
  ASSUME NEW V, NEW s \in Seq(V), NEW a \in Nat, NEW b \in Nat, a <= b, b <= Len(s)
  PROVE  Cut(s, a, b) \in Seq(V) /\ IsCut(Cut(s, a, b), s, a, b)
<1> DEFINE f == SubSeq(s, 1, a) g == SubSeq(s, b + 1, Len(s)) n == Len(s)
<1>1. n \in Nat
  OBVIOUS
<1>2. f \in Seq(V) /\ Len(f) = a /\ \A jx \in 1 .. a : f[jx] = s[jx]
  <2>1. 0 \in Nat /\ 0 <= a /\ a <= Len(s) /\ 0 + 1 = 1
    OBVIOUS
  <2>2. /\ SubSeq(s, 0 + 1, a) \in Seq(V) /\ Len(SubSeq(s, 0 + 1, a)) = a - 0
        /\ \A jx \in 1 .. a - 0 : SubSeq(s, 0 + 1, a)[jx] = s[0 + jx]
    BY <2>1, SubSeqIs
  <2>3. f = SubSeq(s, 0 + 1, a)
    OBVIOUS
  <2>4. a - 0 = a /\ \A jx \in 1 .. a : 0 + jx = jx
    OBVIOUS
  <2> HIDE DEF f
  <2> QED BY <2>2, <2>3, <2>4
<1>3. g \in Seq(V) /\ Len(g) = n - b /\ \A jx \in 1 .. n - b : g[jx] = s[b + jx]
  <2> HIDE DEF n
  <2>1. b <= n /\ n <= Len(s)
    BY <1>1 DEF n
  <2>2. /\ SubSeq(s, b + 1, n) \in Seq(V) /\ Len(SubSeq(s, b + 1, n)) = n - b
        /\ \A jx \in 1 .. n - b : SubSeq(s, b + 1, n)[jx] = s[b + jx]
    BY <1>1, <2>1, SubSeqIs
  <2>3. g = SubSeq(s, b + 1, n)
    BY DEF n
  <2> HIDE DEF g
  <2> QED BY <2>2, <2>3
<1>4. Cut(s, a, b) = f \o g
  BY DEF Cut
<1> HIDE DEF f, g
<1>5. f \in Seq(V) /\ g \in Seq(V)
  BY <1>2, <1>3
<1>6. /\ f \o g \in Seq(V) /\ Len(f \o g) = Len(f) + Len(g)
      /\ \A jx \in 1 .. Len(f) : (f \o g)[jx] = f[jx]
      /\ \A jx \in (Len(f) + 1) .. (Len(f) + Len(g)) : (f \o g)[jx] = g[jx - Len(f)]
  BY <1>5, ConcatIs
<1> DEFINE c == f \o g
<1>7. /\ c \in Seq(V) /\ Len(c) = a + (n - b)
      /\ \A jx \in 1 .. a : c[jx] = f[jx]
      /\ \A jx \in (a + 1) .. (a + (n - b)) : c[jx] = g[jx - a]
  BY <1>2, <1>3, <1>6
<1> HIDE DEF c
<1>8. ASSUME NEW jx \in (a + 1) .. (a + (n - b)) PROVE c[jx] = s[b + (jx - a)]
  <2>1. jx - a \in 1 .. n - b
    BY <1>1
  <2> QED BY <1>3, <1>7, <2>1
<1>9. \A jx \in 1 .. a : c[jx] = s[jx]
  BY <1>2, <1>7
<1>10. c \in Seq(V) /\ IsCut(c, s, a, b)
  BY <1>7, <1>8, <1>9 DEF n, IsCut
<1> QED BY <1>4, <1>10 DEF c

\* A vertex less, whose row goes with it.
LEMMA DropLaid ==
  ASSUME NEW rp, NEW ci, NEW n, NEW R, Laid(rp, ci, n, R), NEW p \in 0 .. n - 1
  PROVE  Laid(Removed(Shift(rp, p, rp[p + 1] - rp[p + 2]), p), Cut(ci, rp[p + 1], rp[p + 2]), n - 1,
              [q \in 0 .. n - 2 |-> IF q < p THEN R[q] ELSE R[q + 1]])
<1> DEFINE a == rp[p + 1] b == rp[p + 2]
           sh == Shift(rp, p, a - b)
           rp2 == Removed(sh, p) ci2 == Cut(ci, a, b)
           R2 == [q \in 0 .. n - 2 |-> IF q < p THEN R[q] ELSE R[q + 1]]
<1>1. /\ n \in Nat /\ rp \in Seq(Nat) /\ ci \in Seq(Nat) /\ Len(rp) = n + 1
      /\ \A ix \in 1 .. n + 1 : rp[ix] \in Nat
      /\ rp[1] = 0 /\ rp[n + 1] = Len(ci) /\ Len(ci) \in Nat
      /\ R = [q \in 0 .. n - 1 |-> R[q]]
      /\ \A q \in 0 .. n - 1 : R[q] \in Seq(Nat)
  BY LaidIs, ZenonT(60)
<1>0. n \in Nat /\ p \in Int /\ 0 <= p /\ p <= n - 1
  BY <1>1
<1>2. a \in Nat /\ b \in Nat /\ a <= b
  <2>1. /\ a \in Nat /\ b \in Nat /\ Len(R[p]) \in Nat /\ b = a + Len(R[p])
    <3>1. Spans(ci, a, b, R[p])
      BY LaidRowIs
    <3> QED BY <3>1 DEF Spans
  <2> DEFINE l == Len(R[p])
  <2>2. a \in Nat /\ b \in Nat /\ l \in Nat /\ b = a + l
    BY <2>1
  <2> HIDE DEF a, b, l
  <2> QED BY <2>2
<1>3. b <= Len(ci)
  BY LaidOrder
<1>4. /\ ci2 \in Seq(Nat) /\ Len(ci2) = a + (Len(ci) - b)
      /\ \A jx \in 1 .. a : ci2[jx] = ci[jx]
      /\ \A jx \in (a + 1) .. (a + (Len(ci) - b)) : ci2[jx] = ci[b + (jx - a)]
  <2> HIDE DEF a, b
  <2>1. ci \in Seq(Nat) /\ a \in Nat /\ b \in Nat /\ a <= b /\ b <= Len(ci)
    BY <1>1, <1>2, <1>3
  <2>2. ci2 \in Seq(Nat) /\ IsCut(ci2, ci, a, b)
    BY <2>1, CutIs
  <2> HIDE DEF ci2
  <2> QED BY <2>2 DEF IsCut
<1>5. \A ix \in 1 .. n + 1 : ix > p + 1 => b <= rp[ix]
  <2> SUFFICES ASSUME NEW ix \in 1 .. n + 1, ix > p + 1 PROVE b <= rp[ix]
    OBVIOUS
  <2>1. p + 2 \in 1 .. n + 1 /\ p + 2 <= ix
    BY <1>0
  <2> QED BY <2>1, LaidGrows
<1>6. /\ sh \in Seq(Nat) /\ Len(sh) = n + 1
      /\ \A ix \in 1 .. n + 1 : sh[ix] = IF ix > p + 1 THEN rp[ix] + (a - b) ELSE rp[ix]
  <2>1. DOMAIN rp = 1 .. n + 1
    BY <1>1
  <2>2. sh = [ix \in 1 .. n + 1 |-> IF ix > p + 1 THEN rp[ix] + (a - b) ELSE rp[ix]]
    BY <2>1 DEF Shift
  <2>3. \A ix \in 1 .. n + 1 : (IF ix > p + 1 THEN rp[ix] + (a - b) ELSE rp[ix]) \in Nat
    <3> SUFFICES ASSUME NEW ix \in 1 .. n + 1 PROVE (IF ix > p + 1 THEN rp[ix] + (a - b) ELSE rp[ix]) \in Nat
      OBVIOUS
    <3> DEFINE c == rp[ix]
    <3>1. c \in Nat /\ a \in Nat /\ b \in Nat /\ (ix > p + 1 => b <= c)
      BY <1>1, <1>2, <1>5
    <3> HIDE DEF a, b, c
    <3>2. (IF ix > p + 1 THEN c + (a - b) ELSE c) \in Nat
      BY <3>1
    <3> QED BY <3>2 DEF c
  <2> HIDE DEF sh
  <2>4. sh \in [1 .. n + 1 -> Nat]
    BY <2>2, <2>3
  <2>5. sh \in Seq(Nat) /\ Len(sh) = n + 1
    <3> DEFINE N == n + 1
    <3>1. N \in Nat /\ sh \in [1 .. N -> Nat]
      BY <1>0, <2>4
    <3> HIDE DEF N
    <3>2. sh \in Seq(Nat) /\ Len(sh) = N
      BY <3>1
    <3> QED BY <3>2 DEF N
  <2> QED BY <2>2, <2>5
<1> HIDE DEF sh, a, b, ci2
<1>7. /\ rp2 \in Seq(Nat) /\ Len(rp2) = (n - 1) + 1
      /\ \A ix \in 1 .. p : rp2[ix] = rp[ix]
      /\ \A ix \in (p + 1) .. n : rp2[ix] = rp[ix + 1] + (a - b)
  <2>1. sh \in Seq(Nat) /\ p \in Nat /\ p < Len(sh)
    BY <1>0, <1>6
  <2>2. rp2 \in Seq(Nat) /\ IsRemoved(rp2, sh, p)
    BY <2>1, RemoveAtIs
  <2> HIDE DEF rp2
  <2>3. /\ Len(rp2) = Len(sh) - 1
        /\ \A jx \in 1 .. p : rp2[jx] = sh[jx]
        /\ \A jx \in (p + 1) .. (Len(sh) - 1) : rp2[jx] = sh[jx + 1]
    BY <2>2 DEF IsRemoved
  <2>4. Len(sh) - 1 = n /\ n = (n - 1) + 1
    BY <1>0, <1>6
  <2>5. \A ix \in 1 .. p : rp2[ix] = rp[ix]
    <3>1. \A ix \in 1 .. p : ix \in 1 .. n + 1 /\ ~(ix > p + 1)
      BY <1>0
    <3> QED BY <1>6, <2>3, <3>1
  <2>6. \A ix \in (p + 1) .. n : rp2[ix] = rp[ix + 1] + (a - b)
    <3>1. \A ix \in (p + 1) .. n : ix + 1 \in 1 .. n + 1 /\ ix + 1 > p + 1
      BY <1>0
    <3> QED BY <1>6, <2>3, <2>4, <3>1
  <2> QED BY <2>2, <2>3, <2>4, <2>5, <2>6
<1> HIDE DEF rp2
<1>8. /\ R2 \in [0 .. (n - 1) - 1 -> Seq(Nat)]
      /\ \A q \in 0 .. n - 2 : R2[q] = IF q < p THEN R[q] ELSE R[q + 1]
  <2>1. n - 2 = (n - 1) - 1 /\ \A q \in 0 .. n - 2 : q \in 0 .. n - 1 /\ q + 1 \in 0 .. n - 1
    BY <1>0
  <2>2. \A q \in 0 .. n - 2 : (IF q < p THEN R[q] ELSE R[q + 1]) \in Seq(Nat)
    BY <1>1, <2>1
  <2> QED BY <2>1, <2>2
<1> HIDE DEF R2
\* Where the first rows end, and where the others begin.
<1>9. /\ \A ix \in 1 .. p + 1 : ix <= n => rp2[ix] = rp[ix]
      /\ \A ix \in (p + 1) .. n : rp2[ix] = rp[ix + 1] + (a - b)
  <2>1. rp2[p + 1] = rp[p + 1]
    <3>1. rp2[p + 1] = rp[(p + 1) + 1] + (a - b)
      <4>1. p + 1 \in (p + 1) .. n
        BY <1>0
      <4> QED BY <1>7, <4>1
    <3>2. (p + 1) + 1 = p + 2
      BY <1>0
    <3>3. rp2[p + 1] = b + (a - b)
      BY <3>1, <3>2 DEF b
    <3>4. b + (a - b) = a
      BY <1>2
    <3> QED BY <3>3, <3>4 DEF a
  <2>2. \A ix \in 1 .. p + 1 : ix \in 1 .. p \/ ix = p + 1
    BY <1>0
  <2> QED BY <1>7, <2>1, <2>2
<1>10. rp2[1] = 0 /\ rp2[(n - 1) + 1] = Len(ci2)
  <2>1. 1 \in 1 .. p + 1 /\ 1 <= n /\ n \in (p + 1) .. n /\ (n - 1) + 1 = n
    BY <1>0
  <2>2. rp2[1] = rp[1] /\ rp2[n] = rp[n + 1] + (a - b)
    BY <1>9, <2>1
  <2>3. Len(ci) + (a - b) = a + (Len(ci) - b)
    BY <1>1, <1>2
  <2> QED BY <1>1, <1>4, <2>1, <2>2, <2>3
<1>11. ASSUME NEW q \in 0 .. (n - 1) - 1 PROVE LaidAt(rp2, ci2, R2, q)
  <2>0. q \in 0 .. n - 2 /\ q \in 0 .. n - 1 /\ q + 1 \in 0 .. n - 1
    BY <1>0
  <2>1. CASE q < p
    <3> DEFINE aq == rp[q + 1] bq == rp[q + 2] rq == R[q]
    <3>0. q \in 0 .. n - 1
      BY <2>0
    <3>1. /\ aq \in Nat /\ bq \in Nat /\ rq \in Seq(Nat) /\ Len(rq) \in Nat
          /\ bq = aq + Len(rq)
          /\ \A jx \in 1 .. Len(rq) : ci[aq + jx] = rq[jx]
      <4>1. Spans(ci, aq, bq, rq)
        BY <3>0, LaidRowIs
      <4> QED BY <4>1 DEF Spans
    <3>2. bq <= a
      BY <2>0, <2>1, LaidOrder DEF a
    <3>3. rp2[q + 1] = aq /\ rp2[q + 2] = bq /\ R2[q] = rq
      <4>1. q + 1 \in 1 .. p + 1 /\ q + 1 <= n /\ q + 2 \in 1 .. p + 1 /\ q + 2 <= n
        BY <1>0, <2>1
      <4> QED BY <1>8, <1>9, <2>0, <2>1, <4>1
    <3> HIDE DEF aq, bq, rq
    <3> DEFINE lq == Len(rq)
    <3>4. lq \in Nat /\ bq = aq + lq /\ aq \in Nat /\ bq \in Nat
      BY <3>1
    <3> HIDE DEF lq
    <3>5. \A jx \in 1 .. lq : aq + jx \in 1 .. a
      BY <1>2, <3>2, <3>4
    <3>6. \A jx \in 1 .. lq : ci2[aq + jx] = rq[jx]
      BY <1>4, <3>1, <3>5 DEF lq
    <3> QED BY <3>1, <3>3, <3>6 DEF LaidAt, lq
  <2>2. CASE q >= p
    <3> DEFINE x == q + 1
    <3>0. x \in 0 .. n - 1 /\ p < x
      BY <1>0, <2>0, <2>2
    <3>1. x + 1 = q + 2 /\ x + 2 = q + 3
      BY <1>0
    <3> HIDE DEF x
    <3> DEFINE aq == rp[x + 1] bq == rp[x + 2] rq == R[x]
    <3>2. /\ aq \in Nat /\ bq \in Nat /\ rq \in Seq(Nat) /\ Len(rq) \in Nat
          /\ bq = aq + Len(rq)
          /\ \A jx \in 1 .. Len(rq) : ci[aq + jx] = rq[jx]
      <4>1. Spans(ci, aq, bq, rq)
        BY <3>0, LaidRowIs
      <4> QED BY <4>1 DEF Spans
    <3>3. b <= aq /\ bq <= Len(ci)
      BY <3>0, LaidOrder DEF b
    <3>4. rp2[q + 1] = aq + (a - b) /\ rp2[q + 2] = bq + (a - b) /\ R2[q] = rq
      <4>1. q + 1 \in (p + 1) .. n /\ q + 2 \in (p + 1) .. n /\ (q + 1) + 1 = q + 2 /\ (q + 2) + 1 = q + 3
        BY <1>0, <2>2
      <4>2. rp2[q + 1] = rp[(q + 1) + 1] + (a - b) /\ rp2[q + 2] = rp[(q + 2) + 1] + (a - b)
        BY <1>9, <4>1
      <4>3. R2[q] = R[q + 1]
        BY <1>0, <1>8, <2>0, <2>2
      <4> QED BY <3>1, <4>1, <4>2, <4>3 DEF x
    <3> HIDE DEF aq, bq, rq
    <3> DEFINE lq == Len(rq) l == Len(ci)
    <3>5. lq \in Nat /\ bq = aq + lq /\ aq \in Nat /\ bq \in Nat /\ l \in Nat /\ b <= aq /\ bq <= l
      BY <1>1, <3>2, <3>3
    <3> HIDE DEF lq, l
    <3>6. ASSUME NEW jx \in 1 .. lq PROVE ci2[aq + (a - b) + jx] = rq[jx]
      <4>1. ASSUME NEW ix, ix = aq + (a - b) + jx PROVE ci2[ix] = rq[jx]
        <5>1. ix \in (a + 1) .. (a + (l - b)) /\ b + (ix - a) = aq + jx
          BY <1>2, <3>5, <4>1
        <5>2. ci2[ix] = ci[b + (ix - a)]
          BY <1>4, <5>1 DEF l
        <5>3. ci[aq + jx] = rq[jx]
          BY <3>2 DEF lq
        <5> QED BY <5>1, <5>2, <5>3
      <4> QED BY <4>1
    <3>7. bq + (a - b) = aq + (a - b) + Len(rq)
      BY <1>2, <3>2
    <3> QED BY <3>4, <3>6, <3>7 DEF LaidAt, lq
  <2> QED BY <1>0, <2>1, <2>2
<1>12. n - 1 \in Nat
  BY <1>0
<1>13. Laid(rp2, ci2, n - 1, R2)
  BY <1>4, <1>7, <1>8, <1>10, <1>11, <1>12 DEF Laid
<1> QED BY <1>13 DEF rp2, ci2, R2, sh, a, b

\* The rows one after the other, laid out.
LEMMA JoinLaid ==
  ASSUME NEW rows, NEW J, Joins(J, rows, Nat), NEW n, n = Len(rows)
  PROVE  Laid([ix \in 1 .. n + 1 |-> Len(J[ix - 1])], J[n], n, [p \in 0 .. n - 1 |-> rows[p + 1]])
<1> DEFINE rp == [ix \in 1 .. n + 1 |-> Len(J[ix - 1])]
           R == [p \in 0 .. n - 1 |-> rows[p + 1]]
           all == J[n]
<1>1. /\ n \in Nat /\ \A ix \in 1 .. n : rows[ix] \in Seq(Nat)
      /\ J \in [0 .. n -> Seq(Nat)] /\ J[0] = <<>>
  BY DEF Joins
<1>2. all \in Seq(Nat) /\ \A ix \in 1 .. n + 1 : Len(J[ix - 1]) \in Nat
  <2>1. n \in 0 .. n /\ \A ix \in 1 .. n + 1 : ix - 1 \in 0 .. n
    BY <1>1
  <2> QED BY <1>1, <2>1
<1>3. rp \in Seq(Nat) /\ Len(rp) = n + 1 /\ \A ix \in 1 .. n + 1 : rp[ix] = Len(J[ix - 1])
  <2> DEFINE N == n + 1
  <2>1. N \in Nat /\ rp \in [1 .. N -> Nat]
    BY <1>1, <1>2
  <2> HIDE DEF N, rp
  <2>2. rp \in Seq(Nat) /\ Len(rp) = N
    BY <2>1
  <2> QED BY <2>2 DEF N, rp
<1> HIDE DEF rp
<1>4. rp[1] = 0 /\ rp[n + 1] = Len(all)
  <2>1. 1 \in 1 .. n + 1 /\ n + 1 \in 1 .. n + 1 /\ 1 - 1 = 0 /\ (n + 1) - 1 = n
    BY <1>1
  <2>2. Len(J[0]) = 0
    BY <1>1
  <2> QED BY <1>3, <2>1, <2>2
<1>5. R \in [0 .. n - 1 -> Seq(Nat)] /\ \A p \in 0 .. n - 1 : R[p] = rows[p + 1]
  <2>1. \A p \in 0 .. n - 1 : p + 1 \in 1 .. n
    BY <1>1
  <2> QED BY <1>1, <2>1
<1> HIDE DEF R, all
<1>6. ASSUME NEW p \in 0 .. n - 1 PROVE LaidAt(rp, all, R, p)
  <2> DEFINE k == p + 1
  <2>1. /\ k \in 1 .. n /\ k - 1 = p /\ p + 1 \in 1 .. n + 1 /\ p + 2 \in 1 .. n + 1
        /\ (p + 1) - 1 = k - 1 /\ (p + 2) - 1 = k
    BY <1>1
  <2> HIDE DEF k
  <2> DEFINE a == Len(J[k - 1]) b == Len(J[k]) r == rows[k] l == Len(all)
  <2>2. /\ b = a + Len(r)
        /\ a \in Nat /\ b \in Nat /\ b <= l
        /\ SubSeq(all, a + 1, b) = r
    <3>1. k \in 1 .. Len(rows)
      BY <2>1
    <3>2. JoinedAt(J, rows, k)
      BY <3>1, JoinedRow, Zenon
    <3>3. all = J[Len(rows)]
      BY DEF all
    <3> QED BY <3>2, <3>3 DEF JoinedAt
  <2>3. rp[p + 1] = a /\ rp[p + 2] = b
    BY <1>3, <2>1
  <2>4. R[p] = r
    BY <1>5 DEF k
  <2>5. r \in Seq(Nat) /\ Len(r) \in Nat
    BY <1>1, <2>1
  <2> HIDE DEF a, b, r, l
  <2>6. all \in Seq(Nat) /\ a <= b /\ b <= Len(all) /\ b - a = Len(r)
    BY <1>2, <2>2, <2>5 DEF l
  <2>7. \A jx \in 1 .. b - a : SubSeq(all, a + 1, b)[jx] = all[a + jx]
    <3>1. all \in Seq(Nat) /\ a \in Nat /\ b \in Nat /\ a <= b /\ b <= Len(all)
      BY <2>2, <2>6
    <3>2. /\ SubSeq(all, a + 1, b) \in Seq(Nat) /\ Len(SubSeq(all, a + 1, b)) = b - a
          /\ \A jx \in 1 .. b - a : SubSeq(all, a + 1, b)[jx] = all[a + jx]
      BY <3>1, SubSeqIs
    <3> QED BY <3>2
  <2>8. \A jx \in 1 .. Len(r) : all[a + jx] = r[jx]
    BY <2>2, <2>6, <2>7
  <2> QED BY <2>2, <2>3, <2>4, <2>8 DEF LaidAt
<1>7. Laid(rp, all, n, R)
  BY <1>1, <1>2, <1>3, <1>4, <1>5, <1>6 DEF Laid
<1> QED BY <1>7 DEF rp, R, all

\* The index of x in a row.
Find(line, x) == SelectInSeq(line, LAMBDA v : v = x)

LEMMA FindIs ==
  ASSUME NEW V, NEW s \in Seq(V), IsInjective(s), NEW ix \in 1 .. Len(s)
  PROVE  Find(s, s[ix]) = ix
<1>1. DOMAIN s = 1 .. Len(s)
  OBVIOUS
<1>2. {jx \in 1 .. Len(s) : s[jx] = s[ix]} = {ix}
  BY <1>1 DEF IsInjective
<1>3. Find(s, s[ix]) = Min({ix})
  BY <1>2 DEF Find, SelectInSeq
<1>4. Min({ix}) = ix
  BY DEF Min
<1> QED BY <1>3, <1>4

\* The row of x as positions in vs.
BuiltRow(adj, vs, x) == [k \in DOMAIN Sorted(adj[x]) |-> Find(vs, Sorted(adj[x])[k]) - 1]

IsBuilt(adj, vs, x) ==
  /\ BuiltRow(adj, vs, x) \in Seq(0 .. Len(vs) - 1)
  /\ Rising(BuiltRow(adj, vs, x))
  /\ \A q \in 0 .. Len(vs) - 1 : Copies(BuiltRow(adj, vs, x), q) = Copies(adj[x], vs[q + 1])

LEMMA BuiltRowIs ==
  ASSUME NEW D, D \subseteq Int, NEW vs \in Seq(D), IsInjective(vs), Range(vs) = D,
         \A ix, jx \in 1 .. Len(vs) : ix < jx => vs[ix] < vs[jx],
         NEW adj, NEW x, adj[x] \in Seq(D)
  PROVE  IsBuilt(adj, vs, x)
<1> DEFINE old == adj[x] s == Sorted(old) line == BuiltRow(adj, vs, x) n == Len(vs)
<1>1. n \in Nat /\ DOMAIN vs = 1 .. n
  OBVIOUS
<1>2. old \in Seq(D) /\ old \in Seq(Int)
  <2>1. old \in Seq(D)
    OBVIOUS
  <2> HIDE DEF old
  <2>2. \A ix \in 1 .. Len(old) : old[ix] \in Int
    BY <2>1, IndicesFinite
  <2> QED BY <2>1, <2>2
<1> HIDE DEF old
<1>3. /\ s \in Seq(Int) /\ Len(s) = Len(old)
      /\ Range(s) = Range(old)
      /\ \A y : Copies(s, y) = Copies(old, y)
      /\ \A jx, k \in 1 .. Len(old) : jx <= k => s[jx] <= s[k]
  BY <1>2, SortedFacts
<1>4. \A k \in DOMAIN s : s[k] \in D
  <2>1. Range(old) \subseteq D
    BY <1>2, IndicesFinite DEF Range
  <2> HIDE DEF s
  <2> QED BY <1>3, <2>1 DEF Range
<1>5. line = [k \in DOMAIN s |-> Find(vs, s[k]) - 1]
  BY DEF BuiltRow, old
<1> HIDE DEF s, line
<1>6. DOMAIN s = 1 .. Len(s) /\ Len(s) \in Nat
  BY <1>3
<1>7. ASSUME NEW k \in DOMAIN s
      PROVE  line[k] \in 0 .. n - 1 /\ vs[line[k] + 1] = s[k]
  <2>1. PICK ix \in 1 .. n : vs[ix] = s[k]
    BY <1>1, <1>4 DEF Range
  <2>2. Find(vs, s[k]) = ix
    BY <2>1, FindIs
  <2>3. line[k] = ix - 1 /\ (ix - 1) + 1 = ix
    BY <1>1, <1>5, <2>2
  <2> QED BY <1>1, <2>1, <2>3
<1>8. line \in Seq(0 .. n - 1) /\ DOMAIN line = DOMAIN s /\ Len(line) = Len(s)
  <2>1. line \in [1 .. Len(s) -> 0 .. n - 1]
    BY <1>5, <1>6, <1>7
  <2> QED BY <1>6, <2>1
<1>9. Rising(line)
  <2> SUFFICES ASSUME NEW jx \in 1 .. Len(line), NEW k \in 1 .. Len(line), jx <= k PROVE line[jx] <= line[k]
    BY DEF Rising
  <2>1. jx \in DOMAIN s /\ k \in DOMAIN s
    BY <1>6, <1>8
  <2>2. s[jx] <= s[k]
    BY <1>3, <1>6, <2>1
  <2> DEFINE u == line[jx] w == line[k]
  <2>3. /\ u \in 0 .. n - 1 /\ w \in 0 .. n - 1
        /\ vs[u + 1] = s[jx] /\ vs[w + 1] = s[k]
    BY <1>7, <2>1
  <2>4. s[jx] \in Int /\ s[k] \in Int
    BY <1>4, <2>1
  <2> HIDE DEF u, w
  <2>5. ASSUME w < u PROVE FALSE
    <3>1. w + 1 \in 1 .. Len(vs) /\ u + 1 \in 1 .. Len(vs) /\ w + 1 < u + 1
      BY <1>1, <2>3, <2>5
    <3>2. vs[w + 1] < vs[u + 1]
      BY <3>1
    <3> QED BY <2>2, <2>3, <2>4, <3>2
  <2>6. u <= w
    BY <1>1, <2>3, <2>5
  <2> QED BY <2>6 DEF u, w
<1>10. ASSUME NEW q \in 0 .. n - 1 PROVE Copies(line, q) = Copies(old, vs[q + 1])
  <2>0. q + 1 \in 1 .. n
    BY <1>1
  <2>1. \A k \in DOMAIN s : line[k] = q <=> s[k] = vs[q + 1]
    <3> TAKE k \in DOMAIN s
    <3> DEFINE u == line[k]
    <3>1. u \in 0 .. n - 1 /\ vs[u + 1] = s[k]
      BY <1>7
    <3> HIDE DEF u
    <3>2. u + 1 \in 1 .. n
      BY <1>1, <3>1
    <3>3. u # q => u + 1 # q + 1
      BY <1>1, <3>1
    <3>4. vs[u + 1] = vs[q + 1] => u = q
      BY <1>1, <2>0, <3>2, <3>3 DEF IsInjective
    <3>5. u = q <=> s[k] = vs[q + 1]
      BY <3>1, <3>4
    <3> QED BY <3>5 DEF u
  <2>2. {k \in DOMAIN line : line[k] = q} = {k \in DOMAIN s : s[k] = vs[q + 1]}
    BY <1>8, <2>1
  <2>3. Copies(line, q) = Copies(s, vs[q + 1])
    BY <2>2 DEF Copies
  <2> QED BY <1>3, <2>3
<1> QED BY <1>8, <1>9, <1>10 DEF line, old, IsBuilt

----------------------------------------------------------------------------
(* The operators of GraphCSR, told by its three arrays *)

\* value_index
Position(vs, x) ==
  IF \E p \in 0 .. Len(vs) - 1 : vs[p + 1] = x
  THEN CHOOSE p \in 0 .. Len(vs) - 1 : vs[p + 1] = x /\ \A q \in 0 .. p - 1 : vs[q + 1] # x
  ELSE Len(vs)

\* lower_bound in a row
Below(line, q) == Cardinality({ix \in DOMAIN line : line[ix] < q})

\* neighbors
Leads(vs, line) == [ix \in DOMAIN line |-> vs[line[ix] + 1]]
NeighborsAt(rp, ci, vs, x) ==
  LET p == Position(vs, x)
  IN Leads(vs, IF p = Len(vs) THEN <<>> ELSE RowAt(rp, ci, p))

Adjacent(rp, ci, vs, x, y) ==
  /\ Position(vs, x) # Len(vs) /\ Position(vs, y) # Len(vs)
  /\ \E ix \in DOMAIN RowAt(rp, ci, Position(vs, x)) :
       RowAt(rp, ci, Position(vs, x))[ix] = Position(vs, y)

LEMMA CSRRows ==
  /\ CSR!size = Len(values)
  /\ CSR!Positions = 0 .. Len(values) - 1
  /\ \A x : CSR!value_index(x) = Position(values, x)
  /\ \A p : CSR!Row(p) = RowAt(row_ptrs, column_indices, p)
  /\ \A p, y : CSR!lower_bound(p, y) = Below(RowAt(row_ptrs, column_indices, p), y)
<1>1. CSR!size = Len(values)
  BY DEF CSR!size
<1>2. CSR!Positions = 0 .. Len(values) - 1
  BY <1>1 DEF CSR!Positions
<1>3. \A x : CSR!value_index(x) = Position(values, x)
  BY <1>1, <1>2 DEF CSR!value_index, Position
<1>4. \A p : CSR!Row(p) = RowAt(row_ptrs, column_indices, p)
  BY DEF CSR!Row, CSR!RowBegin, CSR!RowEnd, RowAt
<1>5. \A p, y : CSR!lower_bound(p, y) = Below(RowAt(row_ptrs, column_indices, p), y)
  BY <1>4, ContainersRows
  DEF CSR!lower_bound, CSR!Row, CSR!RowBegin, CSR!RowEnd, RowAt, Below, CSR!Cardinality, Cardinality
<1> QED BY <1>1, <1>2, <1>3, <1>4, <1>5

LEMMA CSRQueries ==
  /\ CSR!vertices = Range(values)
  /\ \A x : CSR!Has(x) <=> Position(values, x) # Len(values)
  /\ \A x : CSR!neighbors(x) = NeighborsAt(row_ptrs, column_indices, values, x)
  /\ \A x, y : CSR!adjacent(x, y) <=> Adjacent(row_ptrs, column_indices, values, x, y)
<1>1. CSR!vertices = Range(values)
  BY DEF CSR!vertices, CSR!Range, Range
<1>2. \A x : CSR!Has(x) <=> Position(values, x) # Len(values)
  BY CSRRows DEF CSR!Has
<1>3. \A x : CSR!neighbors(x) = NeighborsAt(row_ptrs, column_indices, values, x)
  BY CSRRows DEF CSR!neighbors, NeighborsAt, Leads
<1>4. \A x, y : CSR!adjacent(x, y) <=> Adjacent(row_ptrs, column_indices, values, x, y)
  BY CSRRows, <1>2 DEF CSR!adjacent, Adjacent, CSR!Contains
<1> QED BY <1>1, <1>2, <1>3, <1>4

\* The same in the next state.
LEMMA CSRQueriesNext ==
  /\ (CSR!vertices)' = Range(values')
  /\ \A x : (CSR!neighbors(x))' = NeighborsAt(row_ptrs', column_indices', values', x)
<1>1. (CSR!vertices)' = Range(values')
  BY DEF CSR!vertices, CSR!Range, Range
<1>2. (CSR!size)' = Len(values')
  BY DEF CSR!size
<1>3. (CSR!Positions)' = 0 .. Len(values') - 1
  BY <1>2 DEF CSR!Positions
<1>4. \A x : (CSR!value_index(x))' = Position(values', x)
  BY <1>2, <1>3 DEF CSR!value_index, Position
<1>5. \A p : (CSR!Row(p))' = RowAt(row_ptrs', column_indices', p)
  BY DEF CSR!Row, CSR!RowBegin, CSR!RowEnd, RowAt
<1>6. \A x : (CSR!neighbors(x))' = NeighborsAt(row_ptrs', column_indices', values', x)
  BY <1>2, <1>4, <1>5 DEF CSR!neighbors, NeighborsAt, Leads
<1> QED BY <1>1, <1>6

\* The calls, told by the arrays before and after.
Same(rp, ci, vs, rp2, ci2, vs2) == rp2 = rp /\ ci2 = ci /\ vs2 = vs

Appends(rp, ci, vs, rp2, ci2, vs2, x) ==
  /\ vs2 = Append(vs, x) /\ rp2 = Append(rp, rp[Len(rp)]) /\ ci2 = ci

Drops(rp, ci, vs, rp2, ci2, vs2, p) ==
  /\ rp2 = Removed(Shift(rp, p, rp[p + 1] - rp[p + 2]), p)
  /\ ci2 = Cut(ci, rp[p + 1], rp[p + 2])
  /\ vs2 = Removed(vs, p)

Connects(rp, ci, vs, rp2, ci2, vs2, p, q) ==
  /\ rp2 = Shift(rp, p, 1)
  /\ ci2 = Inserted(ci, rp[p + 1] + Below(RowAt(rp, ci, p), q), q)
  /\ vs2 = vs

Disconnects(rp, ci, vs, rp2, ci2, vs2, p, q) ==
  /\ rp2 = Shift(rp, p, -1)
  /\ ci2 = Removed(ci, rp[p + 1] + Below(RowAt(rp, ci, p), q))
  /\ vs2 = vs

Unchanged == Same(row_ptrs, column_indices, values, row_ptrs', column_indices', values')

LEMMA CSRAdds ==
  ASSUME NEW x, CSR!add_vertex(x)
  PROVE  Appends(row_ptrs, column_indices, values, row_ptrs', column_indices', values', x)
BY DEF CSR!add_vertex, CSR!Last, Appends

LEMMA CSRDrops ==
  ASSUME NEW x, CSR!remove_vertex(x)
  PROVE  IF Position(values, x) = Len(values) THEN Unchanged
         ELSE Drops(row_ptrs, column_indices, values, row_ptrs', column_indices', values', Position(values, x))
<1> DEFINE p == Position(values, x)
<1>1. /\ CSR!value_index(x) = p
      /\ CSR!Has(x) <=> p # Len(values)
  BY CSRRows, CSRQueries
<1>2. CASE p = Len(values)
  BY <1>1, <1>2 DEF CSR!remove_vertex, CSR!csr, Unchanged, Same
<1>3. CASE p # Len(values)
  <2>1. /\ column_indices' = SubSeq(column_indices, 1, row_ptrs[p + 1])
                             \o SubSeq(column_indices, row_ptrs[p + 2] + 1, Len(column_indices))
        /\ row_ptrs' = CSR!RemoveAt(CSR!Shifted(p, row_ptrs[p + 1] - row_ptrs[p + 2]), p + 1)
        /\ values' = CSR!RemoveAt(values, p + 1)
    BY <1>1, <1>3 DEF CSR!remove_vertex, CSR!RowBegin, CSR!RowEnd, CSR!RemoveAt, CSR!Shifted
  <2>2. column_indices' = Cut(column_indices, row_ptrs[p + 1], row_ptrs[p + 2])
    BY <2>1 DEF Cut
  <2>3. values' = Removed(values, p)
    BY <2>1 DEF Removed, RemoveAt, CSR!RemoveAt
  <2>4. row_ptrs' = Removed(Shift(row_ptrs, p, row_ptrs[p + 1] - row_ptrs[p + 2]), p)
    BY <2>1 DEF Removed, RemoveAt, CSR!RemoveAt, CSR!Shifted, Shift
  <2> QED BY <1>3, <2>2, <2>3, <2>4 DEF Drops
<1> QED BY <1>2, <1>3

LEMMA CSRConnects ==
  ASSUME NEW x, NEW y, CSR!add_edge(x, y)
  PROVE  IF Position(values, x) = Len(values) \/ Position(values, y) = Len(values) THEN Unchanged
         ELSE Connects(row_ptrs, column_indices, values, row_ptrs', column_indices', values',
                       Position(values, x), Position(values, y))
<1> DEFINE p == Position(values, x) q == Position(values, y)
           b == Below(RowAt(row_ptrs, column_indices, p), q)
<1>1. /\ CSR!value_index(x) = p /\ CSR!value_index(y) = q
      /\ CSR!Has(x) <=> p # Len(values)
      /\ CSR!Has(y) <=> q # Len(values)
      /\ CSR!lower_bound(p, q) = b
  BY CSRRows, CSRQueries
<1>2. CASE p = Len(values) \/ q = Len(values)
  BY <1>1, <1>2 DEF CSR!add_edge, CSR!csr, Unchanged, Same
<1>3. CASE ~(p = Len(values) \/ q = Len(values))
  <2>1. /\ column_indices' = CSR!InsertAt(column_indices,
             CSR!RowBegin(p) + CSR!lower_bound(p, q) + 1, q)
        /\ row_ptrs' = CSR!Shifted(p, 1)
        /\ values' = values
    BY <1>1, <1>3 DEF CSR!add_edge, CSR!RowBegin, CSR!lower_bound, CSR!InsertAt, CSR!Shifted, CSR!Row, CSR!RowEnd
  <2>2. column_indices' = Inserted(column_indices, row_ptrs[p + 1] + b, q)
    <3> HIDE DEF p, q, b
    <3>1. CSR!RowBegin(p) = row_ptrs[p + 1]
      BY DEF CSR!RowBegin
    <3> QED BY <1>1, <2>1, <3>1 DEF Inserted, InsertAt, CSR!InsertAt
  <2>3. row_ptrs' = Shift(row_ptrs, p, 1)
    BY <2>1 DEF CSR!Shifted, Shift
  <2> QED BY <1>3, <2>1, <2>2, <2>3, SMTT(40) DEF Connects
<1> QED BY <1>2, <1>3

LEMMA CSRDisconnects ==
  ASSUME NEW x, NEW y, CSR!remove_edge(x, y)
  PROVE  IF ~Adjacent(row_ptrs, column_indices, values, x, y) THEN Unchanged
         ELSE Disconnects(row_ptrs, column_indices, values, row_ptrs', column_indices', values',
                          Position(values, x), Position(values, y))
<1> DEFINE p == Position(values, x) q == Position(values, y)
           b == Below(RowAt(row_ptrs, column_indices, p), q)
           adj == Adjacent(row_ptrs, column_indices, values, x, y)
<1>1. /\ CSR!value_index(x) = p /\ CSR!value_index(y) = q
      /\ CSR!adjacent(x, y) <=> adj
      /\ CSR!lower_bound(p, q) = b
  BY CSRRows, CSRQueries
<1>2. CASE ~adj
  BY <1>1, <1>2 DEF CSR!remove_edge, CSR!csr, Unchanged, Same
<1>3. CASE adj
  <2>1. /\ column_indices' = CSR!RemoveAt(column_indices,
             CSR!RowBegin(p) + CSR!lower_bound(p, q) + 1)
        /\ row_ptrs' = CSR!Shifted(p, -1)
        /\ values' = values
    BY <1>1, <1>3 DEF CSR!remove_edge
  <2>2. column_indices' = Removed(column_indices, row_ptrs[p + 1] + b)
    <3> HIDE DEF p, q, b
    <3>1. CSR!RowBegin(p) = row_ptrs[p + 1]
      BY DEF CSR!RowBegin
    <3> QED BY <1>1, <2>1, <3>1 DEF Removed, RemoveAt, CSR!RemoveAt
  <2>3. row_ptrs' = Shift(row_ptrs, p, -1)
    BY <2>1 DEF CSR!Shifted, Shift
  <2> QED BY <1>3, <2>1, <2>2, <2>3 DEF Disconnects
<1> QED BY <1>2, <1>3

\* The array of the vertices D: each of them once.
Holds(vs, D) == vs \in Seq(D) /\ IsInjective(vs) /\ Range(vs) = D

LEMMA HoldsIs ==
  ASSUME NEW D, NEW vs, Holds(vs, D)
  PROVE  /\ Len(vs) \in Nat /\ DOMAIN vs = 1 .. Len(vs)
         /\ \A ix \in 1 .. Len(vs) : vs[ix] \in D
         /\ \A ix, jx \in 1 .. Len(vs) : vs[ix] = vs[jx] => ix = jx
         /\ \A x \in D : \E ix \in 1 .. Len(vs) : vs[ix] = x
<1>1. vs \in Seq(D) /\ IsInjective(vs) /\ Range(vs) = D
  BY DEF Holds
<1>2. Len(vs) \in Nat /\ DOMAIN vs = 1 .. Len(vs) /\ \A ix \in 1 .. Len(vs) : vs[ix] \in D
  BY <1>1
<1>3. \A ix, jx \in 1 .. Len(vs) : vs[ix] = vs[jx] => ix = jx
  BY <1>1, <1>2 DEF IsInjective
<1>4. \A x \in D : \E ix \in 1 .. Len(vs) : vs[ix] = x
  BY <1>1, <1>2 DEF Range
<1> QED BY <1>2, <1>3, <1>4

LEMMA HoldsBy ==
  ASSUME NEW D, NEW vs \in Seq(D),
         \A ix, jx \in 1 .. Len(vs) : vs[ix] = vs[jx] => ix = jx,
         \A x \in D : \E ix \in 1 .. Len(vs) : vs[ix] = x
  PROVE  Holds(vs, D)
<1>1. DOMAIN vs = 1 .. Len(vs) /\ \A ix \in 1 .. Len(vs) : vs[ix] \in D
  OBVIOUS
<1>2. Range(vs) = D
  BY <1>1 DEF Range
<1>3. IsInjective(vs)
  BY <1>1 DEF IsInjective
<1> QED BY <1>2, <1>3 DEF Holds

LEMMA PositionIs ==
  ASSUME NEW D, NEW vs, Holds(vs, D)
  PROVE  /\ \A p \in 0 .. Len(vs) - 1 : vs[p + 1] \in D /\ Position(vs, vs[p + 1]) = p
         /\ \A x \in D : Position(vs, x) \in 0 .. Len(vs) - 1 /\ vs[Position(vs, x) + 1] = x
         /\ \A x : x \notin D => Position(vs, x) = Len(vs)
         /\ \A x : Position(vs, x) # Len(vs) => x \in D
<1> DEFINE n == Len(vs)
<1>0. n \in Nat /\ \A p \in 0 .. n - 1 : p + 1 \in 1 .. n
  BY HoldsIs
<1>1. \A p \in 0 .. n - 1 : vs[p + 1] \in D
  BY <1>0, HoldsIs
<1>2. ASSUME NEW p \in 0 .. n - 1 PROVE Position(vs, vs[p + 1]) = p
  <2>1. \A q \in 0 .. n - 1 : vs[q + 1] = vs[p + 1] => q = p
    <3> TAKE q \in 0 .. n - 1
    <3>1. q + 1 \in 1 .. n /\ p + 1 \in 1 .. n
      BY <1>0
    <3>2. vs[q + 1] = vs[p + 1] => q + 1 = p + 1
      BY <3>1, HoldsIs
    <3> QED BY <1>0, <3>2
  <2>2. \A q \in 0 .. p - 1 : q \in 0 .. n - 1 /\ q # p
    BY <1>0
  <2>3. p \in 0 .. n - 1 /\ vs[p + 1] = vs[p + 1] /\ \A q \in 0 .. p - 1 : vs[q + 1] # vs[p + 1]
    BY <2>1, <2>2
  <2> QED BY <2>1, <2>3 DEF Position
<1>3. ASSUME NEW x \in D PROVE Position(vs, x) \in 0 .. n - 1 /\ vs[Position(vs, x) + 1] = x
  <2>1. PICK ix \in 1 .. n : vs[ix] = x
    BY HoldsIs
  <2> DEFINE p == ix - 1
  <2>2. p \in 0 .. n - 1 /\ p + 1 = ix
    BY <1>0
  <2> HIDE DEF p
  <2>3. Position(vs, x) = p
    BY <1>2, <2>1, <2>2
  <2> QED BY <2>1, <2>2, <2>3
<1>4. ASSUME NEW x, x \notin D PROVE Position(vs, x) = n
  BY <1>1, <1>4 DEF Position
<1> QED BY <1>1, <1>2, <1>3, <1>4

LEMMA HoldsAppended ==
  ASSUME NEW D, NEW vs, Holds(vs, D), NEW x, x \notin D, NEW W, W = D \cup {x}
  PROVE  Holds(Append(vs, x), W)
<1> DEFINE n == Len(vs) ws == Append(vs, x)
<1>1. /\ n \in Nat /\ \A ix \in 1 .. n : vs[ix] \in D
      /\ \A ix, jx \in 1 .. n : vs[ix] = vs[jx] => ix = jx
      /\ \A y \in D : \E ix \in 1 .. n : vs[ix] = y
  BY HoldsIs
<1>2. vs \in Seq(W) /\ x \in W
  <2>1. vs \in Seq(D)
    BY DEF Holds
  <2> QED BY <2>1
<1>3. ws \in Seq(W) /\ Len(ws) = n + 1 /\ ws[n + 1] = x /\ \A ix \in 1 .. n : ws[ix] = vs[ix]
  BY <1>2
<1> HIDE DEF ws, n
<1>4. \A ix \in 1 .. n + 1 : ix = n + 1 \/ ix \in 1 .. n
  BY <1>1
<1>5. \A ix, jx \in 1 .. Len(ws) : ws[ix] = ws[jx] => ix = jx
  BY <1>1, <1>3, <1>4
<1>6. \A y \in W : \E ix \in 1 .. Len(ws) : ws[ix] = y
  <2>1. \A ix \in 1 .. n : ix \in 1 .. n + 1
    BY <1>1
  <2>2. n + 1 \in 1 .. n + 1
    BY <1>1
  <2> QED BY <1>1, <1>3, <2>1, <2>2
<1>7. Holds(ws, W)
  BY <1>3, <1>5, <1>6, HoldsBy
<1> QED BY <1>7 DEF ws

LEMMA HoldsRemoved ==
  ASSUME NEW D, NEW vs, Holds(vs, D), NEW p \in 0 .. Len(vs) - 1, NEW W, W = D \ {vs[p + 1]}
  PROVE  /\ Holds(Removed(vs, p), W)
         /\ Len(Removed(vs, p)) = Len(vs) - 1
         /\ \A q \in 0 .. Len(vs) - 2 : Removed(vs, p)[q + 1] = IF q < p THEN vs[q + 1] ELSE vs[q + 2]
<1> DEFINE n == Len(vs) ws == Removed(vs, p)
<1>1. /\ n \in Nat /\ \A ix \in 1 .. n : vs[ix] \in D
      /\ \A ix, jx \in 1 .. n : vs[ix] = vs[jx] => ix = jx
      /\ \A y \in D : \E ix \in 1 .. n : vs[ix] = y
  BY HoldsIs
<1>2. vs \in Seq(D) /\ p \in Nat /\ p < Len(vs)
  BY <1>1 DEF Holds
<1>3. ws \in Seq(D) /\ IsRemoved(ws, vs, p)
  BY <1>2, RemoveAtIs
<1>4. /\ Len(ws) = n - 1
      /\ \A ix \in 1 .. n - 1 : ws[ix] = IF ix <= p THEN vs[ix] ELSE vs[ix + 1]
  <2> DEFINE J == (p + 1) .. (n - 1)
  <2>0. /\ Len(ws) = n - 1
        /\ \A jx \in 1 .. p : ws[jx] = vs[jx]
        /\ \A jx \in J : ws[jx] = vs[jx + 1]
    BY <1>3 DEF IsRemoved
  <2> HIDE DEF ws, n, J
  <2>1. \A ix \in 1 .. n - 1 : (ix <= p => ix \in 1 .. p) /\ (~(ix <= p) => ix \in J)
    BY <1>1, <1>2 DEF J
  <2>2. ASSUME NEW ix \in 1 .. n - 1 PROVE ws[ix] = IF ix <= p THEN vs[ix] ELSE vs[ix + 1]
    <3>1. CASE ix <= p
      BY <2>0, <2>1, <3>1
    <3>2. CASE ~(ix <= p)
      <4>1. ix \in J
        BY <2>1, <3>2
      <4>2. p \in Nat /\ n \in Nat
        BY <1>1, <1>2
      <4>3. ws[ix] = vs[ix + 1]
        BY <2>0, <4>1, Zenon
      <4> QED BY <3>2, <4>3
    <3> QED BY <3>1, <3>2
  <2> QED BY <2>0, <2>2
<1> HIDE DEF ws, n
<1>5. p \in 0 .. n - 1 /\ p + 1 \in 1 .. n
  BY <1>1 DEF n
<1>6. \A ix \in 1 .. n - 1 : /\ ix \in 1 .. n /\ ix + 1 \in 1 .. n
                             /\ ix <= p => ix # p + 1
                             /\ ~(ix <= p) => ix + 1 # p + 1
  BY <1>1, <1>5
<1>7. ws \in Seq(W)
  <2>1. \A ix \in 1 .. n - 1 : ws[ix] \in W
    BY <1>1, <1>4, <1>5, <1>6, ZenonT(60)
  <2> QED BY <1>3, <1>4, <2>1
<1>8. \A ix, jx \in 1 .. Len(ws) : ws[ix] = ws[jx] => ix = jx
  <2> SUFFICES ASSUME NEW ix \in 1 .. n - 1, NEW jx \in 1 .. n - 1, ws[ix] = ws[jx] PROVE ix = jx
    BY <1>4
  <2> DEFINE k == IF ix <= p THEN ix ELSE ix + 1 l == IF jx <= p THEN jx ELSE jx + 1
  <2>1. ws[ix] = vs[k] /\ ws[jx] = vs[l]
    BY <1>4
  <2>2. k \in 1 .. n /\ l \in 1 .. n
    <3>1. ix \in 1 .. n /\ ix + 1 \in 1 .. n /\ jx \in 1 .. n /\ jx + 1 \in 1 .. n
      BY <1>1, <1>6
    <3>2. k \in 1 .. n
      <4>1. CASE ix <= p
        BY <3>1, <4>1
      <4>2. CASE ~(ix <= p)
        BY <3>1, <4>2
      <4> QED BY <4>1, <4>2
    <3>3. l \in 1 .. n
      <4>1. CASE jx <= p
        BY <3>1, <4>1
      <4>2. CASE ~(jx <= p)
        BY <3>1, <4>2
      <4> QED BY <4>1, <4>2
    <3> QED BY <3>2, <3>3
  <2>3. k = l
    <3> HIDE DEF k, l
    <3> QED BY <1>1, <2>1, <2>2
  <2> QED BY <1>5, <2>3
<1>9. \A y \in W : \E ix \in 1 .. Len(ws) : ws[ix] = y
  <2> SUFFICES ASSUME NEW y \in W PROVE \E ix \in 1 .. n - 1 : ws[ix] = y
    BY <1>4
  <2>1. PICK jx \in 1 .. n : vs[jx] = y
    BY <1>1
  <2>2. jx # p + 1
    BY <2>1
  <2>3. CASE jx <= p
    <3>1. jx \in 1 .. n - 1
      BY <1>1, <1>5, <2>3
    <3> QED BY <1>4, <2>1, <2>3, <3>1
  <2>4. CASE p + 1 < jx
    <3> DEFINE ix == jx - 1
    <3>1. ix \in 1 .. n - 1 /\ ix + 1 = jx /\ ~(ix <= p)
      BY <1>1, <1>5, <2>4
    <3> HIDE DEF ix
    <3> QED BY <1>4, <2>1, <3>1
  <2> QED BY <1>5, <2>2, <2>3, <2>4
<1>10. Holds(ws, W)
  BY <1>7, <1>8, <1>9, HoldsBy
<1>11. \A q \in 0 .. n - 2 : ws[q + 1] = IF q < p THEN vs[q + 1] ELSE vs[q + 2]
  <2> TAKE q \in 0 .. n - 2
  <2>1. q + 1 \in 1 .. n - 1 /\ (q + 1) + 1 = q + 2 /\ (q + 1 <= p <=> q < p)
    BY <1>1, <1>5
  <2> QED BY <1>4, <2>1
<1> QED BY <1>4, <1>10, <1>11 DEF ws, n

\* lower_bound in a sorted row: what is below q is in front of it.
LEMMA BelowIs ==
  ASSUME NEW line \in Seq(Nat), Rising(line), NEW q \in Nat
  PROVE  /\ Below(line, q) \in Nat /\ Below(line, q) <= Len(line)
         /\ \A ix \in 1 .. Len(line) : line[ix] < q <=> ix <= Below(line, q)
<1>1. line \in Seq(Int) /\ q \in Int
  OBVIOUS
<1>2. \A ix, jx \in 1 .. Len(line) : ix <= jx => line[ix] <= line[jx]
  BY DEF Rising
<1> DEFINE k == Cardinality({ix \in DOMAIN line : line[ix] < q})
<1>3. /\ k \in Nat /\ k <= Len(line)
      /\ \A ix \in 1 .. Len(line) : line[ix] < q <=> ix <= k
  BY <1>1, <1>2, LowerBoundIs
<1> QED BY <1>3 DEF Below

LEMMA BelowFinds ==
  ASSUME NEW line \in Seq(Nat), Rising(line), NEW q \in Nat, NEW ix \in 1 .. Len(line), line[ix] = q
  PROVE  /\ Below(line, q) < Len(line)
         /\ Below(line, q) + 1 \in 1 .. Len(line)
         /\ line[Below(line, q) + 1] = q
<1> DEFINE k == Below(line, q) n == Len(line)
<1>1. n \in Nat /\ \A jx \in 1 .. n : line[jx] \in Nat
  OBVIOUS
<1>2. /\ k \in Nat /\ k <= n
      /\ \A jx \in 1 .. n : line[jx] < q <=> jx <= k
  BY BelowIs
<1> HIDE DEF k, n
<1>3. ~(ix <= k)
  BY <1>1, <1>2 DEF n
<1>4. k + 1 \in 1 .. n /\ k + 1 <= ix /\ ~(k + 1 <= k) /\ ix \in 1 .. n
  BY <1>1, <1>2, <1>3 DEF n
<1>5. line[k + 1] <= line[ix]
  BY <1>4 DEF Rising, n
<1>6. ~(line[k + 1] < q)
  BY <1>2, <1>4
<1>7. line[k + 1] \in Nat
  BY <1>1, <1>4
<1>8. line[k + 1] = q
  BY <1>5, <1>6, <1>7
<1>9. k < n
  BY <1>1, <1>2, <1>4
<1> QED BY <1>4, <1>8, <1>9 DEF k, n

LEMMA RisingInserted ==
  ASSUME NEW line \in Seq(Nat), Rising(line), NEW q \in Nat
  PROVE  Rising(Inserted(line, Below(line, q), q))
<1> DEFINE k == Below(line, q) n == Len(line) t == Inserted(line, k, q)
<1>1. n \in Nat /\ \A jx \in 1 .. n : line[jx] \in Nat
  OBVIOUS
<1>2. /\ k \in Nat /\ k <= n
      /\ \A jx \in 1 .. n : line[jx] < q <=> jx <= k
  BY BelowIs
<1>3. IsInserted(t, line, k, q)
  <2> HIDE DEF k
  <2> QED BY <1>2, InsertAtIs
<1> DEFINE J == (k + 2) .. (n + 1)
<1>4. /\ Len(t) = n + 1
      /\ \A jx \in 1 .. k : t[jx] = line[jx]
      /\ t[k + 1] = q
      /\ \A jx \in J : t[jx] = line[jx - 1]
  BY <1>3 DEF IsInserted
<1>5. \A ix, jx \in 1 .. n : ix <= jx => line[ix] <= line[jx]
  BY DEF Rising
<1> HIDE DEF k, n, t, J
<1>6. ASSUME NEW ix \in 1 .. n + 1, NEW jx \in 1 .. n + 1, ix < jx PROVE t[ix] <= t[jx]
  <2>1. CASE jx <= k
    <3>1. ix \in 1 .. k /\ jx \in 1 .. k /\ ix \in 1 .. n /\ jx \in 1 .. n /\ ix <= jx
      BY <1>1, <1>2, <1>6, <2>1
    <3>2. t[ix] = line[ix] /\ t[jx] = line[jx]
      BY <1>4, <3>1
    <3>3. line[ix] <= line[jx]
      BY <1>5, <3>1
    <3> QED BY <3>2, <3>3
  <2>2. CASE jx = k + 1
    <3>1. ix \in 1 .. k /\ ix \in 1 .. n /\ ix <= k
      BY <1>1, <1>2, <1>6, <2>2
    <3>2. t[ix] = line[ix] /\ t[jx] = q
      BY <1>4, <2>2, <3>1
    <3>3. line[ix] < q /\ line[ix] \in Nat
      BY <1>1, <1>2, <3>1
    <3> QED BY <3>2, <3>3
  <2>3. CASE jx >= k + 2
    <3> DEFINE l == jx - 1
    <3>1. jx \in J /\ l \in 1 .. n /\ l > k
      BY <1>1, <1>2, <1>6, <2>3 DEF J
    <3>2. t[jx] = line[l]
      BY <1>4, <3>1
    <3>3. ~(line[l] < q) /\ line[l] \in Nat
      BY <1>1, <1>2, <3>1
    <3>4. CASE ix <= k
      <4>1. ix \in 1 .. k /\ ix \in 1 .. n /\ ix <= l
        BY <1>1, <1>2, <1>6, <2>3, <3>4
      <4>2. t[ix] = line[ix] /\ line[ix] <= line[l]
        BY <1>4, <1>5, <3>1, <4>1
      <4> QED BY <3>2, <4>2
    <3>5. CASE ix = k + 1
      <4>1. t[ix] = q
        BY <1>4, <3>5
      <4> QED BY <3>2, <3>3, <4>1
    <3>6. CASE ix >= k + 2
      <4> DEFINE m == ix - 1
      <4>1. ix \in J /\ m \in 1 .. n /\ m <= l
        BY <1>1, <1>2, <1>6, <2>3, <3>6 DEF J
      <4>2. t[ix] = line[m]
        BY <1>4, <4>1
      <4>3. line[m] <= line[l]
        <5> HIDE DEF l, m
        <5> QED BY <1>5, <3>1, <4>1
      <4> QED BY <3>2, <4>2, <4>3
    <3> QED BY <1>2, <3>4, <3>5, <3>6
  <2> QED BY <1>2, <2>1, <2>2, <2>3
<1>7. \A ix \in 1 .. n + 1 : t[ix] \in Nat
  <2>1. t \in Seq(Nat)
    <3>1. k <= Len(line)
      BY <1>2 DEF n
    <3> QED BY <1>2, <3>1, InsertAtIs DEF t
  <2> QED BY <1>4, <2>1
<1>8. \A ix, jx \in 1 .. n + 1 : ix <= jx => t[ix] <= t[jx]
  <2> TAKE ix, jx \in 1 .. n + 1
  <2>1. CASE ix = jx
    BY <1>7, <2>1
  <2>2. CASE ix < jx
    BY <1>6, <2>2
  <2> QED BY <1>1, <2>1, <2>2
<1> QED BY <1>4, <1>8 DEF Rising, t, k

LEMMA RisingRemoved ==
  ASSUME NEW line \in Seq(Nat), Rising(line), NEW k \in Nat, k < Len(line)
  PROVE  Rising(Removed(line, k))
<1> DEFINE n == Len(line) t == Removed(line, k) J == (k + 1) .. (n - 1)
<1>1. n \in Nat /\ k < n
  OBVIOUS
<1>2. IsRemoved(t, line, k)
  BY RemoveAtIs
<1>3. /\ Len(t) = n - 1
      /\ \A jx \in 1 .. k : t[jx] = line[jx]
      /\ \A jx \in J : t[jx] = line[jx + 1]
  BY <1>2 DEF IsRemoved
<1>4. \A ix, jx \in 1 .. n : ix <= jx => line[ix] <= line[jx]
  BY DEF Rising
<1> HIDE DEF n, t, J
<1>5. ASSUME NEW ix \in 1 .. n - 1, NEW jx \in 1 .. n - 1, ix <= jx PROVE t[ix] <= t[jx]
  <2>1. CASE jx <= k
    <3>1. ix \in 1 .. k /\ jx \in 1 .. k /\ ix \in 1 .. n /\ jx \in 1 .. n
      BY <1>1, <1>5, <2>1
    <3>2. t[ix] = line[ix] /\ t[jx] = line[jx]
      BY <1>3, <3>1
    <3> QED BY <1>4, <1>5, <3>1, <3>2
  <2>2. CASE ix <= k /\ jx > k
    <3> DEFINE l == jx + 1
    <3>1. ix \in 1 .. k /\ ix \in 1 .. n /\ jx \in J /\ l \in 1 .. n /\ ix <= l
      BY <1>1, <1>5, <2>2 DEF J
    <3>2. t[ix] = line[ix] /\ t[jx] = line[l]
      BY <1>3, <3>1
    <3>3. line[ix] <= line[l]
      <4> HIDE DEF l
      <4> QED BY <1>4, <3>1
    <3> QED BY <3>2, <3>3
  <2>3. CASE ix > k
    <3> DEFINE l == jx + 1 m == ix + 1
    <3>1. ix \in J /\ m \in 1 .. n /\ jx \in J /\ l \in 1 .. n /\ m <= l
      BY <1>1, <1>5, <2>3 DEF J
    <3>2. t[ix] = line[m] /\ t[jx] = line[l]
      BY <1>3, <3>1
    <3>3. line[m] <= line[l]
      <4> HIDE DEF l, m
      <4> QED BY <1>4, <3>1
    <3> QED BY <3>2, <3>3
  <2> QED BY <1>1, <2>1, <2>2, <2>3
<1> QED BY <1>3, <1>5 DEF Rising, t

\* The arrays hold the vertices D and their rows R, each of them sorted.
HasRows(rp, ci, vs, D, R) ==
  /\ Holds(vs, D)
  /\ Laid(rp, ci, Len(vs), R)
  /\ \A p \in 0 .. Len(vs) - 1 : Rising(R[p])

LEMMA HasRowsIs ==
  ASSUME NEW rp, NEW ci, NEW vs, NEW D, NEW R, HasRows(rp, ci, vs, D, R)
  PROVE  /\ Len(vs) \in Nat
         /\ \A p \in 0 .. Len(vs) - 1 : /\ R[p] \in Seq(Nat) /\ Rising(R[p])
                                        /\ RowAt(rp, ci, p) = R[p]
<1> DEFINE n == Len(vs)
<1>1. Laid(rp, ci, n, R) /\ \A p \in 0 .. n - 1 : Rising(R[p])
  BY DEF HasRows
<1> HIDE DEF n
<1>2. \A p \in 0 .. n - 1 : RowAt(rp, ci, p) = R[p]
  BY <1>1, LaidRow
<1>3. n \in Nat /\ \A p \in 0 .. n - 1 : R[p] \in Seq(Nat)
  BY <1>1, LaidIs
<1> QED BY <1>1, <1>2, <1>3 DEF n

LEMMA HasRowsInitially == HasRows(<<0>>, <<>>, <<>>, {}, [q \in 0 .. 0 - 1 |-> <<>>])
<1>1. Len(<<>>) = 0
  OBVIOUS
<1>2. Holds(<<>>, {})
  BY DEF Holds, IsInjective, Range
<1> QED BY <1>1, <1>2, EmptyLaid DEF HasRows

LEMMA HasRowsAppends ==
  ASSUME NEW rp, NEW ci, NEW vs, NEW D, NEW R, HasRows(rp, ci, vs, D, R),
         NEW x, x \notin D, NEW W, W = D \cup {x},
         NEW rp2, NEW ci2, NEW vs2, Appends(rp, ci, vs, rp2, ci2, vs2, x)
  PROVE  HasRows(rp2, ci2, vs2, W, [q \in 0 .. Len(vs) |-> IF q = Len(vs) THEN <<>> ELSE R[q]])
<1> DEFINE n == Len(vs) R2 == [q \in 0 .. n |-> IF q = n THEN <<>> ELSE R[q]]
<1>1. Holds(vs, D) /\ Laid(rp, ci, n, R) /\ n \in Nat /\ \A p \in 0 .. n - 1 : Rising(R[p])
  BY HasRowsIs DEF HasRows
<1>2. vs2 = Append(vs, x) /\ rp2 = Append(rp, rp[Len(rp)]) /\ ci2 = ci
  BY DEF Appends
<1>3. Holds(vs2, W)
  BY <1>1, <1>2, HoldsAppended
<1>4. Len(vs2) = n + 1
  <2>1. vs \in Seq(D)
    BY <1>1 DEF Holds
  <2>2. vs \in Seq(W) /\ x \in W
    BY <2>1
  <2> QED BY <1>2, <2>2
<1> HIDE DEF n
<1>5. Laid(rp2, ci2, n + 1, R2)
  BY <1>1, <1>2, AppendLaid
<1>6. \A p \in 0 .. (n + 1) - 1 : Rising(R2[p])
  <2> TAKE p \in 0 .. (n + 1) - 1
  <2>1. CASE p = n
    <3>1. R2[p] = <<>>
      BY <1>1, <2>1
    <3> QED BY <3>1 DEF Rising
  <2>2. CASE p \in 0 .. n - 1
    <3>1. R2[p] = R[p]
      BY <1>1, <2>2
    <3> QED BY <1>1, <2>2, <3>1
  <2> QED BY <1>1, <2>1, <2>2
<1> HIDE DEF R2
<1>7. HasRows(rp2, ci2, vs2, W, R2)
  BY <1>3, <1>4, <1>5, <1>6 DEF HasRows
<1> QED BY <1>7 DEF R2, n

LEMMA PutRising ==
  ASSUME NEW n \in Nat, NEW R, R \in [0 .. n - 1 -> Seq(Nat)], \A q \in 0 .. n - 1 : Rising(R[q]),
         NEW p, NEW r, Rising(r)
  PROVE  \A q \in 0 .. n - 1 : Rising(Put(R, p, r)[q])
BY DEF Put

LEMMA HasRowsConnects ==
  ASSUME NEW rp, NEW ci, NEW vs, NEW D, NEW R, HasRows(rp, ci, vs, D, R),
         NEW p \in 0 .. Len(vs) - 1, NEW q \in 0 .. Len(vs) - 1,
         NEW rp2, NEW ci2, NEW vs2, Connects(rp, ci, vs, rp2, ci2, vs2, p, q)
  PROVE  HasRows(rp2, ci2, vs2, D, Put(R, p, Inserted(R[p], Below(R[p], q), q)))
<1> DEFINE n == Len(vs) line == R[p] k == Below(line, q) r == Inserted(line, k, q) R2 == Put(R, p, r)
<1>1. Holds(vs, D) /\ Laid(rp, ci, n, R) /\ n \in Nat /\ \A ix \in 0 .. n - 1 : Rising(R[ix])
  BY HasRowsIs DEF HasRows
<1>2. line \in Seq(Nat) /\ Rising(line) /\ RowAt(rp, ci, p) = line /\ q \in Nat
  BY HasRowsIs
<1>3. rp2 = Shift(rp, p, 1) /\ ci2 = Inserted(ci, rp[p + 1] + k, q) /\ vs2 = vs
  BY <1>2 DEF Connects
<1>4. k \in Nat /\ k <= Len(line)
  <2> HIDE DEF line
  <2> QED BY <1>2, BelowIs
<1>5. Rising(r)
  <2> HIDE DEF line
  <2> QED BY <1>2, RisingInserted
<1>6. p \in 0 .. n - 1
  OBVIOUS
<1> HIDE DEF n, k
<1>7. Laid(rp2, ci2, n, R2)
  BY <1>1, <1>2, <1>3, <1>4, <1>6, InsertLaid
<1>8. R \in [0 .. n - 1 -> Seq(Nat)]
  BY <1>1 DEF Laid
<1> HIDE DEF r
<1>9. \A ix \in 0 .. n - 1 : Rising(R2[ix])
  BY <1>1, <1>5, <1>8, PutRising
<1>10. HasRows(rp2, ci2, vs2, D, R2)
  BY <1>1, <1>3, <1>7, <1>9 DEF HasRows, n
<1> QED BY <1>10 DEF r, k

LEMMA HasRowsDisconnects ==
  ASSUME NEW rp, NEW ci, NEW vs, NEW D, NEW R, HasRows(rp, ci, vs, D, R),
         NEW p \in 0 .. Len(vs) - 1, NEW q \in 0 .. Len(vs) - 1,
         NEW ix \in 1 .. Len(R[p]), R[p][ix] = q,
         NEW rp2, NEW ci2, NEW vs2, Disconnects(rp, ci, vs, rp2, ci2, vs2, p, q)
  PROVE  /\ HasRows(rp2, ci2, vs2, D, Put(R, p, Removed(R[p], Below(R[p], q))))
         /\ Below(R[p], q) \in Nat /\ Below(R[p], q) < Len(R[p]) /\ R[p][Below(R[p], q) + 1] = q
<1> DEFINE n == Len(vs) line == R[p] k == Below(line, q) r == Removed(line, k) R2 == Put(R, p, r)
<1>1. Holds(vs, D) /\ Laid(rp, ci, n, R) /\ n \in Nat /\ \A jx \in 0 .. n - 1 : Rising(R[jx])
  BY HasRowsIs DEF HasRows
<1>2. line \in Seq(Nat) /\ Rising(line) /\ RowAt(rp, ci, p) = line /\ q \in Nat
  BY HasRowsIs
<1>3. rp2 = Shift(rp, p, -1) /\ ci2 = Removed(ci, rp[p + 1] + k) /\ vs2 = vs
  BY <1>2 DEF Disconnects
<1>4. k \in Nat /\ k < Len(line) /\ line[k + 1] = q
  <2>1. ix \in 1 .. Len(line) /\ line[ix] = q
    OBVIOUS
  <2> HIDE DEF line
  <2> QED BY <1>2, <2>1, BelowIs, BelowFinds
<1>5. Rising(r)
  <2> HIDE DEF line, k
  <2> QED BY <1>2, <1>4, RisingRemoved
<1>6. p \in 0 .. n - 1
  OBVIOUS
<1> HIDE DEF n, k
<1>7. Laid(rp2, ci2, n, R2)
  BY <1>1, <1>3, <1>4, <1>6, RemoveLaid
<1>8. R \in [0 .. n - 1 -> Seq(Nat)]
  BY <1>1 DEF Laid
<1> HIDE DEF r
<1>9. \A jx \in 0 .. n - 1 : Rising(R2[jx])
  BY <1>1, <1>5, <1>8, PutRising
<1>10. HasRows(rp2, ci2, vs2, D, R2)
  BY <1>1, <1>3, <1>7, <1>9 DEF HasRows, n
<1> QED BY <1>4, <1>10 DEF r, k

LEMMA HasRowsDrops ==
  ASSUME NEW rp, NEW ci, NEW vs, NEW D, NEW R, HasRows(rp, ci, vs, D, R),
         NEW p \in 0 .. Len(vs) - 1, NEW W, W = D \ {vs[p + 1]},
         NEW rp2, NEW ci2, NEW vs2, Drops(rp, ci, vs, rp2, ci2, vs2, p)
  PROVE  HasRows(rp2, ci2, vs2, W, [q \in 0 .. Len(vs) - 2 |-> IF q < p THEN R[q] ELSE R[q + 1]])
<1> DEFINE n == Len(vs) R2 == [q \in 0 .. n - 2 |-> IF q < p THEN R[q] ELSE R[q + 1]]
<1>1. Holds(vs, D) /\ Laid(rp, ci, n, R) /\ n \in Nat /\ \A ix \in 0 .. n - 1 : Rising(R[ix])
  BY HasRowsIs DEF HasRows
<1>2. /\ rp2 = Removed(Shift(rp, p, rp[p + 1] - rp[p + 2]), p)
      /\ ci2 = Cut(ci, rp[p + 1], rp[p + 2])
      /\ vs2 = Removed(vs, p)
  BY DEF Drops
<1>3. Holds(vs2, W) /\ Len(vs2) = n - 1
  BY <1>1, <1>2, HoldsRemoved
<1>4. p \in 0 .. n - 1
  OBVIOUS
<1> HIDE DEF n
<1>5. Laid(rp2, ci2, n - 1, R2)
  BY <1>1, <1>2, <1>4, DropLaid
<1>6. \A q \in 0 .. (n - 1) - 1 : Rising(R2[q])
  <2> TAKE q \in 0 .. (n - 1) - 1
  <2>1. q \in 0 .. n - 2 /\ q \in 0 .. n - 1 /\ q + 1 \in 0 .. n - 1
    BY <1>1
  <2>2. R2[q] = R[q] \/ R2[q] = R[q + 1]
    BY <2>1
  <2> HIDE DEF R2
  <2> QED BY <1>1, <2>1, <2>2
<1> HIDE DEF R2
<1>7. HasRows(rp2, ci2, vs2, W, R2)
  BY <1>3, <1>5, <1>6 DEF HasRows
<1> QED BY <1>7 DEF R2, n

\* The constructor from an adjacency list.
RowsOf(adj, vs) == [n \in DOMAIN vs |-> BuiltRow(adj, vs, vs[n])]
BuiltPtrs(adj, vs) == [n \in 1 .. Len(vs) + 1 |-> Len(Joining(RowsOf(adj, vs))[n - 1])]
BuiltIndices(adj, vs) == Joining(RowsOf(adj, vs))[Len(vs)]

Builds(adj, rp2, ci2, vs2) ==
  /\ vs2 = Ascending(DOMAIN adj)
  /\ rp2 = BuiltPtrs(adj, vs2)
  /\ ci2 = BuiltIndices(adj, vs2)

LEMMA RowOfIs ==
  \A adj, vs, x : CSR!RowOf(adj, vs, x) = BuiltRow(adj, vs, x)
BY DEF CSR!RowOf, BuiltRow, CSR!SelectInSeq, Find, SelectInSeq, CSR!Min, Min,
       CSR!Sorted, Sorted, CSR!Cardinality, Cardinality

LEMMA FromAdjacencyListIs ==
  ASSUME NEW adj, NEW vs, vs = Ascending(DOMAIN adj)
  PROVE  CSR!FromAdjacencyList(adj) =
           [row_ptrs |-> BuiltPtrs(adj, vs), column_indices |-> BuiltIndices(adj, vs), values |-> vs]
<1>1. CSR!Ascending(DOMAIN adj) = vs
  BY ContainersRows
<1>2. [n \in DOMAIN vs |-> CSR!RowOf(adj, vs, vs[n])] = RowsOf(adj, vs)
  BY RowOfIs DEF RowsOf
<1>3. CSR!Joining(RowsOf(adj, vs)) = Joining(RowsOf(adj, vs))
  BY ContainersRows
<1> QED BY <1>1, <1>2, <1>3 DEF CSR!FromAdjacencyList, BuiltPtrs, BuiltIndices

LEMMA CSRBuilds ==
  ASSUME CSR!Construct(adj_list')
  PROVE  Builds(adj_list', row_ptrs', column_indices', values')
BY FromAdjacencyListIs DEF CSR!Construct, Builds

BuiltRows(adj, vs) == [p \in 0 .. Len(vs) - 1 |-> BuiltRow(adj, vs, vs[p + 1])]

LEMMA HasRowsBuilt ==
  ASSUME NEW D, D \subseteq Int, IsFiniteSet(D), NEW adj, DOMAIN adj = D,
         \A x \in D : adj[x] \in Seq(D),
         NEW rp, NEW ci, NEW vs, Builds(adj, rp, ci, vs)
  PROVE  /\ HasRows(rp, ci, vs, D, BuiltRows(adj, vs))
         /\ \A p \in 0 .. Len(vs) - 1 : IsBuilt(adj, vs, vs[p + 1])
<1> DEFINE n == Len(vs) rows == RowsOf(adj, vs) J == Joining(rows)
           R == [p \in 0 .. n - 1 |-> BuiltRow(adj, vs, vs[p + 1])]
<1>1. vs = Ascending(D) /\ rp = BuiltPtrs(adj, vs) /\ ci = BuiltIndices(adj, vs)
  BY DEF Builds
<1>2. /\ Cardinality(D) \in Nat /\ vs \in Bijection(1 .. Cardinality(D), D)
      /\ \A jx, k \in 1 .. Cardinality(D) : jx < k => vs[jx] < vs[k]
  BY <1>1, AscendingIs, FS_CardinalityType
<1>3. /\ vs \in Seq(D) /\ n = Cardinality(D) /\ n \in Nat
      /\ \A jx, k \in 1 .. n : jx < k => vs[jx] < vs[k]
  <2>1. vs \in [1 .. Cardinality(D) -> D]
    BY <1>2 DEF Bijection, Injection, IsInjective, Surjection
  <2> QED BY <1>2, <2>1
<1>4. \A ix, jx \in 1 .. n : vs[ix] = vs[jx] => ix = jx
  BY <1>2, <1>3 DEF Bijection, Injection, IsInjective
<1>5. \A x \in D : \E ix \in 1 .. n : vs[ix] = x
  BY <1>2, <1>3 DEF Bijection, Surjection
<1>6. Holds(vs, D)
  BY <1>3, <1>4, <1>5, HoldsBy
<1>7. IsInjective(vs) /\ Range(vs) = D
  BY <1>6 DEF Holds
<1>8. \A p \in 0 .. n - 1 : p + 1 \in 1 .. n /\ vs[p + 1] \in D
  BY <1>3
<1>9. ASSUME NEW x \in D
      PROVE  IsBuilt(adj, vs, x)
  <2>1. adj[x] \in Seq(D)
    OBVIOUS
  <2>2. vs \in Seq(D) /\ \A jx, k \in 1 .. Len(vs) : jx < k => vs[jx] < vs[k]
    BY <1>3
  <2>3. IsBuilt(adj, vs, x)
    BY <1>7, <2>1, <2>2, BuiltRowIs
  <2> QED BY <2>3
<1>10. Len(rows) = n /\ rows \in Seq(Seq(Nat)) /\ \A ix \in 1 .. n : rows[ix] = BuiltRow(adj, vs, vs[ix])
  <2>1. DOMAIN vs = 1 .. n
    BY <1>3
  <2>2. \A ix \in 1 .. n : BuiltRow(adj, vs, vs[ix]) \in Seq(Nat)
    <3> TAKE ix \in 1 .. n
    <3>1. vs[ix] \in D
      BY <1>3
    <3>2. BuiltRow(adj, vs, vs[ix]) \in Seq(0 .. n - 1)
      BY <1>9, <3>1 DEF IsBuilt
    <3> QED BY <1>3, <3>2
  <2>3. rows = [ix \in 1 .. n |-> BuiltRow(adj, vs, vs[ix])]
    BY <2>1 DEF RowsOf
  <2> HIDE DEF n, rows
  <2>4. rows \in [1 .. n -> Seq(Nat)]
    BY <2>2, <2>3 DEF n
  <2>5. n \in Nat
    BY <1>3 DEF n
  <2>6. Len(rows) = n
    BY <2>4, <2>5
  <2>7. rows \in Seq(Seq(Nat))
    BY <2>4, <2>5
  <2>8. \A ix \in 1 .. n : rows[ix] = BuiltRow(adj, vs, vs[ix])
    BY <2>3
  <2> QED BY <2>6, <2>7, <2>8
<1> HIDE DEF n, rows
<1>11. Joins(J, rows, Nat)
  BY <1>10, JoiningIs
<1>12. rp = [ix \in 1 .. n + 1 |-> Len(J[ix - 1])] /\ ci = J[n]
  BY <1>1 DEF BuiltPtrs, BuiltIndices, n, rows
<1> HIDE DEF J
<1>13. Laid(rp, ci, n, [p \in 0 .. n - 1 |-> rows[p + 1]])
  BY <1>10, <1>11, <1>12, JoinLaid
<1>14. [p \in 0 .. n - 1 |-> rows[p + 1]] = R
  BY <1>8, <1>10
<1>15. \A p \in 0 .. n - 1 : Rising(R[p])
  BY <1>8, <1>9 DEF IsBuilt
<1> HIDE DEF R
<1>16. HasRows(rp, ci, vs, D, R)
  BY <1>6, <1>13, <1>14, <1>15 DEF HasRows, n
<1>17. \A p \in 0 .. n - 1 : IsBuilt(adj, vs, vs[p + 1])
  BY <1>8, <1>9
<1> QED BY <1>16, <1>17 DEF R, n, BuiltRows

\* GraphCSR has the vertices of the adjacency list, and sorted rows.
CSRInv ==
  /\ IsFiniteSet(AdjVertices)
  /\ \E R : HasRows(row_ptrs, column_indices, values, AdjVertices, R)

LEMMA CSRInitially ==
  ASSUME ContainersInit
  PROVE  CSRInv
<1>1. AdjVertices = {}
  BY AdjInitially DEF ContainersInit, AdjGraph!Init, AdjVertices
<1>2. row_ptrs = <<0>> /\ column_indices = <<>> /\ values = <<>>
  BY DEF ContainersInit, CSR!Init
<1> QED BY <1>1, <1>2, HasRowsInitially, FS_EmptySet DEF CSRInv

LEMMA CSRAfterAppend ==
  ASSUME AdjInv, CSRInv, NEW x \in T, add_vertex(x)
  PROVE  CSRInv'
<1>1. /\ x \notin AdjVertices /\ Adj!add_vertex(x) /\ CSR!add_vertex(x)
  BY DEF add_vertex, AdjVertices
<1>2. AdjVertices' = AdjVertices \cup {x}
  BY <1>1, AdjVerticesNext
<1>3. IsFiniteSet(AdjVertices')
  BY <1>2, FS_AddElement DEF CSRInv
<1>4. PICK R : HasRows(row_ptrs, column_indices, values, AdjVertices, R)
  BY DEF CSRInv
<1>5. Appends(row_ptrs, column_indices, values, row_ptrs', column_indices', values', x)
  BY <1>1, CSRAdds
<1> DEFINE R2 == [q \in 0 .. Len(values) |-> IF q = Len(values) THEN <<>> ELSE R[q]]
<1>6. HasRows(row_ptrs', column_indices', values', AdjVertices', R2)
  BY <1>1, <1>2, <1>4, <1>5, HasRowsAppends
<1> QED BY <1>3, <1>6 DEF CSRInv

LEMMA CSRAfterSame ==
  ASSUME CSRInv, Unchanged, AdjVertices' = AdjVertices
  PROVE  CSRInv'
BY DEF CSRInv, Unchanged, Same

LEMMA CSRAfterConnect ==
  ASSUME AdjInv, CSRInv, NEW x \in T, NEW y \in T, add_edge(x, y)
  PROVE  CSRInv'
<1>1. /\ x \in AdjVertices /\ y \in AdjVertices
      /\ Adj!add_edge(x, y) /\ CSR!add_edge(x, y)
  BY DEF add_edge, AdjVertices
<1>2. AdjVertices' = AdjVertices
  BY <1>1, AdjVerticesNext
<1>4. PICK R : HasRows(row_ptrs, column_indices, values, AdjVertices, R)
  BY DEF CSRInv
<1> DEFINE p == Position(values, x) q == Position(values, y)
<1>5. p \in 0 .. Len(values) - 1 /\ q \in 0 .. Len(values) - 1 /\ Len(values) \in Nat
  BY <1>1, <1>4, PositionIs, HasRowsIs DEF HasRows
<1>6. p # Len(values) /\ q # Len(values)
  BY <1>5
<1>7. Connects(row_ptrs, column_indices, values, row_ptrs', column_indices', values', p, q)
  BY <1>1, <1>6, CSRConnects
<1> HIDE DEF p, q
<1>8. HasRows(row_ptrs', column_indices', values', AdjVertices, Put(R, p, Inserted(R[p], Below(R[p], q), q)))
  BY <1>4, <1>5, <1>7, HasRowsConnects
<1> QED BY <1>2, <1>8 DEF CSRInv

\* What the two binary searches of adjacent find.
LEMMA AdjacentIs ==
  ASSUME NEW rp, NEW ci, NEW vs, NEW D, NEW R, HasRows(rp, ci, vs, D, R), NEW x, NEW y
  PROVE  Adjacent(rp, ci, vs, x, y) <=>
           /\ x \in D /\ y \in D
           /\ \E ix \in 1 .. Len(R[Position(vs, x)]) : R[Position(vs, x)][ix] = Position(vs, y)
<1> DEFINE n == Len(vs) p == Position(vs, x) q == Position(vs, y)
<1>1. Holds(vs, D) /\ n \in Nat
  BY HasRowsIs DEF HasRows
<1>2. /\ p # n <=> x \in D
      /\ q # n <=> y \in D
      /\ x \in D => p \in 0 .. n - 1
  <2>1. \A z : z \in D => Position(vs, z) \in 0 .. n - 1
    BY <1>1, PositionIs
  <2>2. \A z : z \notin D => Position(vs, z) = n
    BY <1>1, PositionIs
  <2>3. n \notin 0 .. n - 1
    BY <1>1
  <2> QED BY <2>1, <2>2, <2>3
<1> HIDE DEF p, n
<1>3. x \in D => RowAt(rp, ci, p) = R[p] /\ DOMAIN R[p] = 1 .. Len(R[p])
  <2> SUFFICES ASSUME x \in D PROVE RowAt(rp, ci, p) = R[p] /\ DOMAIN R[p] = 1 .. Len(R[p])
    OBVIOUS
  <2>1. RowAt(rp, ci, p) = R[p] /\ R[p] \in Seq(Nat)
    BY <1>2, HasRowsIs DEF n
  <2> QED BY <2>1
<1> QED BY <1>2, <1>3 DEF Adjacent, p, n

LEMMA CSRAfterDisconnect ==
  ASSUME AdjInv, CSRInv, NEW x \in T, NEW y \in T, remove_edge(x, y)
  PROVE  CSRInv'
<1>1. /\ x \in AdjVertices /\ Adj!remove_edge(x, y) /\ CSR!remove_edge(x, y)
  BY DEF remove_edge, AdjVertices
<1>2. AdjVertices' = AdjVertices
  BY <1>1, AdjVerticesNext
<1>3. CASE ~Adjacent(row_ptrs, column_indices, values, x, y)
  BY <1>1, <1>2, <1>3, CSRDisconnects, CSRAfterSame
<1>4. CASE Adjacent(row_ptrs, column_indices, values, x, y)
  <2>1. PICK R : HasRows(row_ptrs, column_indices, values, AdjVertices, R)
    BY DEF CSRInv
  <2> DEFINE p == Position(values, x) q == Position(values, y)
  <2>2. y \in AdjVertices /\ \E ix \in 1 .. Len(R[p]) : R[p][ix] = q
    BY <1>4, <2>1, AdjacentIs
  <2>3. PICK ix \in 1 .. Len(R[p]) : R[p][ix] = q
    BY <2>2
  <2>4. p \in 0 .. Len(values) - 1 /\ q \in 0 .. Len(values) - 1
    BY <1>1, <2>1, <2>2, PositionIs DEF HasRows
  <2>5. Disconnects(row_ptrs, column_indices, values, row_ptrs', column_indices', values', p, q)
    BY <1>1, <1>4, CSRDisconnects
  <2> HIDE DEF p, q
  <2>6. HasRows(row_ptrs', column_indices', values', AdjVertices, Put(R, p, Removed(R[p], Below(R[p], q))))
    BY <2>1, <2>3, <2>4, <2>5, HasRowsDisconnects
  <2> QED BY <1>2, <2>6 DEF CSRInv
<1> QED BY <1>3, <1>4

LEMMA CSRAfterConstruct ==
  ASSUME T \subseteq Int, AdjInv', IsFiniteSet(AdjVertices'), CSR!Construct(adj_list')
  PROVE  CSRInv'
<1> DEFINE D == AdjVertices' adj == adj_list' rp == row_ptrs' ci == column_indices' vs == values'
<1>1. D \subseteq Int /\ IsFiniteSet(D) /\ DOMAIN adj = D /\ \A x \in D : adj[x] \in Seq(D)
  BY DEF AdjInv
<1>2. Builds(adj, rp, ci, vs)
  BY CSRBuilds
<1> HIDE DEF D, adj, rp, ci, vs
<1>3. HasRows(rp, ci, vs, D, BuiltRows(adj, vs))
  BY <1>1, <1>2, HasRowsBuilt
<1>4. \E R : HasRows(rp, ci, vs, D, R)
  BY <1>3
<1> QED BY <1>1, <1>4 DEF D, rp, ci, vs, CSRInv

LEMMA CSRAfterDrop ==
  ASSUME T \subseteq Int, AdjInv, AdjInv', CSRInv, NEW x \in T, remove_vertex(x)
  PROVE  CSRInv'
<1>1. /\ Adj!remove_vertex(x)
      /\ CSR!remove_vertex(x) \/ CSR!Construct(adj_list')
  BY DEF remove_vertex
<1>2. AdjVertices' = AdjVertices \ {x}
  BY <1>1, AdjVerticesNext
<1>3. IsFiniteSet(AdjVertices')
  BY <1>2, FS_RemoveElement DEF CSRInv
<1>4. CASE CSR!Construct(adj_list')
  BY <1>3, <1>4, CSRAfterConstruct
<1>5. CASE CSR!remove_vertex(x)
  <2>1. PICK R : HasRows(row_ptrs, column_indices, values, AdjVertices, R)
    BY DEF CSRInv
  <2> DEFINE p == Position(values, x)
  <2>2. CASE x \notin AdjVertices
    <3>1. p = Len(values)
      BY <2>1, <2>2, PositionIs DEF HasRows
    <3>2. Unchanged
      BY <1>5, <3>1, CSRDrops
    <3> QED BY <1>2, <2>2, <3>2, CSRAfterSame
  <2>3. CASE x \in AdjVertices
    <3>1. p \in 0 .. Len(values) - 1 /\ values[p + 1] = x /\ Len(values) \in Nat
      BY <2>1, <2>3, PositionIs, HasRowsIs DEF HasRows
    <3>2. p # Len(values)
      BY <3>1
    <3>3. Drops(row_ptrs, column_indices, values, row_ptrs', column_indices', values', p)
      BY <1>5, <3>2, CSRDrops
    <3>4. AdjVertices' = AdjVertices \ {values[p + 1]}
      BY <1>2, <3>1
    <3> HIDE DEF p
    <3> DEFINE R2 == [q \in 0 .. Len(values) - 2 |-> IF q < p THEN R[q] ELSE R[q + 1]]
    <3>5. HasRows(row_ptrs', column_indices', values', AdjVertices', R2)
      BY <2>1, <3>1, <3>3, <3>4, HasRowsDrops
    <3> QED BY <1>3, <3>5 DEF CSRInv
  <2> QED BY <2>2, <2>3
<1> QED BY <1>1, <1>4, <1>5

LEMMA CSRStep ==
  ASSUME T \subseteq Int, AdjInv, AdjInv', CSRInv, ContainersNext
  PROVE  CSRInv'
BY CSRAfterAppend, CSRAfterDrop, CSRAfterConnect, CSRAfterDisconnect DEF ContainersNext

LEMMA CSRShape ==
  ASSUME CSRInv
  PROVE  Shape
<1>1. PICK R : HasRows(row_ptrs, column_indices, values, AdjVertices, R)
  BY DEF CSRInv
<1> DEFINE n == Len(values)
<1>2. Laid(row_ptrs, column_indices, n, R) /\ \A p \in 0 .. n - 1 : Rising(R[p])
  BY <1>1 DEF HasRows
<1> HIDE DEF n
<1>3. /\ Len(row_ptrs) = n + 1
      /\ row_ptrs[1] = 0 /\ row_ptrs[Len(row_ptrs)] = Len(column_indices)
      /\ \A ix, jx \in DOMAIN row_ptrs : ix <= jx => row_ptrs[ix] <= row_ptrs[jx]
      /\ \A p \in 0 .. n - 1 : \A ix, jx \in 1 .. Len(RowAt(row_ptrs, column_indices, p)) :
           ix < jx => RowAt(row_ptrs, column_indices, p)[ix] <= RowAt(row_ptrs, column_indices, p)[jx]
  BY <1>2, LaidShape
<1>4. CSR!RowsTile
  BY <1>3 DEF n, CSR!RowsTile, CSR!Last, CSR!size
<1>5. CSR!RowsSorted
  BY <1>3, CSRRows DEF n, CSR!RowsSorted, CSR!IsSorted
<1> QED BY <1>4, <1>5 DEF Shape, CSR!Shape

\* The rows of GraphCSR tile column_indices_ and are sorted after any calls: an
\* insertion or removal in the middle moves the beginnings of all rows behind it,
\* and the binary searches of adjacent, add_edge and remove_edge rely on the order.
THEOREM ContainersShape == ContainersSpec => []Shape
<1>0. T \subseteq Int
  BY TAssumption
<1> USE <1>0
<1>1. ContainersInit => AdjInv /\ CSRInv
  BY AdjInitially, CSRInitially DEF ContainersInit
<1>2. AdjInv /\ CSRInv /\ [ContainersNext]_containers => AdjInv' /\ CSRInv'
  <2>1. ASSUME AdjInv, CSRInv, UNCHANGED containers PROVE AdjInv' /\ CSRInv'
    <3>1. /\ adj_list' = adj_list /\ row_ptrs' = row_ptrs /\ column_indices' = column_indices
          /\ values' = values
      BY <2>1 DEF containers, csr
    <3>2. AdjVertices' = AdjVertices
      BY <3>1 DEF AdjVertices, Adj!vertices
    <3> QED BY <2>1, <3>1, <3>2 DEF AdjInv, CSRInv
  <2> QED BY <2>1, AdjStep, CSRStep
<1> QED BY <1>1, <1>2, CSRShape, PTL DEF ContainersSpec

----------------------------------------------------------------------------
(* The multigraph of GraphCSR *)

\* Every entry of a row is the position of a vertex.
InRange(vs, R) == \A p \in 0 .. Len(vs) - 1 : R[p] \in Seq(0 .. Len(vs) - 1)

HasGraph(rp, ci, vs, D, R) == HasRows(rp, ci, vs, D, R) /\ InRange(vs, R)

\* How many edges lead from x to y.
Number(vs, D, R, x, y) ==
  IF x \in D /\ y \in D THEN Copies(R[Position(vs, x)], Position(vs, y)) ELSE 0

LEMMA Wider ==
  ASSUME NEW A, NEW B, A \subseteq B, NEW s \in Seq(A)
  PROVE  s \in Seq(B) /\ \A ix \in DOMAIN s : s[ix] \in A
OBVIOUS

LEMMA NumberIsNat ==
  ASSUME NEW rp, NEW ci, NEW vs, NEW D, NEW R, HasGraph(rp, ci, vs, D, R)
  PROVE  \A x, y : Number(vs, D, R, x, y) \in Nat
<1> SUFFICES ASSUME NEW x \in D, NEW y PROVE Copies(R[Position(vs, x)], y) \in Nat
  BY DEF Number
<1>1. Position(vs, x) \in 0 .. Len(vs) - 1
  BY PositionIs DEF HasGraph, HasRows
<1> DEFINE r == R[Position(vs, x)]
<1>2. r \in Seq(Nat)
  BY <1>1, HasRowsIs DEF HasGraph
<1> HIDE DEF r
<1>3. Copies(r, y) \in Nat
  BY <1>2, CopiesIsNat
<1> QED BY <1>3 DEF r

LEMMA LeadsCopies ==
  ASSUME NEW D, NEW vs, Holds(vs, D), NEW line \in Seq(0 .. Len(vs) - 1)
  PROVE  /\ \A q \in 0 .. Len(vs) - 1 : Copies(Leads(vs, line), vs[q + 1]) = Copies(line, q)
         /\ \A y : y \notin D => Copies(Leads(vs, line), y) = 0
<1> DEFINE n == Len(vs)
<1>1. n \in Nat /\ \A q \in 0 .. n - 1 : vs[q + 1] \in D /\ Position(vs, vs[q + 1]) = q
  BY HoldsIs, PositionIs
<1>2. \A ix \in DOMAIN line : line[ix] \in 0 .. n - 1
  OBVIOUS
<1> HIDE DEF n
<1>3. ASSUME NEW q \in 0 .. n - 1 PROVE Copies(Leads(vs, line), vs[q + 1]) = Copies(line, q)
  <2>1. \A ix \in DOMAIN line : vs[line[ix] + 1] = vs[q + 1] <=> line[ix] = q
    BY <1>1, <1>2
  <2>2. {ix \in DOMAIN line : Leads(vs, line)[ix] = vs[q + 1]} = {ix \in DOMAIN line : line[ix] = q}
    BY <2>1 DEF Leads
  <2> QED BY <2>2 DEF Copies, Leads
<1>4. ASSUME NEW y, y \notin D PROVE Copies(Leads(vs, line), y) = 0
  <2>1. {ix \in DOMAIN Leads(vs, line) : Leads(vs, line)[ix] = y} = {}
    BY <1>1, <1>2, <1>4 DEF Leads
  <2> QED BY <2>1, FS_EmptySet DEF Copies
<1> QED BY <1>3, <1>4 DEF n

LEMMA NumberIs ==
  ASSUME NEW rp, NEW ci, NEW vs, NEW D, NEW R, HasGraph(rp, ci, vs, D, R), NEW x, NEW y
  PROVE  Copies(NeighborsAt(rp, ci, vs, x), y) = Number(vs, D, R, x, y)
<1> DEFINE n == Len(vs) p == Position(vs, x) q == Position(vs, y)
<1>1. Holds(vs, D) /\ n \in Nat
  BY HasRowsIs DEF HasRows, HasGraph
<1>2. CASE x \notin D
  <2>1. p = n
    BY <1>1, <1>2, PositionIs
  <2>2. NeighborsAt(rp, ci, vs, x) = <<>>
    BY <2>1 DEF NeighborsAt, Leads
  <2>3. {ix \in DOMAIN <<>> : <<>>[ix] = y} = {}
    OBVIOUS
  <2> QED BY <1>2, <2>2, <2>3, FS_EmptySet DEF Copies, Number
<1>3. CASE x \in D
  <2>1. p \in 0 .. n - 1
    BY <1>1, <1>3, PositionIs
  <2> DEFINE line == R[p]
  <2>2. p # n /\ RowAt(rp, ci, p) = line /\ line \in Seq(0 .. Len(vs) - 1)
    BY <1>1, <2>1, HasRowsIs DEF HasGraph, InRange
  <2>3. NeighborsAt(rp, ci, vs, x) = Leads(vs, line)
    BY <2>2 DEF NeighborsAt
  <2> HIDE DEF line, p
  <2>4. CASE y \in D
    <3>1. q \in 0 .. n - 1 /\ vs[q + 1] = y
      BY <1>1, <2>4, PositionIs
    <3> HIDE DEF q
    <3>2. Copies(Leads(vs, line), vs[q + 1]) = Copies(line, q)
      BY <1>1, <2>2, <3>1, LeadsCopies
    <3> QED BY <1>3, <2>3, <2>4, <3>1, <3>2 DEF Number, p, q, line
  <2>5. CASE y \notin D
    <3>1. Copies(Leads(vs, line), y) = 0
      BY <1>1, <2>2, <2>5, LeadsCopies
    <3> QED BY <2>3, <2>5, <3>1 DEF Number
  <2> QED BY <2>4, <2>5
<1> QED BY <1>2, <1>3

LEMMA GraphAppended ==
  ASSUME NEW rp, NEW ci, NEW vs, NEW D, NEW R, HasGraph(rp, ci, vs, D, R),
         NEW x, x \notin D, NEW W, W = D \cup {x},
         NEW rp2, NEW ci2, NEW vs2, Appends(rp, ci, vs, rp2, ci2, vs2, x)
  PROVE  \E R2 : /\ HasGraph(rp2, ci2, vs2, W, R2)
                 /\ \A u, v : Number(vs2, W, R2, u, v) = Number(vs, D, R, u, v)
<1> DEFINE n == Len(vs) R2 == [q \in 0 .. n |-> IF q = n THEN <<>> ELSE R[q]]
<1>1. Holds(vs, D) /\ n \in Nat /\ HasRows(rp, ci, vs, D, R)
      /\ \A p \in 0 .. n - 1 : R[p] \in Seq(0 .. n - 1)
  BY HasRowsIs DEF HasRows, HasGraph, InRange
<1>2. HasRows(rp2, ci2, vs2, W, R2)
  BY <1>1, HasRowsAppends
<1>3. Holds(vs2, W)
  BY <1>2 DEF HasRows
<1>4. Len(vs2) = n + 1 /\ vs2[n + 1] = x /\ \A ix \in 1 .. n : vs2[ix] = vs[ix]
  <2>1. vs \in Seq(D) /\ vs2 = Append(vs, x)
    BY <1>1 DEF Holds, Appends
  <2>2. vs \in Seq(W) /\ x \in W
    BY <2>1
  <2> QED BY <2>1, <2>2
<1> HIDE DEF n
<1>5. \A u \in D : /\ Position(vs2, u) = Position(vs, u) /\ Position(vs, u) \in 0 .. n - 1
                   /\ R2[Position(vs, u)] = R[Position(vs, u)]
  <2> TAKE u \in D
  <2> DEFINE p == Position(vs, u)
  <2>1. p \in 0 .. n - 1 /\ vs[p + 1] = u
    BY <1>1, PositionIs DEF n
  <2> HIDE DEF p
  <2>2. p \in 0 .. Len(vs2) - 1 /\ vs2[p + 1] = u
    BY <1>1, <1>4, <2>1
  <2>3. Position(vs2, u) = p
    BY <1>3, <2>2, PositionIs
  <2>4. R2[p] = R[p]
    BY <1>1, <2>1
  <2> QED BY <2>1, <2>3, <2>4 DEF p
<1>6. Position(vs2, x) = n /\ R2[n] = <<>>
  <2>1. n \in 0 .. Len(vs2) - 1 /\ vs2[n + 1] = x
    BY <1>1, <1>4
  <2> QED BY <1>1, <1>3, <2>1, PositionIs
<1>7. InRange(vs2, R2)
  <2> SUFFICES ASSUME NEW p \in 0 .. n PROVE R2[p] \in Seq(0 .. n)
    BY <1>1, <1>4 DEF InRange
  <2>1. CASE p = n
    BY <1>6, <2>1
  <2>2. CASE p # n
    <3>1. p \in 0 .. n - 1 /\ 0 .. n - 1 \subseteq 0 .. n
      BY <1>1, <2>2
    <3>2. R2[p] = R[p] /\ R[p] \in Seq(0 .. n - 1)
      BY <1>1, <2>2, <3>1
    <3> DEFINE r == R[p]
    <3> HIDE DEF r
    <3>3. r \in Seq(0 .. n - 1)
      BY <3>2 DEF r
    <3>4. r \in Seq(0 .. n)
      BY <3>1, <3>3, Wider
    <3> QED BY <3>2, <3>4 DEF r
  <2> QED BY <2>1, <2>2
<1> HIDE DEF R2
<1>8. ASSUME NEW u, NEW v PROVE Number(vs2, W, R2, u, v) = Number(vs, D, R, u, v)
  <2>1. CASE u \in D /\ v \in D
    BY <1>5, <2>1 DEF Number
  <2>2. CASE u = x /\ v \in W
    <3>1. {ix \in DOMAIN <<>> : <<>>[ix] = Position(vs2, v)} = {}
      OBVIOUS
    <3>2. Copies(<<>>, Position(vs2, v)) = 0
      BY <3>1, FS_EmptySet DEF Copies
    <3> QED BY <1>6, <2>2, <3>2 DEF Number
  <2>3. CASE u \in D /\ v = x
    <3> DEFINE line == R[Position(vs, u)]
    <3>1. line \in Seq(0 .. n - 1)
      BY <1>1, <1>5, <2>3
    <3> HIDE DEF line
    <3>2. \A ix \in DOMAIN line : line[ix] \in 0 .. n - 1
      BY <3>1, Wider
    <3>3. n \notin 0 .. n - 1
      BY <1>1
    <3>4. {ix \in DOMAIN line : line[ix] = n} = {}
      BY <3>2, <3>3
    <3>5. Copies(line, n) = 0
      BY <3>4, FS_EmptySet DEF Copies
    <3> QED BY <1>5, <1>6, <2>3, <3>5 DEF Number, line
  <2>4. CASE u \notin W \/ v \notin W
    BY <2>4 DEF Number
  <2> QED BY <2>1, <2>2, <2>3, <2>4
<1>9. HasGraph(rp2, ci2, vs2, W, R2)
  BY <1>2, <1>7 DEF HasGraph, R2, n
<1> QED BY <1>8, <1>9

\* The row of one position changes.
LEMMA NumberPut ==
  ASSUME NEW vs, NEW D, Holds(vs, D), NEW R, R \in [0 .. Len(vs) - 1 -> Seq(Nat)],
         NEW x \in D, NEW y \in D, NEW r, NEW m,
         \A q \in 0 .. Len(vs) - 1 : q # Position(vs, y) => Copies(r, q) = Copies(R[Position(vs, x)], q),
         Copies(r, Position(vs, y)) = m
  PROVE  \A u, v : Number(vs, D, Put(R, Position(vs, x), r), u, v) =
                     IF u = x /\ v = y THEN m ELSE Number(vs, D, R, u, v)
<1> DEFINE n == Len(vs) p == Position(vs, x) R2 == Put(R, p, r)
<1>1. \A u \in D : Position(vs, u) \in 0 .. n - 1 /\ vs[Position(vs, u) + 1] = u
  BY PositionIs
<1>2. \A q \in 0 .. n - 1 : R2[q] = IF q = p THEN r ELSE R[q]
  BY DEF Put
<1> HIDE DEF p, R2, n
<1>3. \A u \in D : R2[Position(vs, u)] = IF u = x THEN r ELSE R[Position(vs, u)]
  <2>1. \A u \in D : Position(vs, u) = p => u = x
    BY <1>1 DEF p
  <2> QED BY <1>1, <1>2, <2>1 DEF p
<1>4. ASSUME NEW u, NEW v
      PROVE  Number(vs, D, R2, u, v) = IF u = x /\ v = y THEN m ELSE Number(vs, D, R, u, v)
  <2>1. CASE u \notin D \/ v \notin D
    BY <2>1 DEF Number
  <2>2. CASE u \in D /\ v \in D /\ u # x
    BY <1>3, <2>2 DEF Number
  <2>3. CASE u = x /\ v = y
    BY <1>3, <2>3 DEF Number
  <2>4. CASE u = x /\ v \in D /\ v # y
    <3>1. Position(vs, v) \in 0 .. n - 1 /\ Position(vs, v) # Position(vs, y)
      BY <1>1, <2>4
    <3>2. Copies(r, Position(vs, v)) = Copies(R[p], Position(vs, v))
      BY <3>1 DEF n, p
    <3> QED BY <1>3, <2>4, <3>2 DEF Number, p
  <2> QED BY <2>1, <2>2, <2>3, <2>4
<1> QED BY <1>4 DEF R2, p

LEMMA InRangePut ==
  ASSUME NEW vs, NEW R, R \in [0 .. Len(vs) - 1 -> Seq(Nat)], InRange(vs, R),
         NEW p, NEW r \in Seq(0 .. Len(vs) - 1)
  PROVE  InRange(vs, Put(R, p, r))
BY DEF InRange, Put

LEMMA GraphConnected ==
  ASSUME NEW rp, NEW ci, NEW vs, NEW D, NEW R, HasGraph(rp, ci, vs, D, R),
         NEW x \in D, NEW y \in D,
         NEW rp2, NEW ci2, NEW vs2,
         Connects(rp, ci, vs, rp2, ci2, vs2, Position(vs, x), Position(vs, y))
  PROVE  \E R2 : /\ HasGraph(rp2, ci2, vs2, D, R2)
                 /\ \A u, v : Number(vs2, D, R2, u, v) = IF u = x /\ v = y
                                                         THEN Number(vs, D, R, x, y) + 1
                                                         ELSE Number(vs, D, R, u, v)
<1> DEFINE n == Len(vs) p == Position(vs, x) q == Position(vs, y)
           line == R[p] k == Below(line, q) r == Inserted(line, k, q) R2 == Put(R, p, r)
           m == Number(vs, D, R, x, y) + 1 A == 0 .. n - 1
<1>1. Holds(vs, D) /\ n \in Nat /\ HasRows(rp, ci, vs, D, R) /\ Laid(rp, ci, n, R) /\ InRange(vs, R)
  BY HasRowsIs DEF HasRows, HasGraph
<1>2. p \in A /\ q \in A
  BY <1>1, PositionIs
<1>3. R \in [0 .. Len(vs) - 1 -> Seq(Nat)]
  BY <1>1 DEF Laid
<1>4. line \in Seq(A) /\ line \in Seq(Nat) /\ Rising(line) /\ q \in Nat
  <2>1. p \in 0 .. Len(vs) - 1
    BY <1>2
  <2> HIDE DEF p
  <2>2. R[p] \in Seq(Nat) /\ Rising(R[p])
    BY <1>1, <2>1, HasRowsIs
  <2> QED BY <1>1, <1>2, <2>2 DEF InRange
<1>5. vs2 = vs
  BY DEF Connects
<1>6. HasRows(rp2, ci2, vs2, D, R2)
  <2>1. p \in 0 .. Len(vs) - 1 /\ q \in 0 .. Len(vs) - 1
    BY <1>2
  <2>2. Connects(rp, ci, vs, rp2, ci2, vs2, p, q)
    OBVIOUS
  <2> HIDE DEF p, q
  <2> QED BY <1>1, <2>1, <2>2, HasRowsConnects
<1>7. k \in Nat /\ k <= Len(line)
  <2> HIDE DEF line, q
  <2> QED BY <1>4, BelowIs
<1>8. r \in Seq(A) /\ IsInserted(r, line, k, q)
  <2> HIDE DEF line, q, k, A
  <2> QED BY <1>2, <1>4, <1>7, InsertAtIs
<1>9. InRange(vs, R2)
  <2>1. r \in Seq(0 .. Len(vs) - 1)
    BY <1>8
  <2> HIDE DEF r, p
  <2> QED BY <1>1, <1>3, <2>1, InRangePut
<1>10. \A z : Copies(r, z) = Copies(line, z) + (IF q = z THEN 1 ELSE 0)
  BY <1>8 DEF IsInserted
<1>11. Number(vs, D, R, x, y) = Copies(line, q) /\ \A z : Copies(line, z) \in Nat
  <2>1. Number(vs, D, R, x, y) = Copies(line, q)
    BY DEF Number
  <2> HIDE DEF line
  <2>2. \A z : Copies(line, z) \in Nat
    BY <1>4, CopiesIsNat
  <2> QED BY <2>1, <2>2
<1>12. Copies(r, q) = m
  <2> HIDE DEF r, line, q
  <2> QED BY <1>10, <1>11
<1>13. \A z \in 0 .. Len(vs) - 1 : z # q => Copies(r, z) = Copies(line, z)
  <2> HIDE DEF r, line, q
  <2> QED BY <1>10, <1>11
<1> HIDE DEF r, m
<1>14. \A u, v : Number(vs, D, R2, u, v) = IF u = x /\ v = y THEN m ELSE Number(vs, D, R, u, v)
  BY <1>1, <1>3, <1>12, <1>13, NumberPut
<1>15. HasGraph(rp2, ci2, vs2, D, R2)
  BY <1>5, <1>6, <1>9 DEF HasGraph
<1> HIDE DEF R2
<1> QED BY <1>5, <1>14, <1>15 DEF m

LEMMA GraphDisconnected ==
  ASSUME NEW rp, NEW ci, NEW vs, NEW D, NEW R, HasGraph(rp, ci, vs, D, R),
         NEW x \in D, NEW y \in D,
         NEW ix \in 1 .. Len(R[Position(vs, x)]), R[Position(vs, x)][ix] = Position(vs, y),
         NEW rp2, NEW ci2, NEW vs2,
         Disconnects(rp, ci, vs, rp2, ci2, vs2, Position(vs, x), Position(vs, y))
  PROVE  \E R2 : /\ HasGraph(rp2, ci2, vs2, D, R2)
                 /\ Number(vs, D, R, x, y) > 0
                 /\ \A u, v : Number(vs2, D, R2, u, v) = IF u = x /\ v = y
                                                         THEN Number(vs, D, R, x, y) - 1
                                                         ELSE Number(vs, D, R, u, v)
<1> DEFINE n == Len(vs) p == Position(vs, x) q == Position(vs, y)
           line == R[p] k == Below(line, q) r == Removed(line, k) R2 == Put(R, p, r)
           m == Number(vs, D, R, x, y) - 1 A == 0 .. n - 1
<1>1. Holds(vs, D) /\ n \in Nat /\ HasRows(rp, ci, vs, D, R) /\ Laid(rp, ci, n, R) /\ InRange(vs, R)
  BY HasRowsIs DEF HasRows, HasGraph
<1>2. p \in A /\ q \in A
  BY <1>1, PositionIs
<1>3. R \in [0 .. Len(vs) - 1 -> Seq(Nat)]
  BY <1>1 DEF Laid
<1>4. line \in Seq(A)
  BY <1>1, <1>2 DEF InRange
<1>5. vs2 = vs
  BY DEF Disconnects
<1>6. HasRows(rp2, ci2, vs2, D, R2) /\ k \in Nat /\ k < Len(line) /\ line[k + 1] = q
  <2>1. p \in 0 .. Len(vs) - 1 /\ q \in 0 .. Len(vs) - 1 /\ ix \in 1 .. Len(R[p]) /\ R[p][ix] = q
    BY <1>2
  <2>2. Disconnects(rp, ci, vs, rp2, ci2, vs2, p, q)
    OBVIOUS
  <2> HIDE DEF p, q
  <2> QED BY <1>1, <2>1, <2>2, HasRowsDisconnects
<1>8. r \in Seq(A) /\ IsRemoved(r, line, k)
  <2> HIDE DEF line, q, k, A
  <2> QED BY <1>4, <1>6, RemoveAtIs
<1>9. InRange(vs, R2)
  <2>1. r \in Seq(0 .. Len(vs) - 1)
    BY <1>8
  <2> HIDE DEF r, p
  <2> QED BY <1>1, <1>3, <2>1, InRangePut
<1>10. \A z : Copies(line, z) = Copies(r, z) + (IF q = z THEN 1 ELSE 0)
  BY <1>6, <1>8 DEF IsRemoved
<1>11. Number(vs, D, R, x, y) = Copies(line, q) /\ \A z : Copies(r, z) \in Nat
  <2>1. Number(vs, D, R, x, y) = Copies(line, q)
    BY DEF Number
  <2> HIDE DEF line, r
  <2>2. \A z : Copies(r, z) \in Nat
    BY <1>8, CopiesIsNat
  <2> QED BY <2>1, <2>2
<1>12. Copies(r, q) = m /\ Number(vs, D, R, x, y) > 0
  <2> HIDE DEF r, line, q
  <2> QED BY <1>10, <1>11
<1>13. \A z \in 0 .. Len(vs) - 1 : z # q => Copies(r, z) = Copies(line, z)
  <2> HIDE DEF r, line, q
  <2> QED BY <1>10, <1>11
<1> HIDE DEF r, m
<1>14. \A u, v : Number(vs, D, R2, u, v) = IF u = x /\ v = y THEN m ELSE Number(vs, D, R, u, v)
  <2>1. Copies(r, Position(vs, y)) = m
    BY <1>12
  <2>2. Holds(vs, D)
    BY <1>1
  <2>3. \A z \in 0 .. Len(vs) - 1 : z # Position(vs, y) => Copies(r, z) = Copies(R[Position(vs, x)], z)
    BY <1>13
  <2> QED BY <1>3, <2>1, <2>2, <2>3, NumberPut
<1>15. HasGraph(rp2, ci2, vs2, D, R2)
  BY <1>5, <1>6, <1>9 DEF HasGraph
<1> HIDE DEF R2
<1> QED BY <1>5, <1>12, <1>14, <1>15 DEF m

LEMMA CopiesOfNone ==
  ASSUME NEW line, NEW y, \A ix \in DOMAIN line : line[ix] # y
  PROVE  Copies(line, y) = 0
<1>1. {ix \in DOMAIN line : line[ix] = y} = {}
  OBVIOUS
<1> QED BY <1>1, FS_EmptySet DEF Copies

\* No row but the one of position p leads to p or to a position behind it.
NoneBehind(vs, R, p) ==
  \A q \in 0 .. Len(vs) - 1 : q # p => \A ix \in DOMAIN R[q] : R[q][ix] < p

LEMMA GraphDropped ==
  ASSUME NEW rp, NEW ci, NEW vs, NEW D, NEW R, HasGraph(rp, ci, vs, D, R),
         NEW x \in D, NEW W, W = D \ {x}, NoneBehind(vs, R, Position(vs, x)),
         NEW rp2, NEW ci2, NEW vs2, Drops(rp, ci, vs, rp2, ci2, vs2, Position(vs, x))
  PROVE  \E R2 : /\ HasGraph(rp2, ci2, vs2, W, R2)
                 /\ \A u, v : Number(vs2, W, R2, u, v) = IF x \in {u, v} THEN 0
                                                         ELSE Number(vs, D, R, u, v)
<1> DEFINE n == Len(vs) p == Position(vs, x)
           R2 == [q \in 0 .. n - 2 |-> IF q < p THEN R[q] ELSE R[q + 1]]
<1>1. Holds(vs, D) /\ n \in Nat /\ HasRows(rp, ci, vs, D, R)
      /\ \A q \in 0 .. n - 1 : R[q] \in Seq(0 .. n - 1)
  BY HasRowsIs DEF HasRows, HasGraph, InRange
<1>2. p \in 0 .. n - 1 /\ vs[p + 1] = x
  BY <1>1, PositionIs
<1>3. W = D \ {vs[p + 1]}
  BY <1>2
<1>4. HasRows(rp2, ci2, vs2, W, R2)
  <2>1. Drops(rp, ci, vs, rp2, ci2, vs2, p)
    OBVIOUS
  <2>2. p \in 0 .. Len(vs) - 1
    BY <1>2
  <2>3. HasRows(rp, ci, vs, D, R)
    BY <1>1
  <2> HIDE DEF p
  <2>4. HasRows(rp2, ci2, vs2, W, [q \in 0 .. Len(vs) - 2 |-> IF q < p THEN R[q] ELSE R[q + 1]])
    BY <1>3, <2>1, <2>2, <2>3, HasRowsDrops
  <2> QED BY <2>4
<1>5. Holds(vs2, W)
  BY <1>4 DEF HasRows
<1>6. /\ Len(vs2) = n - 1
      /\ \A q \in 0 .. n - 2 : vs2[q + 1] = IF q < p THEN vs[q + 1] ELSE vs[q + 2]
  <2>1. vs2 = Removed(vs, p)
    BY DEF Drops
  <2> HIDE DEF p
  <2>2. /\ Len(Removed(vs, p)) = Len(vs) - 1
        /\ \A q \in 0 .. Len(vs) - 2 : Removed(vs, p)[q + 1] = IF q < p THEN vs[q + 1] ELSE vs[q + 2]
    BY <1>1, <1>2, <1>3, HoldsRemoved
  <2> QED BY <2>1, <2>2
<1>7. ASSUME NEW q \in 0 .. n - 1, q # p
      PROVE  /\ \A ix \in DOMAIN R[q] : R[q][ix] \in 0 .. p - 1
             /\ \A b \in Int : b >= p => Copies(R[q], b) = 0
  <2> DEFINE line == R[q]
  <2>1. \A ix \in DOMAIN line : line[ix] < p
    BY <1>7 DEF NoneBehind
  <2>2. line \in Seq(0 .. n - 1)
    BY <1>1
  <2> HIDE DEF line
  <2>3. \A ix \in DOMAIN line : line[ix] \in 0 .. n - 1
    BY <2>2, Wider
  <2>4. \A ix \in DOMAIN line : line[ix] \in 0 .. p - 1
    BY <1>1, <1>2, <2>1, <2>3
  <2>5. ASSUME NEW b \in Int, b >= p PROVE Copies(line, b) = 0
    <3>1. \A ix \in DOMAIN line : line[ix] # b
      BY <1>2, <2>4, <2>5
    <3> QED BY <3>1, CopiesOfNone
  <2> QED BY <2>4, <2>5 DEF line
<1> HIDE DEF n, p
<1> DEFINE Before(a) == IF a < p THEN a ELSE a - 1
<1>8. ASSUME NEW u \in W
      PROVE  LET a == Position(vs, u)
             IN /\ a \in 0 .. n - 1 /\ a # p
                /\ Position(vs2, u) = Before(a) /\ R2[Before(a)] = R[a]
  <2> DEFINE a == Position(vs, u)
  <2>1. a \in 0 .. n - 1 /\ vs[a + 1] = u
    BY <1>1, PositionIs DEF n
  <2>2. a # p
    BY <1>2, <2>1
  <2> HIDE DEF a
  <2>3. CASE a < p
    <3>1. a \in 0 .. n - 2
      BY <1>1, <1>2, <2>1, <2>3
    <3>2. vs2[a + 1] = u /\ a \in 0 .. Len(vs2) - 1
      BY <1>1, <1>6, <2>1, <2>3, <3>1
    <3>3. Position(vs2, u) = a
      BY <1>5, <3>2, PositionIs
    <3> QED BY <2>1, <2>2, <2>3, <3>1, <3>3 DEF a
  <2>4. CASE a > p
    <3> DEFINE c == a - 1
    <3>1. c \in 0 .. n - 2 /\ ~(c < p) /\ c + 2 = a + 1 /\ c + 1 = a /\ ~(a < p)
      BY <1>1, <1>2, <2>1, <2>4
    <3>0. Before(a) = c
      BY <3>1
    <3> HIDE DEF c
    <3>2. vs2[c + 1] = u /\ c \in 0 .. Len(vs2) - 1
      BY <1>1, <1>6, <2>1, <3>1
    <3>3. Position(vs2, u) = c
      BY <1>5, <3>2, PositionIs
    <3>4. R2[c] = R[a]
      BY <3>1
    <3> HIDE DEF Before
    <3> QED BY <2>1, <2>2, <3>0, <3>3, <3>4 DEF a
  <2> QED BY <1>2, <2>1, <2>2, <2>3, <2>4
<1>9. InRange(vs2, R2)
  <2>8. Len(vs2) - 1 = n - 2
    BY <1>1, <1>6
  <2> HIDE DEF R2
  <2> SUFFICES ASSUME NEW c \in 0 .. n - 2 PROVE R2[c] \in Seq(0 .. n - 2)
    BY <2>8, Zenon DEF InRange
  <2> USE DEF R2
  <2> DEFINE a == IF c < p THEN c ELSE c + 1
  <2>1. R2[c] = R[a]
    OBVIOUS
  <2>2. a \in 0 .. n - 1 /\ a # p
    BY <1>1, <1>2
  <2> HIDE DEF a
  <2> DEFINE line == R[a] A == 0 .. p - 1 B == 0 .. n - 2
  <2>3. \A ix \in DOMAIN line : line[ix] \in A
    BY <1>7, <2>2
  <2>4. line \in Seq(0 .. n - 1)
    BY <1>1, <2>2
  <2>5. A \subseteq B
    BY <1>1, <1>2
  <2> HIDE DEF line, A
  <2>6. line \in Seq(A)
    <3>1. DOMAIN line = 1 .. Len(line) /\ Len(line) \in Nat /\ line = [ix \in 1 .. Len(line) |-> line[ix]]
      BY <2>4
    <3> DEFINE l == Len(line)
    <3>2. line \in [1 .. l -> A] /\ l \in Nat
      BY <2>3, <3>1
    <3> HIDE DEF l
    <3> QED BY <3>2
  <2> HIDE DEF B
  <2>7. line \in Seq(B)
    BY <2>5, <2>6, Wider
  <2> QED BY <2>1, <2>7 DEF line, B
<1> HIDE DEF R2
<1>10. ASSUME NEW u, NEW v
       PROVE  Number(vs2, W, R2, u, v) = IF x \in {u, v} THEN 0 ELSE Number(vs, D, R, u, v)
  <2>1. CASE x \in {u, v}
    <3>1. u \notin W \/ v \notin W
      BY <2>1
    <3> QED BY <2>1, <3>1 DEF Number
  <2>2. CASE x \notin {u, v} /\ ~(u \in D /\ v \in D)
    BY <2>2 DEF Number
  <2>3. CASE x \notin {u, v} /\ u \in D /\ v \in D
    <3>1. u \in W /\ v \in W
      BY <2>3
    <3> DEFINE a == Position(vs, u) b == Position(vs, v) line == R[a]
    <3>2. a \in 0 .. n - 1 /\ a # p /\ R2[Position(vs2, u)] = line
      BY <1>8, <3>1
    <3>3. b \in 0 .. n - 1 /\ b # p /\ Position(vs2, v) = Before(b)
      BY <1>8, <3>1
    <3>4. Copies(line, Before(b)) = Copies(line, b)
      <4>1. CASE b < p
        <5> HIDE DEF b, line
        <5> QED BY <4>1
      <4>2. CASE b > p
        <5>1. b \in Int /\ b - 1 \in Int /\ b >= p /\ b - 1 >= p /\ ~(b < p)
          BY <1>2, <3>3, <4>2
        <5>2. \A c \in Int : c >= p => Copies(line, c) = 0
          BY <1>7, <3>2
        <5> HIDE DEF b, line
        <5>3. Copies(line, b) = 0 /\ Copies(line, b - 1) = 0
          BY <5>1, <5>2
        <5> QED BY <5>1, <5>3
      <4> HIDE DEF b
      <4>3. b < p \/ b > p
        BY <1>2, <3>3
      <4> QED BY <4>1, <4>2, <4>3
    <3> HIDE DEF Before
    <3>5. Number(vs2, W, R2, u, v) = Copies(line, Before(b))
      BY <3>1, <3>2, <3>3 DEF Number
    <3> QED BY <2>3, <3>4, <3>5 DEF Number
  <2> QED BY <2>1, <2>2, <2>3
<1>11. HasGraph(rp2, ci2, vs2, W, R2)
  BY <1>4, <1>9 DEF HasGraph
<1> QED BY <1>10, <1>11

\* The edges are those of the adjacency list.
SameNumbers(adj, vs, D, R) ==
  \A u, v : Number(vs, D, R, u, v) = IF u \in D THEN Copies(adj[u], v) ELSE 0

LEMMA GraphBuilt ==
  ASSUME NEW D, D \subseteq Int, IsFiniteSet(D), NEW adj, DOMAIN adj = D,
         \A x \in D : adj[x] \in Seq(D),
         NEW rp, NEW ci, NEW vs, Builds(adj, rp, ci, vs)
  PROVE  \E R : HasGraph(rp, ci, vs, D, R) /\ SameNumbers(adj, vs, D, R)
<1> DEFINE n == Len(vs) R == BuiltRows(adj, vs)
<1>0. HasRows(rp, ci, vs, D, R) /\ \A p \in 0 .. n - 1 : IsBuilt(adj, vs, vs[p + 1])
  BY HasRowsBuilt
<1>1. /\ HasRows(rp, ci, vs, D, R)
      /\ \A p \in 0 .. n - 1 :
           /\ R[p] = BuiltRow(adj, vs, vs[p + 1])
           /\ BuiltRow(adj, vs, vs[p + 1]) \in Seq(0 .. n - 1)
           /\ \A q \in 0 .. n - 1 :
                Copies(BuiltRow(adj, vs, vs[p + 1]), q) = Copies(adj[vs[p + 1]], vs[q + 1])
  BY <1>0 DEF IsBuilt, BuiltRows
<1>2. Holds(vs, D)
  BY <1>1 DEF HasRows
<1>3. InRange(vs, R)
  BY <1>1 DEF InRange
<1>4. ASSUME NEW u, NEW v PROVE Number(vs, D, R, u, v) = IF u \in D THEN Copies(adj[u], v) ELSE 0
  <2>1. CASE u \notin D
    BY <2>1 DEF Number
  <2>2. CASE u \in D /\ v \notin D
    <3>1. adj[u] \in Seq(D)
      BY <2>2
    <3> DEFINE line == adj[u]
    <3> HIDE DEF line
    <3>2. \A ix \in DOMAIN line : line[ix] \in D
      BY <3>1 DEF line
    <3>3. Copies(line, v) = 0
      BY <2>2, <3>2, CopiesOfNone
    <3> QED BY <2>2, <3>3 DEF Number, line
  <2>3. CASE u \in D /\ v \in D
    <3> DEFINE p == Position(vs, u) q == Position(vs, v)
    <3>1. p \in 0 .. n - 1 /\ vs[p + 1] = u /\ q \in 0 .. n - 1 /\ vs[q + 1] = v
      BY <1>2, <2>3, PositionIs
    <3> HIDE DEF p, q
    <3>2. Copies(BuiltRow(adj, vs, vs[p + 1]), q) = Copies(adj[vs[p + 1]], vs[q + 1])
      BY <1>1, <3>1
    <3>3. R[p] = BuiltRow(adj, vs, vs[p + 1])
      BY <1>1, <3>1
    <3>4. Number(vs, D, R, u, v) = Copies(R[p], q)
      BY <2>3 DEF Number, p, q
    <3> QED BY <2>3, <3>1, <3>2, <3>3, <3>4
  <2> QED BY <2>1, <2>2, <2>3
<1>5. HasGraph(rp, ci, vs, D, R)
  BY <1>1, <1>3 DEF HasGraph
<1>6. SameNumbers(adj, vs, D, R)
  BY <1>4 DEF SameNumbers
<1> HIDE DEF R
<1> QED BY <1>5, <1>6

CSRVertices == Range(values)
CSRCount == [p \in T \X T |-> Copies(NeighborsAt(row_ptrs, column_indices, values, p[1]), p[2])]

LEMMA CSRGraphIs ==
  /\ Edges(CSR!neighbors) = CSRCount
  /\ (Edges(CSR!neighbors))' = CSRCount'
  /\ CSR!vertices = CSRVertices
  /\ CSR!vertices' = CSRVertices'
<1>1. \A x : CSR!neighbors(x) = NeighborsAt(row_ptrs, column_indices, values, x)
  BY CSRQueries
<1>2. \A x : CSR!neighbors(x)' = NeighborsAt(row_ptrs', column_indices', values', x)
  BY CSRQueriesNext
<1>3. \A p \in T \X T : p[1] \in T
  OBVIOUS
<1>4. Edges(CSR!neighbors) = CSRCount
  BY <1>1, <1>3, ContainersRows DEF Edges, CSRCount
<1>5. (Edges(CSR!neighbors))' = CSRCount'
  BY <1>2, <1>3, ContainersRows DEF Edges, CSRCount
<1>6. CSR!vertices = CSRVertices
  BY CSRQueries DEF CSRVertices
<1>7. CSR!vertices' = CSRVertices'
  BY CSRQueriesNext DEF CSRVertices
<1> QED BY <1>4, <1>5, <1>6, <1>7

LEMMA CSRSteps ==
  ASSUME GraphStep(CSRVertices', CSRCount', CSRVertices, CSRCount, FALSE)
  PROVE  CSRGraph!Next
<1> USE CSRGraphIs
<1>1. ASSUME NEW x \in T, x \notin CSRVertices, CSRVertices' = CSRVertices \cup {x},
             CSRCount' = CSRCount
      PROVE  CSRGraph!Next
  <2>1. CSRGraph!AddVertex(x)
    BY <1>1 DEF CSRGraph!AddVertex
  <2> QED BY <2>1 DEF CSRGraph!Next
<1>2. ASSUME NEW x \in T, x \in CSRVertices, CSRVertices' = CSRVertices \ {x},
             Cleared(CSRCount', CSRCount, x)
      PROVE  CSRGraph!Next
  <2>1. \A p \in T \X T : CSRCount'[p] = IF x \in {p[1], p[2]} THEN 0 ELSE CSRCount[p]
    BY <1>2 DEF Cleared
  <2>2. CSRGraph!RemoveVertex(x)
    BY <1>2, <2>1 DEF CSRGraph!RemoveVertex
  <2> QED BY <2>2 DEF CSRGraph!Next
<1>3. ASSUME NEW x \in T, NEW y \in T, NEW n, CSRVertices' = CSRVertices,
             OneSet(CSRCount', CSRCount, x, y, n)
      PROVE  CSRGraph!SetEdge(x, y, n)
  <2>1. <<x, y>> \in T \X T
    OBVIOUS
  <2>2. CSRCount'[<<x, y>>] = n
    BY <1>3, <2>1 DEF OneSet
  <2>3. \A p \in T \X T : p # <<x, y>> => CSRCount'[p] = CSRCount[p]
    BY <1>3 DEF OneSet
  <2> QED BY <1>3, <2>2, <2>3, Zenon DEF CSRGraph!SetEdge
<1>4. ASSUME NEW x \in T, NEW y \in T, {x, y} \subseteq CSRVertices, CSRVertices' = CSRVertices,
             OneSet(CSRCount', CSRCount, x, y, CSRCount[<<x, y>>] + 1)
      PROVE  CSRGraph!Next
  <2>1. CSRGraph!SetEdge(x, y, CSRCount[<<x, y>>] + 1)
    BY <1>3, <1>4
  <2>2. CSRGraph!AddEdge(x, y)
    BY <1>4, <2>1 DEF CSRGraph!AddEdge
  <2> QED BY <2>2 DEF CSRGraph!Next
<1>5. ASSUME NEW x \in T, NEW y \in T, CSRCount[<<x, y>>] > 0, CSRVertices' = CSRVertices,
             OneSet(CSRCount', CSRCount, x, y, CSRCount[<<x, y>>] - 1)
      PROVE  CSRGraph!Next
  <2>1. CSRGraph!SetEdge(x, y, CSRCount[<<x, y>>] - 1)
    BY <1>3, <1>5
  <2>2. CSRGraph!RemoveEdge(x, y)
    BY <1>5, <2>1 DEF CSRGraph!RemoveEdge
  <2> QED BY <2>2 DEF CSRGraph!Next
<1> QED BY <1>1, <1>2, <1>4, <1>5 DEF GraphStep

CountOf(vs, D, R) == [p \in T \X T |-> Number(vs, D, R, p[1], p[2])]

LEMMA CSRMakes ==
  ASSUME NEW D, NEW R, HasGraph(row_ptrs, column_indices, values, D, R)
  PROVE  CSRVertices = D /\ CSRCount = CountOf(values, D, R)
<1>1. CSRVertices = D
  BY DEF CSRVertices, HasGraph, HasRows, Holds
<1>2. \A p \in T \X T : Copies(NeighborsAt(row_ptrs, column_indices, values, p[1]), p[2])
                         = Number(values, D, R, p[1], p[2])
  BY NumberIs
<1> QED BY <1>1, <1>2 DEF CSRCount, CountOf

LEMMA CSRMakesNext ==
  ASSUME NEW D, NEW R, HasGraph(row_ptrs', column_indices', values', D, R)
  PROVE  CSRVertices' = D /\ CSRCount' = CountOf(values', D, R)
<1>1. CSRVertices' = D
  BY DEF CSRVertices, HasGraph, HasRows, Holds
<1>2. \A p \in T \X T : Copies(NeighborsAt(row_ptrs', column_indices', values', p[1]), p[2])
                         = Number(values', D, R, p[1], p[2])
  BY NumberIs
<1> QED BY <1>1, <1>2 DEF CSRCount, CountOf

\* GraphCSR holds a multigraph over the vertices of the adjacency list.
CSRGraphInv ==
  /\ IsFiniteSet(AdjVertices)
  /\ \E R : HasGraph(row_ptrs, column_indices, values, AdjVertices, R)

CSRStepped ==
  /\ CSRGraphInv'
  /\ \/ GraphStep(CSRVertices', CSRCount', CSRVertices, CSRCount, FALSE)
     \/ CSRVertices' = CSRVertices /\ CSRCount' = CSRCount
     \/ CSRVertices' = AdjVertices' /\ CSRCount' = AdjCount'

LEMMA CSRGraphSame ==
  ASSUME CSRGraphInv, Unchanged, AdjVertices' = AdjVertices
  PROVE  CSRStepped
<1>1. row_ptrs' = row_ptrs /\ column_indices' = column_indices /\ values' = values
  BY DEF Unchanged, Same
<1>2. CSRGraphInv'
  BY <1>1 DEF CSRGraphInv
<1>3. CSRVertices' = CSRVertices /\ CSRCount' = CSRCount
  BY <1>1 DEF CSRVertices, CSRCount
<1> QED BY <1>2, <1>3 DEF CSRStepped

LEMMA CSRGraphAppend ==
  ASSUME AdjInv, CSRGraphInv, NEW x \in T, add_vertex(x)
  PROVE  CSRStepped
<1>1. /\ x \notin AdjVertices /\ Adj!add_vertex(x) /\ CSR!add_vertex(x)
  BY DEF add_vertex, AdjVertices
<1> DEFINE D == AdjVertices W == AdjVertices'
<1>2. W = D \cup {x}
  BY <1>1, AdjVerticesNext
<1>3. IsFiniteSet(W)
  BY <1>2, FS_AddElement DEF CSRGraphInv
<1>4. PICK R : HasGraph(row_ptrs, column_indices, values, D, R)
  BY DEF CSRGraphInv
<1>5. Appends(row_ptrs, column_indices, values, row_ptrs', column_indices', values', x)
  BY <1>1, CSRAdds
<1>6. PICK R2 : /\ HasGraph(row_ptrs', column_indices', values', W, R2)
                /\ \A u, v : Number(values', W, R2, u, v) = Number(values, D, R, u, v)
  <2>1. x \notin D
    BY <1>1
  <2> HIDE DEF D, W
  <2> QED BY <1>2, <1>4, <1>5, <2>1, GraphAppended
<1> HIDE DEF D, W
<1>7. CSRVertices = D /\ CSRCount = CountOf(values, D, R)
  BY <1>4, CSRMakes
<1>8. CSRVertices' = W /\ CSRCount' = CountOf(values', W, R2)
  BY <1>6, CSRMakesNext
<1>9. CSRCount' = CSRCount
  BY <1>6, <1>7, <1>8 DEF CountOf
<1>10. GraphStep(CSRVertices', CSRCount', CSRVertices, CSRCount, FALSE)
  BY <1>1, <1>2, <1>7, <1>8, <1>9 DEF GraphStep, D
<1> QED BY <1>3, <1>6, <1>10 DEF CSRStepped, CSRGraphInv, W

LEMMA CSRGraphConnect ==
  ASSUME AdjInv, CSRGraphInv, NEW x \in T, NEW y \in T, add_edge(x, y)
  PROVE  CSRStepped
<1> DEFINE D == AdjVertices
<1>1. /\ x \in D /\ y \in D
      /\ Adj!add_edge(x, y) /\ CSR!add_edge(x, y)
  BY DEF add_edge, AdjVertices
<1>2. AdjVertices' = D
  BY <1>1, AdjVerticesNext
<1>4. PICK R : HasGraph(row_ptrs, column_indices, values, D, R)
  BY DEF CSRGraphInv
<1>5. Position(values, x) # Len(values) /\ Position(values, y) # Len(values)
  <2>1. Holds(values, D) /\ Len(values) \in Nat
    BY <1>4, HasRowsIs DEF HasGraph, HasRows
  <2> HIDE DEF D
  <2>2. Position(values, x) \in 0 .. Len(values) - 1 /\ Position(values, y) \in 0 .. Len(values) - 1
    BY <1>1, <2>1, PositionIs
  <2> QED BY <2>1, <2>2
<1>6. Connects(row_ptrs, column_indices, values, row_ptrs', column_indices', values',
               Position(values, x), Position(values, y))
  BY <1>1, <1>5, CSRConnects
<1> HIDE DEF D
<1>7. PICK R2 : /\ HasGraph(row_ptrs', column_indices', values', D, R2)
                /\ \A u, v : Number(values', D, R2, u, v) = IF u = x /\ v = y
                                                           THEN Number(values, D, R, x, y) + 1
                                                           ELSE Number(values, D, R, u, v)
  BY <1>1, <1>4, <1>6, GraphConnected
<1>8. CSRVertices = D /\ CSRCount = CountOf(values, D, R)
  BY <1>4, CSRMakes
<1>9. CSRVertices' = D /\ CSRCount' = CountOf(values', D, R2)
  BY <1>7, CSRMakesNext
<1>10. OneSet(CSRCount', CSRCount, x, y, CSRCount[<<x, y>>] + 1)
  <2>1. CSRCount[<<x, y>>] = Number(values, D, R, x, y)
    BY <1>8 DEF CountOf
  <2>2. \A p \in T \X T : p = <<x, y>> <=> p[1] = x /\ p[2] = y
    OBVIOUS
  <2>3. \A p \in T \X T : Number(values', D, R2, p[1], p[2]) =
                           IF p = <<x, y>> THEN CSRCount[<<x, y>>] + 1 ELSE CSRCount[p]
    BY <1>7, <1>8, <2>1, <2>2 DEF CountOf
  <2> QED BY <1>9, <2>3 DEF OneSet, CountOf
<1>11. GraphStep(CSRVertices', CSRCount', CSRVertices, CSRCount, FALSE)
  BY <1>1, <1>8, <1>9, <1>10 DEF GraphStep
<1>12. CSRGraphInv'
  BY <1>2, <1>7 DEF CSRGraphInv, D
<1> QED BY <1>11, <1>12 DEF CSRStepped

LEMMA CSRGraphDisconnect ==
  ASSUME AdjInv, CSRGraphInv, NEW x \in T, NEW y \in T, remove_edge(x, y)
  PROVE  CSRStepped
<1> DEFINE D == AdjVertices
<1>1. /\ x \in D
      /\ Adj!remove_edge(x, y) /\ CSR!remove_edge(x, y)
  BY DEF remove_edge, AdjVertices
<1>2. AdjVertices' = D
  BY <1>1, AdjVerticesNext
<1>3. CASE ~Adjacent(row_ptrs, column_indices, values, x, y)
  BY <1>1, <1>2, <1>3, CSRDisconnects, CSRGraphSame
<1>4. CASE Adjacent(row_ptrs, column_indices, values, x, y)
  <2>1. PICK R : HasGraph(row_ptrs, column_indices, values, D, R)
    BY DEF CSRGraphInv
  <2>2. Disconnects(row_ptrs, column_indices, values, row_ptrs', column_indices', values',
                    Position(values, x), Position(values, y))
    BY <1>1, <1>4, CSRDisconnects
  <2> HIDE DEF D
  <2>3. y \in D /\ \E ix \in 1 .. Len(R[Position(values, x)]) : R[Position(values, x)][ix] = Position(values, y)
    BY <1>4, <2>1, AdjacentIs DEF HasGraph
  <2>4. PICK ix \in 1 .. Len(R[Position(values, x)]) : R[Position(values, x)][ix] = Position(values, y)
    BY <2>3
  <2>7. PICK R2 : /\ HasGraph(row_ptrs', column_indices', values', D, R2)
                  /\ Number(values, D, R, x, y) > 0
                  /\ \A u, v : Number(values', D, R2, u, v) = IF u = x /\ v = y
                                                             THEN Number(values, D, R, x, y) - 1
                                                             ELSE Number(values, D, R, u, v)
    BY <1>1, <2>1, <2>2, <2>3, <2>4, GraphDisconnected
  <2>8. CSRVertices = D /\ CSRCount = CountOf(values, D, R)
    BY <2>1, CSRMakes
  <2>9. CSRVertices' = D /\ CSRCount' = CountOf(values', D, R2)
    BY <2>7, CSRMakesNext
  <2>5. CSRCount[<<x, y>>] = Number(values, D, R, x, y)
    BY <2>8 DEF CountOf
  <2>10. OneSet(CSRCount', CSRCount, x, y, CSRCount[<<x, y>>] - 1)
    <3>2. \A p \in T \X T : p = <<x, y>> <=> p[1] = x /\ p[2] = y
      OBVIOUS
    <3>3. \A p \in T \X T : Number(values', D, R2, p[1], p[2]) =
                             IF p = <<x, y>> THEN CSRCount[<<x, y>>] - 1 ELSE CSRCount[p]
      BY <2>5, <2>7, <2>8, <3>2 DEF CountOf
    <3> QED BY <2>9, <3>3 DEF OneSet, CountOf
  <2>11. GraphStep(CSRVertices', CSRCount', CSRVertices, CSRCount, FALSE)
    BY <2>5, <2>7, <2>8, <2>9, <2>10 DEF GraphStep
  <2>12. CSRGraphInv'
    BY <1>2, <2>7 DEF CSRGraphInv, D
  <2> QED BY <2>11, <2>12 DEF CSRStepped
<1> QED BY <1>3, <1>4

LEMMA CSRGraphConstruct ==
  ASSUME T \subseteq Int, AdjInv', IsFiniteSet(AdjVertices'), CSR!Construct(adj_list')
  PROVE  CSRStepped
<1> DEFINE D == AdjVertices' adj == adj_list' rp == row_ptrs' ci == column_indices' vs == values'
<1>1. /\ D \subseteq T /\ D \subseteq Int /\ IsFiniteSet(D) /\ DOMAIN adj = D
      /\ \A x \in D : adj[x] \in Seq(D)
      /\ adj_list' \in [D -> Seq(D)]
  BY DEF AdjInv
<1>2. Builds(adj, rp, ci, vs)
  BY CSRBuilds
<1>5. AdjCount' = [p \in T \X T |-> IF p[1] \in AdjVertices' THEN Copies(adj_list'[p[1]], p[2]) ELSE 0]
  <2>1. \A y : Copies(<<>>, y) = 0
    BY CopiesOfNone
  <2> QED BY <2>1 DEF AdjCount, Adj!neighbors, AdjVertices, Adj!vertices
<1> HIDE DEF D, adj, rp, ci, vs
<1>3. PICK R : HasGraph(rp, ci, vs, D, R) /\ SameNumbers(adj, vs, D, R)
  BY <1>1, <1>2, GraphBuilt
<1>4. CSRVertices' = D /\ CSRCount' = CountOf(vs, D, R)
  BY <1>3, CSRMakesNext DEF rp, ci, vs
<1>6. CSRCount' = AdjCount'
  BY <1>3, <1>4, <1>5 DEF CountOf, adj, D, SameNumbers
<1>7. CSRGraphInv'
  BY <1>1, <1>3 DEF CSRGraphInv, rp, ci, vs, D
<1> QED BY <1>4, <1>6, <1>7 DEF CSRStepped, D

\* What remove_vertex asks of the other rows before it calls GraphCSR.
LEMMA NothingBehindIs ==
  ASSUME NEW D, NEW R, HasGraph(row_ptrs, column_indices, values, D, R), NEW x,
         NothingBehind(x)
  PROVE  NoneBehind(values, R, Position(values, x))
<1> DEFINE p == Position(values, x)
<1>1. ASSUME NEW q \in 0 .. Len(values) - 1, q # p, NEW ix \in DOMAIN R[q]
      PROVE  R[q][ix] < p
  <2>1. q \in CSR!Positions \ {CSR!value_index(x)}
    BY <1>1, CSRRows
  <2>2. CSR!Row(q) = R[q]
    BY CSRRows, HasRowsIs DEF HasGraph
  <2>3. \A e \in Range(CSR!Row(q)) : e < CSR!value_index(x)
    BY <2>1 DEF NothingBehind
  <2>4. R[q][ix] \in Range(CSR!Row(q))
    BY <1>1, <2>2 DEF Range
  <2>5. CSR!value_index(x) = p
    BY CSRRows
  <2> HIDE DEF p
  <2> QED BY <2>3, <2>4, <2>5
<1> QED BY <1>1 DEF NoneBehind

LEMMA CSRGraphDrop ==
  ASSUME T \subseteq Int, AlwaysInPlace = FALSE,
         AdjInv, AdjInv', CSRGraphInv, NEW x \in T, remove_vertex(x)
  PROVE  CSRStepped
<1>1. /\ Adj!remove_vertex(x)
      /\ \/ NothingBehind(x) /\ CSR!remove_vertex(x)
         \/ CSR!Construct(adj_list')
  BY DEF remove_vertex
<1> DEFINE D == AdjVertices W == AdjVertices'
<1>2. W = D \ {x}
  BY <1>1, AdjVerticesNext
<1>3. IsFiniteSet(W)
  BY <1>2, FS_RemoveElement DEF CSRGraphInv
<1>4. CASE CSR!Construct(adj_list')
  BY <1>3, <1>4, CSRGraphConstruct
<1>5. CASE NothingBehind(x) /\ CSR!remove_vertex(x)
  <2>1. PICK R : HasGraph(row_ptrs, column_indices, values, D, R)
    BY DEF CSRGraphInv
  <2>2. Holds(values, D) /\ Len(values) \in Nat
    BY <2>1, HasRowsIs DEF HasGraph, HasRows
  <2>3. CASE x \notin D
    <3> HIDE DEF D
    <3>1. Position(values, x) = Len(values)
      BY <2>2, <2>3, PositionIs
    <3>2. Unchanged
      BY <1>5, <3>1, CSRDrops
    <3> QED BY <1>2, <2>3, <3>2, CSRGraphSame DEF D
  <2>4. CASE x \in D
    <3> HIDE DEF D
    <3>1. Position(values, x) \in 0 .. Len(values) - 1
      BY <2>2, <2>4, PositionIs
    <3>2. Position(values, x) # Len(values)
      BY <2>2, <3>1
    <3>3. Drops(row_ptrs, column_indices, values, row_ptrs', column_indices', values', Position(values, x))
      BY <1>5, <3>2, CSRDrops
    <3>4. NoneBehind(values, R, Position(values, x))
      BY <1>5, <2>1, NothingBehindIs
    <3> HIDE DEF W
    <3>5. PICK R2 : /\ HasGraph(row_ptrs', column_indices', values', W, R2)
                    /\ \A u, v : Number(values', W, R2, u, v) = IF x \in {u, v} THEN 0
                                                               ELSE Number(values, D, R, u, v)
      BY <1>2, <2>1, <2>4, <3>3, <3>4, GraphDropped
    <3>6. CSRVertices = D /\ CSRCount = CountOf(values, D, R)
      BY <2>1, CSRMakes
    <3>7. CSRVertices' = W /\ CSRCount' = CountOf(values', W, R2)
      BY <3>5, CSRMakesNext
    <3>8. Cleared(CSRCount', CSRCount, x)
      BY <3>5, <3>6, <3>7 DEF Cleared, CountOf
    <3>9. GraphStep(CSRVertices', CSRCount', CSRVertices, CSRCount, FALSE)
      BY <1>2, <2>4, <3>6, <3>7, <3>8 DEF GraphStep
    <3>10. CSRGraphInv'
      BY <1>3, <3>5 DEF CSRGraphInv, W
    <3> QED BY <3>9, <3>10 DEF CSRStepped
  <2> QED BY <2>3, <2>4
<1> QED BY <1>1, <1>4, <1>5

LEMMA CSRGraphStep ==
  ASSUME T \subseteq Int, AlwaysInPlace = FALSE, AdjInv, AdjInv', CSRGraphInv, ContainersNext
  PROVE  CSRStepped
BY CSRGraphAppend, CSRGraphDrop, CSRGraphConnect, CSRGraphDisconnect DEF ContainersNext

\* The three arrays of GraphCSR hold a multigraph: the positions in
\* column_indices_ mean the vertices the calls have named.  remove_vertex is called
\* where no other row leads to the vertex or beyond it; the graph is made anew from
\* the adjacency list otherwise, which is the case of a false AlwaysInPlace.
THEOREM CSRIsMultiGraph ==
  ASSUME AlwaysInPlace = FALSE
  PROVE  ContainersSpec => CSRImplements
<1>0. T \subseteq Int
  BY TAssumption
<1> USE <1>0
<1> DEFINE Same2 == (SameGraph)'
<1>1. ContainersInit => AdjInv /\ CSRGraphInv /\ CSRGraph!Init
  <2> SUFFICES ASSUME ContainersInit PROVE AdjInv /\ CSRGraphInv /\ CSRGraph!Init
    OBVIOUS
  <2>1. AdjInv /\ AdjVertices = {}
    BY AdjInitially DEF ContainersInit, AdjGraph!Init, AdjVertices
  <2>2. row_ptrs = <<0>> /\ column_indices = <<>> /\ values = <<>>
    BY DEF ContainersInit, CSR!Init
  <2> DEFINE R == [q \in 0 .. 0 - 1 |-> <<>>]
  <2>3. InRange(values, R)
    BY <2>2 DEF InRange
  <2>4. HasGraph(row_ptrs, column_indices, values, {}, R)
    BY <2>2, <2>3, HasRowsInitially DEF HasGraph
  <2>5. CSRGraphInv
    BY <2>1, <2>4, FS_EmptySet DEF CSRGraphInv
  <2> HIDE DEF R
  <2>6. CSRVertices = {} /\ CSRCount = CountOf(values, {}, R)
    BY <2>4, CSRMakes
  <2>7. CSRCount = [p \in T \X T |-> 0]
    BY <2>6 DEF CountOf, Number
  <2> QED BY <2>1, <2>5, <2>6, <2>7, CSRGraphIs DEF CSRGraph!Init
<1>2. AdjInv /\ CSRGraphInv /\ [ContainersNext]_containers
      => /\ AdjInv' /\ CSRGraphInv'
         /\ [CSRGraph!Next \/ SameGraph']_(CSRGraph!vars)
  <2>1. ASSUME AdjInv, CSRGraphInv, UNCHANGED containers
        PROVE  AdjInv' /\ CSRGraphInv' /\ UNCHANGED CSRGraph!vars
    <3>1. /\ adj_list' = adj_list /\ row_ptrs' = row_ptrs /\ column_indices' = column_indices
          /\ values' = values
      BY <2>1 DEF containers, csr
    <3>2. AdjVertices' = AdjVertices
      BY <3>1 DEF AdjVertices, Adj!vertices
    <3>3. CSRVertices' = CSRVertices /\ CSRCount' = CSRCount
      BY <3>1 DEF CSRVertices, CSRCount
    <3>4. AdjInv' /\ CSRGraphInv'
      BY <2>1, <3>1, <3>2 DEF AdjInv, CSRGraphInv
    <3> QED BY <3>3, <3>4, CSRGraphIs DEF CSRGraph!vars
  <2>2. ASSUME AdjInv, CSRGraphInv, ContainersNext
        PROVE  /\ AdjInv' /\ CSRGraphInv'
               /\ [CSRGraph!Next \/ SameGraph']_(CSRGraph!vars)
    <3>1. AdjInv'
      BY <2>2, AdjStep
    <3>2. CSRStepped
      BY <2>2, <3>1, CSRGraphStep
    <3>3. CASE GraphStep(CSRVertices', CSRCount', CSRVertices, CSRCount, FALSE)
      BY <3>1, <3>2, <3>3, CSRSteps DEF CSRStepped
    <3>4. CASE CSRVertices' = CSRVertices /\ CSRCount' = CSRCount
      <4>1. UNCHANGED CSRGraph!vars
        BY <3>4, CSRGraphIs DEF CSRGraph!vars
      <4> QED BY <3>1, <3>2, <4>1 DEF CSRStepped
    <3>5. CASE CSRVertices' = AdjVertices' /\ CSRCount' = AdjCount'
      <4>1. SameGraph'
        BY <3>5, CSRGraphIs, AdjGraphIs
        DEF SameGraph, CSRGraph!vars, AdjGraph!vars, AdjVertices
      <4> QED BY <3>1, <3>2, <4>1 DEF CSRStepped
    <3> QED BY <3>2, <3>3, <3>4, <3>5 DEF CSRStepped
  <2> QED BY <2>1, <2>2
<1> QED BY <1>1, <1>2, PTL DEF ContainersSpec, CSRImplements

----------------------------------------------------------------------------
(* benchmark_graph: its GraphCSR, told by the three arrays *)

\* The arrays that the constructor makes.
LEMMA BenchmarkGraphIs ==
  ASSUME NEW adj, NEW vs, vs = Ascending(DOMAIN adj)
  PROVE  CSR!FromAdjacencyList(adj) =
           [row_ptrs |-> BuiltPtrs(adj, vs), column_indices |-> BuiltIndices(adj, vs), values |-> vs]
<1>1. CSR!Ascending(DOMAIN adj) = vs
  BY ContainersRows
<1>2. [n \in DOMAIN vs |-> CSR!RowOf(adj, vs, vs[n])] = RowsOf(adj, vs)
  BY RowOfIs DEF RowsOf
<1>3. CSR!Joining(RowsOf(adj, vs)) = Joining(RowsOf(adj, vs))
  BY ContainersRows
<1> QED BY <1>1, <1>2, <1>3 DEF CSR!FromAdjacencyList, BuiltPtrs, BuiltIndices

\* The arrays are those of the graph that add_random_edges builds.
BuiltCSR == Builds(graph, row_ptrs, column_indices, values)

LEMMA ConstructBuilds ==
  ASSUME CSR!Construct(graph), graph' = graph
  PROVE  BuiltCSR'
BY BenchmarkGraphIs DEF CSR!Construct, Builds, BuiltCSR

\* What add_random_edges may build: rows of vertices.
LEMMA GraphsAre ==
  ASSUME NEW adj \in Graphs
  PROVE  /\ Vertices \subseteq Int /\ IsFiniteSet(Vertices)
         /\ DOMAIN adj = Vertices /\ \A x \in Vertices : adj[x] \in Seq(Vertices)
         /\ Cardinality(Vertices) \in Nat /\ Vertices = 0 .. Cardinality(Vertices) - 1
<1>1. /\ Vertices = 0 .. Cardinality(Vertices) - 1 /\ adj \in [Vertices -> Seq(Vertices)]
      /\ IsFiniteSet(Vertices)
  BY GraphsAssumption, VerticesAssumption
<1>2. Cardinality(Vertices) \in Nat
  BY <1>1, FS_CardinalityType
<1>3. Vertices \subseteq Int
  BY <1>1, <1>2
<1> QED BY <1>1, <1>2, <1>3

LEMMA BuiltIs ==
  ASSUME graph \in Graphs, BuiltCSR
  PROVE  \E R : /\ HasGraph(row_ptrs, column_indices, values, Vertices, R)
                /\ SameNumbers(graph, values, Vertices, R)
<1> DEFINE rp == row_ptrs ci == column_indices vs == values
<1>1. /\ Vertices \subseteq Int /\ IsFiniteSet(Vertices)
      /\ DOMAIN graph = Vertices /\ \A x \in Vertices : graph[x] \in Seq(Vertices)
  BY GraphsAre
<1>2. Builds(graph, rp, ci, vs)
  BY DEF BuiltCSR
<1> HIDE DEF rp, ci, vs
<1>3. \E R : HasGraph(rp, ci, vs, Vertices, R) /\ SameNumbers(graph, vs, Vertices, R)
  BY <1>1, <1>2, GraphBuilt
<1> QED BY <1>3 DEF rp, ci, vs

\* The graph that is searched is the graph that was built.
LEMMA BuiltIsSearched ==
  ASSUME graph \in Graphs, BuiltCSR
  PROVE  IsBuiltGraph
<1>1. PICK R : /\ HasGraph(row_ptrs, column_indices, values, Vertices, R)
               /\ SameNumbers(graph, values, Vertices, R)
  BY BuiltIs
<1>2. DOMAIN graph = Vertices
  BY GraphsAre
<1>3. Range(values) = Vertices
  BY <1>1 DEF HasGraph, HasRows, Holds
<1>4. ASSUME NEW v \in Vertices, NEW y \in Vertices
      PROVE  Copies(CSR!neighbors(v), y) = Copies(graph[v], y)
  <2>1. CSR!neighbors(v) = NeighborsAt(row_ptrs, column_indices, values, v)
    BY CSRRows, CSRQueries
  <2>2. Copies(NeighborsAt(row_ptrs, column_indices, values, v), y) = Number(values, Vertices, R, v, y)
    BY <1>1, NumberIs
  <2>3. Number(values, Vertices, R, v, y) = Copies(graph[v], y)
    BY <1>1 DEF SameNumbers
  <2> QED BY <2>1, <2>2, <2>3
<1> QED BY <1>2, <1>3, <1>4, CSRRows, CSRQueries DEF IsBuiltGraph

\* A built GraphCSR is well formed.
LEMMA BuiltIsWellFormed == graph \in Graphs /\ BuiltCSR => WellFormed
<1> SUFFICES ASSUME graph \in Graphs, BuiltCSR PROVE WellFormed
  OBVIOUS
<1> DEFINE n == Len(values)
<1>1. PICK R : HasGraph(row_ptrs, column_indices, values, Vertices, R)
  BY BuiltIs
<1>2. HasRows(row_ptrs, column_indices, values, Vertices, R) /\ Holds(values, Vertices)
  BY <1>1 DEF HasGraph, HasRows
<1>3. Laid(row_ptrs, column_indices, n, R) /\ \A p \in 0 .. n - 1 : R[p] \in Seq(0 .. n - 1)
  BY <1>1 DEF HasGraph, HasRows, InRange
<1>4. n = Cardinality(Vertices)
  <2>1. values \in Bijection(1 .. n, Vertices)
    <3>1. n \in Nat /\ values \in Seq(Vertices)
      BY <1>2, HoldsIs DEF Holds
    <3>2. values \in [1 .. n -> Vertices]
      BY <3>1
    <3>3. IsInjective(values) /\ \A x \in Vertices : \E k \in 1 .. n : values[k] = x
      BY <1>2, HoldsIs DEF Holds
    <3> HIDE DEF n
    <3> QED BY <3>2, <3>3, Fun_IsBij DEF IsInjective
  <2>2. n \in Nat
    BY <1>2, HoldsIs
  <2> HIDE DEF n
  <2>3. IsFiniteSet(1 .. n) /\ Cardinality(1 .. n) = n
    BY <2>2, FS_Interval
  <2> QED BY <2>1, <2>3, FS_Bijection DEF ExistsBijection
<1>5. Vertices = 0 .. n - 1 /\ n \in Nat
  BY <1>4, GraphsAre
<1> HIDE DEF n
<1>6. CSR!Has(start)
  <2>1. Position(values, start) \in 0 .. n - 1
    BY <1>2, PositionIs, StartAssumption DEF n
  <2>2. Position(values, start) # n
    BY <1>5, <2>1
  <2> QED BY <2>2, CSRRows, CSRQueries DEF n
<1>7. CSR!Positions = Vertices /\ CSR!size = n
  BY <1>5, CSRRows, CSRQueries DEF n
<1>8. Len(row_ptrs) = n + 1
  BY <1>3, LaidIs
<1>9. ASSUME NEW p \in 0 .. n - 1
      PROVE  CSR!RowBegin(p) <= CSR!RowEnd(p) /\ CSR!RowEnd(p) <= Len(column_indices)
  <2> DEFINE a == row_ptrs[p + 1] b == row_ptrs[p + 2] r == R[p]
  <2>1. Spans(column_indices, a, b, r)
    BY <1>3, LaidRowIs
  <2>2. b <= Len(column_indices)
    BY <1>3, LaidOrder
  <2> HIDE DEF a, b, r
  <2>3. a <= b
    BY <2>1 DEF Spans
  <2> QED BY <2>2, <2>3 DEF a, b, CSR!RowBegin, CSR!RowEnd
<1>10. CSR!EntriesInRange
  <2> SUFFICES ASSUME NEW p \in 0 .. n - 1 PROVE Range(CSR!Row(p)) \subseteq 0 .. n - 1
    BY <1>5, <1>7 DEF CSR!EntriesInRange, CSR!Range, Range
  <2>1. CSR!Row(p) = R[p]
    BY <1>3, LaidRow, CSRRows, CSRQueries
  <2> DEFINE r == R[p] A == 0 .. n - 1
  <2>2. r \in Seq(A)
    BY <1>3
  <2> HIDE DEF r, A
  <2>3. \A k \in DOMAIN r : r[k] \in A
    BY <2>2, Wider
  <2>4. Range(r) \subseteq A
    BY <2>3 DEF Range
  <2> QED BY <2>1, <2>4 DEF r, A
<1> QED BY <1>5, <1>6, <1>7, <1>8, <1>9, <1>10 DEF WellFormed

----------------------------------------------------------------------------
(* The file *)

\* s lies in f behind the first k words.
LiesIn(s, f, k) == /\ k \in Nat /\ s \in Seq(Nat) /\ Len(s) \in Nat /\ Len(f) \in Nat
                   /\ k + Len(s) <= Len(f)
                   /\ \A n \in 1 .. Len(s) : f[k + n] = s[n]

\* What has been written in full is read back, whatever was in the array.
LEMMA ReadsBack ==
  ASSUME NEW old, NEW f, NEW k, NEW s, LiesIn(s, f, k)
  PROVE  CSR!Read(old, f, k, Len(s)) = s
<1> DEFINE l == Len(s) m == Len(f)
<1>1. /\ k \in Nat /\ l \in Nat /\ m \in Nat /\ k + l <= m /\ s \in Seq(Nat)
      /\ \A n \in 1 .. l : f[k + n] = s[n]
  BY DEF LiesIn
<1>2. s = [n \in 1 .. l |-> s[n]]
  BY <1>1
<1> HIDE DEF l, m
<1>3. \A n \in 1 .. l : k + n <= m
  BY <1>1
<1>4. [n \in 1 .. l |-> CASE k + n <= m -> f[k + n]
                         [] k + n > m /\ n <= Len(old) -> old[n]
                         [] OTHER -> 0] = [n \in 1 .. l |-> s[n]]
  BY <1>1, <1>3
<1> QED BY <1>2, <1>4 DEF l, m, CSR!Read

\* Four sequences behind one another, and where each of them begins.
HasParts(f, h, a, b, c) ==
  /\ \A n \in 1 .. Len(h) : n <= Len(f) /\ f[n] = h[n]
  /\ LiesIn(a, f, Len(h)) /\ LiesIn(b, f, Len(h) + Len(a))
  /\ LiesIn(c, f, Len(h) + Len(a) + Len(b))

LEMMA FourParts ==
  ASSUME NEW h \in Seq(Nat), NEW a \in Seq(Nat), NEW b \in Seq(Nat), NEW c \in Seq(Nat)
  PROVE  HasParts(h \o a \o b \o c, h, a, b, c)
<1> DEFINE x == h \o a y == x \o b f == y \o c
           lh == Len(h) la == Len(a) lb == Len(b) lc == Len(c)
<1>1. lh \in Nat /\ la \in Nat /\ lb \in Nat /\ lc \in Nat
  OBVIOUS
<1>2. /\ x \in Seq(Nat) /\ Len(x) = lh + la
      /\ \A n \in 1 .. lh : x[n] = h[n]
      /\ \A n \in (lh + 1) .. (lh + la) : x[n] = a[n - lh]
  BY ConcatIs
<1> HIDE DEF x
<1>3. /\ y \in Seq(Nat) /\ Len(y) = lh + la + lb
      /\ \A n \in 1 .. Len(x) : y[n] = x[n]
      /\ \A n \in (Len(x) + 1) .. (Len(x) + lb) : y[n] = b[n - Len(x)]
  <2>1. x \in Seq(Nat) /\ b \in Seq(Nat)
    BY <1>2
  <2>2. /\ x \o b \in Seq(Nat) /\ Len(x \o b) = Len(x) + Len(b)
        /\ \A n \in 1 .. Len(x) : (x \o b)[n] = x[n]
        /\ \A n \in (Len(x) + 1) .. (Len(x) + Len(b)) : (x \o b)[n] = b[n - Len(x)]
    BY <2>1, ConcatIs
  <2> QED BY <1>2, <2>2
<1> HIDE DEF y
<1>4. /\ f \in Seq(Nat) /\ Len(f) = lh + la + lb + lc
      /\ \A n \in 1 .. Len(y) : f[n] = y[n]
      /\ \A n \in (Len(y) + 1) .. (Len(y) + lc) : f[n] = c[n - Len(y)]
  <2>1. y \in Seq(Nat) /\ c \in Seq(Nat)
    BY <1>3
  <2>2. /\ y \o c \in Seq(Nat) /\ Len(y \o c) = Len(y) + Len(c)
        /\ \A n \in 1 .. Len(y) : (y \o c)[n] = y[n]
        /\ \A n \in (Len(y) + 1) .. (Len(y) + Len(c)) : (y \o c)[n] = c[n - Len(y)]
    BY <2>1, ConcatIs
  <2> QED BY <1>3, <2>2
<1> HIDE DEF f, lh, la, lb, lc
<1>5. \A n \in 1 .. lh : n <= Len(f) /\ f[n] = h[n]
  <2> TAKE n \in 1 .. lh
  <2>1. n \in 1 .. lh + la /\ n \in 1 .. lh + la + lb /\ n <= lh + la + lb + lc
    BY <1>1
  <2> QED BY <1>2, <1>3, <1>4, <2>1
<1>6. LiesIn(a, f, lh)
  <2>1. ASSUME NEW n \in 1 .. la PROVE f[lh + n] = a[n]
    <3> DEFINE m == lh + n
    <3>1. /\ m \in 1 .. lh + la /\ m \in 1 .. lh + la + lb /\ m \in (lh + 1) .. (lh + la)
          /\ m - lh = n
      BY <1>1
    <3> HIDE DEF m
    <3> QED BY <1>2, <1>3, <1>4, <3>1 DEF m
  <2>2. lh + la <= Len(f) /\ Len(f) \in Nat
    BY <1>1, <1>4
  <2> QED BY <1>1, <2>1, <2>2 DEF LiesIn, la
<1>7. LiesIn(b, f, lh + la)
  <2>1. ASSUME NEW n \in 1 .. lb PROVE f[lh + la + n] = b[n]
    <3> DEFINE m == lh + la + n
    <3>1. /\ m \in 1 .. lh + la + lb /\ m \in (lh + la + 1) .. (lh + la + lb)
          /\ m - (lh + la) = n
      BY <1>1
    <3> HIDE DEF m
    <3>2. y[m] = b[n]
      BY <1>2, <1>3, <3>1
    <3>3. f[m] = y[m]
      BY <1>3, <1>4, <3>1
    <3> QED BY <3>2, <3>3 DEF m
  <2>2. lh + la + lb <= Len(f) /\ Len(f) \in Nat /\ lh + la \in Nat
    BY <1>1, <1>4
  <2> QED BY <1>1, <2>1, <2>2 DEF LiesIn, lb
<1>8. LiesIn(c, f, lh + la + lb)
  <2>1. ASSUME NEW n \in 1 .. lc PROVE f[lh + la + lb + n] = c[n]
    <3> DEFINE m == lh + la + lb + n
    <3>1. /\ m \in (lh + la + lb + 1) .. (lh + la + lb + lc)
          /\ m - (lh + la + lb) = n
      BY <1>1
    <3> HIDE DEF m
    <3> QED BY <1>3, <1>4, <3>1 DEF m
  <2>2. lh + la + lb + lc <= Len(f) /\ Len(f) \in Nat /\ lh + la + lb \in Nat
    BY <1>1, <1>4
  <2> QED BY <1>1, <2>1, <2>2 DEF LiesIn, lc
<1> QED BY <1>5, <1>6, <1>7, <1>8 DEF f, y, x, lh, la, lb, HasParts

\* The words of a GraphCSR whose arrays are known.
LEMMA LoadsBack ==
  ASSUME graph \in Graphs, graph' = graph, file = CSR!Words(CSR!FromAdjacencyList(graph)),
         NEW garbage, CSR!load_from_file(file, garbage)
  PROVE  BuiltCSR'
<1> DEFINE vs == Ascending(DOMAIN graph) rp == BuiltPtrs(graph, vs) ci == BuiltIndices(graph, vs)
           h == <<Len(vs), Len(rp), Len(ci)>>
           sizes == [k \in 1 .. 3 |-> IF k <= Len(file) THEN file[k] ELSE garbage]
<1>1. Builds(graph, rp, ci, vs)
  BY DEF Builds
<1>2. file = h \o vs \o rp \o ci
  <2>1. CSR!FromAdjacencyList(graph) = [row_ptrs |-> rp, column_indices |-> ci, values |-> vs]
    BY BenchmarkGraphIs
  <2> HIDE DEF rp, ci, vs
  <2> QED BY <2>1, SMTT(40) DEF CSR!Words
<1>3. /\ values' = CSR!Read(values, file, 3, sizes[1])
      /\ row_ptrs' = CSR!Read(row_ptrs, file, 3 + sizes[1], sizes[2])
      /\ column_indices' = CSR!Read(column_indices, file, 3 + sizes[1] + sizes[2], sizes[3])
  BY DEF CSR!load_from_file
<1> HIDE DEF rp, ci, vs
<1>4. vs \in Seq(Nat) /\ rp \in Seq(Nat) /\ ci \in Seq(Nat)
  <2>1. /\ Vertices \subseteq Int /\ IsFiniteSet(Vertices)
        /\ DOMAIN graph = Vertices /\ \A x \in Vertices : graph[x] \in Seq(Vertices)
        /\ Vertices \subseteq Nat
    BY GraphsAre
  <2>2. HasRows(rp, ci, vs, Vertices, BuiltRows(graph, vs))
    BY <1>1, <2>1, HasRowsBuilt
  <2>3. vs \in Seq(Vertices) /\ Laid(rp, ci, Len(vs), BuiltRows(graph, vs))
    BY <2>2 DEF HasRows, Holds
  <2>4. rp \in Seq(Nat) /\ ci \in Seq(Nat)
    BY <2>3, LaidIs
  <2> QED BY <2>1, <2>3, <2>4, Wider
<1> DEFINE a == Len(vs) b == Len(rp) c == Len(ci)
<1>5. h \in Seq(Nat) /\ Len(h) = 3 /\ h[1] = a /\ h[2] = b /\ h[3] = c
  BY <1>4
<1>6. a \in Nat /\ b \in Nat /\ c \in Nat
  BY <1>4
<1> HIDE DEF h
<1>7. /\ \A k \in 1 .. Len(h) : k <= Len(file) /\ file[k] = h[k]
      /\ LiesIn(vs, file, Len(h)) /\ LiesIn(rp, file, Len(h) + Len(vs))
      /\ LiesIn(ci, file, Len(h) + Len(vs) + Len(rp))
  <2>1. HasParts(h \o vs \o rp \o ci, h, vs, rp, ci)
    BY <1>4, <1>5, FourParts
  <2> QED BY <1>2, <2>1 DEF HasParts
<1>8. sizes[1] = a /\ sizes[2] = b /\ sizes[3] = c
  BY <1>5, <1>7
<1>9. LiesIn(vs, file, 3) /\ LiesIn(rp, file, 3 + a) /\ LiesIn(ci, file, 3 + a + b)
  BY <1>5, <1>7
<1> HIDE DEF sizes
<1>10. values' = vs /\ row_ptrs' = rp /\ column_indices' = ci
  <2>1. CSR!Read(values, file, 3, a) = vs
    BY <1>9, ReadsBack
  <2> DEFINE k == 3 + a l == 3 + a + b
  <2>2. LiesIn(rp, file, k) /\ LiesIn(ci, file, l)
    BY <1>9
  <2> HIDE DEF k, l
  <2>3. CSR!Read(row_ptrs, file, k, b) = rp
    BY <2>2, ReadsBack
  <2>4. CSR!Read(column_indices, file, l, c) = ci
    BY <2>2, ReadsBack
  <2> QED BY <1>3, <1>8, <2>1, <2>3, <2>4 DEF k, l
<1> QED BY <1>1, <1>10 DEF BuiltCSR

----------------------------------------------------------------------------
(* The inductive invariant of benchmark_graph *)

\* Where main searches, or has searched, the arrays are those of the graph,
\* unless this run has read them from a file that was cut.
BenchmarkInv ==
  /\ graph \in Graphs
  /\ main = "save" => BuiltCSR
  /\ ~loaded_cut => /\ main # "undefined"
                    /\ main \in {"search", "join", "done"} => BuiltCSR

LEMMA BenchmarkLoads ==
  ASSUME BenchmarkInv, Load
  PROVE  BenchmarkInv'
<1>1. main = "load" /\ graph' = graph /\ file' = file
  BY DEF Load
<1>2. CASE file = NoFile
  <2>1. main' = "build"
    BY <1>2 DEF Load
  <2> QED BY <1>1, <2>1 DEF BenchmarkInv
<1>3. CASE file # NoFile
  <2>1. /\ \E garbage \in Garbage : CSR!load_from_file(file, garbage)
        /\ main' = IF WellFormed' THEN "search" ELSE "undefined"
    BY <1>3 DEF Load
  <2>2. graph' \in Graphs /\ main' # "save"
    BY <1>1, <2>1 DEF BenchmarkInv
  <2>3. ASSUME ~loaded_cut' PROVE main' # "undefined" /\ BuiltCSR'
    <3>1. file = CSR!Words(CSR!FromAdjacencyList(graph))
      BY <1>3, <2>3 DEF Load, Intact
    <3>2. BuiltCSR'
      BY <1>1, <2>1, <3>1, LoadsBack DEF BenchmarkInv
    <3>3. (graph \in Graphs)' /\ BuiltCSR' => WellFormed'
      BY BuiltIsWellFormed, PTL
    <3>4. WellFormed'
      BY <2>2, <3>2, <3>3
    <3> QED BY <2>1, <3>2, <3>4
  <2> QED BY <2>2, <2>3 DEF BenchmarkInv
<1> QED BY <1>2, <1>3

\* The steps that leave the graph, the file and the arrays alone.
LEMMA BuiltStays ==
  ASSUME UNCHANGED <<graph, csr>>, BuiltCSR
  PROVE  BuiltCSR'
BY DEF BuiltCSR, csr

LEMMA BenchmarkStep ==
  ASSUME BenchmarkInv, BenchmarkNext
  PROVE  BenchmarkInv'
<1>1. CASE Load
  BY <1>1, BenchmarkLoads
<1>2. CASE Build
  <2>1. main' = "save" /\ CSR!Construct(graph) /\ graph' = graph
    BY <1>2 DEF Build, Goto
  <2> QED BY <2>1, ConstructBuilds DEF BenchmarkInv
<1>3. CASE Save
  <2>1. main = "save" /\ main' = "search" /\ UNCHANGED <<graph, csr>>
    BY <1>3 DEF Save, Goto
  <2> QED BY <2>1, BuiltStays DEF BenchmarkInv
<1>4. CASE CallSearch
  <2>1. main = "search" /\ main' = "join" /\ UNCHANGED <<graph, csr>> /\ loaded_cut' = loaded_cut
    BY <1>4 DEF CallSearch, Goto
  <2> QED BY <2>1, BuiltStays DEF BenchmarkInv
<1>5. CASE Join
  <2>1. main = "join" /\ main' = "done" /\ UNCHANGED <<graph, csr>> /\ loaded_cut' = loaded_cut
    BY <1>5 DEF Join, Goto
  <2> QED BY <2>1, BuiltStays DEF BenchmarkInv
<1>6. CASE Run
  BY <1>6 DEF Run, BenchmarkInv
<1>7. CASE \E t \in Threads : SearchStep(t)
  <2>1. main' = main /\ UNCHANGED <<graph, csr>> /\ loaded_cut' = loaded_cut
    BY <1>7 DEF SearchStep
  <2> QED BY <2>1, BuiltStays DEF BenchmarkInv
<1> QED BY <1>1, <1>2, <1>3, <1>4, <1>5, <1>6, <1>7 DEF BenchmarkNext

----------------------------------------------------------------------------
(* What benchmark_graph searches, whatever the file held *)

\* The arrays and the words of the file are numbers.
Numbers ==
  /\ row_ptrs \in Seq(Nat) /\ column_indices \in Seq(Nat) /\ values \in Seq(Nat)
  /\ file = NoFile \/ file \in Seq(Nat)

LEMMA ReadsNumbers ==
  ASSUME NEW old \in Seq(Nat), NEW f \in Seq(Nat), NEW k \in Nat, NEW n \in Nat
  PROVE  CSR!Read(old, f, k, n) \in Seq(Nat)
<1> DEFINE w(m) == CASE k + m <= Len(f) -> f[k + m]
                     [] k + m > Len(f) /\ m <= Len(old) -> old[m]
                     [] OTHER -> 0
<1>1. \A m \in 1 .. n : w(m) \in Nat
  <2> TAKE m \in 1 .. n
  <2>1. CASE k + m <= Len(f)
    <3>1. k + m \in 1 .. Len(f)
      BY <2>1
    <3> QED BY <2>1, <3>1
  <2>2. CASE k + m > Len(f) /\ m <= Len(old)
    <3>1. m \in 1 .. Len(old) /\ ~(k + m <= Len(f))
      BY <2>2
    <3> QED BY <2>2, <3>1
  <2>3. CASE ~(k + m <= Len(f)) /\ ~(k + m > Len(f) /\ m <= Len(old))
    BY <2>3
  <2> QED BY <2>1, <2>2, <2>3
<1>2. CSR!Read(old, f, k, n) = [m \in 1 .. n |-> w(m)]
  BY DEF CSR!Read
<1> HIDE DEF w
<1> QED BY <1>1, <1>2

LEMMA LoadsNumbers ==
  ASSUME Numbers, file \in Seq(Nat), NEW garbage \in Nat, CSR!load_from_file(file, garbage)
  PROVE  row_ptrs' \in Seq(Nat) /\ column_indices' \in Seq(Nat) /\ values' \in Seq(Nat)
<1> DEFINE sizes == [k \in 1 .. 3 |-> IF k <= Len(file) THEN file[k] ELSE garbage]
           a == sizes[1] b == sizes[2] c == sizes[3] k1 == 3 + a k2 == 3 + a + b
<1>1. /\ values' = CSR!Read(values, file, 3, a)
      /\ row_ptrs' = CSR!Read(row_ptrs, file, k1, b)
      /\ column_indices' = CSR!Read(column_indices, file, k2, c)
  BY DEF CSR!load_from_file
<1>2. \A k \in 1 .. 3 : sizes[k] \in Nat
  OBVIOUS
<1>3. a \in Nat /\ b \in Nat /\ c \in Nat
  BY <1>2
<1> HIDE DEF sizes, a, b, c
<1>4. k1 \in Nat /\ k2 \in Nat
  BY <1>3
<1> HIDE DEF k1, k2
<1> QED BY <1>1, <1>3, <1>4, ReadsNumbers DEF Numbers

LEMMA WordsAreNumbers ==
  ASSUME NEW g, g.values \in Seq(Nat), g.row_ptrs \in Seq(Nat), g.column_indices \in Seq(Nat)
  PROVE  CSR!Words(g) \in Seq(Nat)
<1> DEFINE a == g.values b == g.row_ptrs c == g.column_indices
           h == <<Len(a), Len(b), Len(c)>>
<1>1. h \in Seq(Nat) /\ a \in Seq(Nat) /\ b \in Seq(Nat) /\ c \in Seq(Nat)
  OBVIOUS
<1>2. CSR!Words(g) = h \o a \o b \o c
  BY DEF CSR!Words
<1> HIDE DEF a, b, c, h
<1> QED BY <1>1, <1>2

LEMMA WritesNumbers ==
  ASSUME Numbers
  PROVE  \A f \in Written : f \in Seq(Nat)
<1> DEFINE g == [row_ptrs |-> row_ptrs, values |-> values, column_indices |-> column_indices]
           words == CSR!Words(g)
<1>1. words \in Seq(Nat)
  <2>1. g.values \in Seq(Nat) /\ g.row_ptrs \in Seq(Nat) /\ g.column_indices \in Seq(Nat)
    BY DEF Numbers
  <2> HIDE DEF g
  <2> QED BY <2>1, WordsAreNumbers
<1>2. ASSUME NEW f \in Written PROVE f = words \/ \E n \in Cuts : n < Len(words) /\ f = SubSeq(words, 1, n)
  BY DEF Written, InMemory
<1> HIDE DEF words
<1>3. ASSUME NEW n \in Cuts, n < Len(words) PROVE SubSeq(words, 1, n) \in Seq(Nat)
  <2>1. n \in Nat /\ 0 \in Nat /\ 0 <= n /\ n <= Len(words) /\ 0 + 1 = 1
    BY <1>1, <1>3, GraphsAssumption
  <2>2. SubSeq(words, 0 + 1, n) \in Seq(Nat)
    BY <1>1, <2>1, SubSeqIs
  <2> QED BY <2>1, <2>2
<1> QED BY <1>1, <1>2, <1>3

\* The rows that a search is called for, where nothing is read out of bounds.
LEMMA RowsOfVertices ==
  ASSUME Numbers, WellFormed, NEW p \in Vertices
  PROVE  CSR!Row(p) \in Seq(Vertices)
<1> DEFINE a == CSR!RowBegin(p) b == CSR!RowEnd(p) r == CSR!Row(p) n == Len(values)
<1>1. /\ CSR!Positions = Vertices /\ Len(row_ptrs) = n + 1
      /\ a <= b /\ b <= Len(column_indices) /\ CSR!EntriesInRange
  BY CSRRows, CSRQueries DEF WellFormed
<1>2. n \in Nat /\ Vertices = 0 .. n - 1
  BY <1>1, CSRRows, CSRQueries DEF Numbers
<1>3. a \in Nat /\ b \in Nat
  <2>1. p + 1 \in 1 .. n + 1 /\ p + 2 \in 1 .. n + 1
    BY <1>2
  <2> QED BY <1>1, <2>1 DEF Numbers, CSR!RowBegin, CSR!RowEnd
<1>4. r = SubSeq(column_indices, a + 1, b)
  BY DEF CSR!Row
<1>5. Range(r) \subseteq Vertices
  BY <1>1 DEF CSR!EntriesInRange, CSR!Range, Range
<1> HIDE DEF a, b, n
<1>6. r \in Seq(Nat)
  <2>1. column_indices \in Seq(Nat)
    BY DEF Numbers
  <2>2. SubSeq(column_indices, a + 1, b) \in Seq(Nat)
    BY <1>1, <1>3, <2>1, SubSeqIs
  <2> QED BY <1>4, <2>2
<1> HIDE DEF r
<1>7. \A k \in 1 .. Len(r) : r[k] \in Vertices
  BY <1>5, <1>6 DEF Range
<1>8. r \in Seq(Vertices)
  BY <1>6, <1>7
<1> QED BY <1>8 DEF r

ArraysAreNumbers ==
  row_ptrs \in Seq(Nat) /\ column_indices \in Seq(Nat) /\ values \in Seq(Nat)

LEMMA BuiltNumbers == graph \in Graphs /\ BuiltCSR => ArraysAreNumbers
<1> SUFFICES ASSUME graph \in Graphs, BuiltCSR
             PROVE  row_ptrs \in Seq(Nat) /\ column_indices \in Seq(Nat) /\ values \in Seq(Nat)
  BY DEF ArraysAreNumbers
<1> DEFINE n == Len(values)
<1>1. PICK R : HasGraph(row_ptrs, column_indices, values, Vertices, R)
  BY BuiltIs
<1>2. Laid(row_ptrs, column_indices, n, R) /\ values \in Seq(Vertices)
  BY <1>1 DEF HasGraph, HasRows, Holds
<1>3. Vertices \subseteq Nat
  BY GraphsAre
<1> HIDE DEF n
<1> QED BY <1>2, <1>3, LaidIs, Wider

\* What is called for a search is well formed, also where the file has been cut.
SearchedInv ==
  /\ BenchmarkInv
  /\ Numbers
  /\ main = "search" => WellFormed

LEMMA SearchedInitially == BenchmarkInit => SearchedInv
BY DEF BenchmarkInit, SearchedInv, BenchmarkInv, Numbers, CSR!Init

LEMMA SearchedStays ==
  ASSUME SearchedInv, BenchmarkInv', UNCHANGED <<file, csr>>,
         main' = "search" => main = "search"
  PROVE  SearchedInv'
BY DEF SearchedInv, Numbers, csr, WellFormed, CSR!Has, CSR!value_index, CSR!Positions, CSR!size,
       CSR!RowBegin, CSR!RowEnd, CSR!EntriesInRange, CSR!Row

LEMMA SearchedStep ==
  ASSUME SearchedInv, BenchmarkNext
  PROVE  SearchedInv'
<1>0. BenchmarkInv'
  BY BenchmarkStep DEF SearchedInv
<1>1. CASE Load
  <2>1. CASE file = NoFile
    BY <1>0, <1>1, <2>1, SearchedStays DEF Load
  <2>2. CASE file # NoFile
    <3>1. PICK garbage \in Garbage : CSR!load_from_file(file, garbage)
      BY <1>1, <2>2 DEF Load
    <3>2. file \in Seq(Nat) /\ garbage \in Nat /\ file' = file
      BY <1>1, <2>2, GraphsAssumption DEF Load, SearchedInv, Numbers
    <3>3. row_ptrs' \in Seq(Nat) /\ column_indices' \in Seq(Nat) /\ values' \in Seq(Nat)
      BY <3>1, <3>2, LoadsNumbers DEF SearchedInv
    <3>4. main' = "search" => WellFormed'
      BY <1>1, <2>2 DEF Load
    <3> QED BY <1>0, <3>2, <3>3, <3>4 DEF SearchedInv, Numbers
  <2> QED BY <2>1, <2>2
<1>2. CASE Build
  <2>1. main' = "save" /\ CSR!Construct(graph) /\ graph' = graph /\ file' = file
    BY <1>2 DEF Build, Goto
  <2>2. (graph \in Graphs)' /\ BuiltCSR'
    BY <2>1, ConstructBuilds DEF SearchedInv, BenchmarkInv
  <2>3. (graph \in Graphs)' /\ BuiltCSR' => ArraysAreNumbers'
    BY BuiltNumbers, PTL
  <2> QED BY <1>0, <2>1, <2>2, <2>3 DEF SearchedInv, Numbers, ArraysAreNumbers
<1>3. CASE Save
  <2>1. main = "save" /\ UNCHANGED <<graph, csr>> /\ file' \in {file} \cup Written
    BY <1>3 DEF Save, Goto
  <2>2. (graph \in Graphs)' /\ BuiltCSR'
    BY <2>1, BuiltStays DEF SearchedInv, BenchmarkInv
  <2>3. (graph \in Graphs)' /\ BuiltCSR' => WellFormed'
    BY BuiltIsWellFormed, PTL
  <2>4. file' = NoFile \/ file' \in Seq(Nat)
    BY <2>1, WritesNumbers DEF SearchedInv, Numbers
  <2> QED BY <1>0, <2>1, <2>2, <2>3, <2>4 DEF SearchedInv, Numbers, csr
<1>4. CASE CallSearch
  BY <1>0, <1>4, SearchedStays DEF CallSearch, Goto
<1>5. CASE Join
  BY <1>0, <1>5, SearchedStays DEF Join, Goto
<1>6. CASE Run
  <2>1. /\ main' = "load" /\ row_ptrs' = <<0>> /\ column_indices' = <<>> /\ values' = <<>>
        /\ file' \in {file} \cup Written
    BY <1>6 DEF Run
  <2>2. file' = NoFile \/ file' \in Seq(Nat)
    BY <2>1, WritesNumbers DEF SearchedInv, Numbers
  <2> QED BY <1>0, <2>1, <2>2 DEF SearchedInv, Numbers
<1>7. CASE \E t \in Threads : SearchStep(t)
  BY <1>0, <1>7, SearchedStays DEF SearchStep
<1> QED BY <1>1, <1>2, <1>3, <1>4, <1>5, <1>6, <1>7 DEF BenchmarkNext

LEMMA SearchedAlways == BenchmarkSpec => []SearchedInv
<1>1. SearchedInv /\ [BenchmarkNext]_allVars => SearchedInv'
  <2>1. ASSUME SearchedInv, UNCHANGED allVars PROVE SearchedInv'
    <3>1. main' = main /\ UNCHANGED <<graph, csr>> /\ UNCHANGED <<file, csr>>
          /\ loaded_cut' = loaded_cut
      BY <2>1 DEF allVars
    <3>2. BenchmarkInv'
      BY <2>1, <3>1, BuiltStays DEF SearchedInv, BenchmarkInv
    <3> QED BY <2>1, <3>1, <3>2, SearchedStays
  <2> QED BY <2>1, SearchedStep
<1> QED BY <1>1, SearchedInitially, PTL DEF BenchmarkSpec

----------------------------------------------------------------------------
(* What is in the file is in the arrays *)

\* w begins with f.
Continues(f, w) == /\ f \in Seq(Nat) /\ w \in Seq(Nat) /\ Len(f) <= Len(w)
                   /\ \A n \in 1 .. Len(f) : f[n] = w[n]

LEMMA ContinuesItself == \A w \in Seq(Nat) : Continues(w, w)
BY DEF Continues

LEMMA ContinuesCut ==
  ASSUME NEW w \in Seq(Nat), NEW n \in Nat, n <= Len(w)
  PROVE  Continues(SubSeq(w, 1, n), w)
<1>1. 0 \in Nat /\ 0 <= n /\ 0 + 1 = 1 /\ n - 0 = n
  OBVIOUS
<1>2. /\ SubSeq(w, 0 + 1, n) \in Seq(Nat) /\ Len(SubSeq(w, 0 + 1, n)) = n - 0
      /\ \A k \in 1 .. n - 0 : SubSeq(w, 0 + 1, n)[k] = w[0 + k]
  BY <1>1, SubSeqIs
<1> DEFINE f == SubSeq(w, 1, n)
<1>3. f \in Seq(Nat) /\ Len(f) = n /\ \A k \in 1 .. n : f[k] = w[0 + k]
  BY <1>1, <1>2
<1> HIDE DEF f
<1>4. \A k \in 1 .. n : f[k] = w[k]
  BY <1>3
<1>5. Continues(f, w)
  BY <1>3, <1>4 DEF Continues
<1> QED BY <1>5 DEF f

LEMMA ContinuesIsPrefix ==
  ASSUME NEW f, NEW w, Continues(f, w)
  PROVE  CSR!IsPrefix(f, w)
<1> DEFINE n == Len(f) g == SubSeq(w, 1, n)
<1>1. /\ f \in Seq(Nat) /\ w \in Seq(Nat) /\ n \in Nat /\ n <= Len(w)
      /\ \A k \in 1 .. n : f[k] = w[k]
  BY DEF Continues
<1>2. SubSeq(f, 1, n) = f
  BY <1>1
<1>3. Continues(g, w) /\ Len(g) = n
  <2>1. 0 \in Nat /\ 0 <= n /\ 0 + 1 = 1 /\ n - 0 = n
    BY <1>1
  <2>2. Len(SubSeq(w, 0 + 1, n)) = n - 0
    BY <1>1, <2>1, SubSeqIs
  <2> QED BY <1>1, <2>1, <2>2, ContinuesCut
<1> HIDE DEF g
<1>4. g \in Seq(Nat) /\ \A k \in 1 .. n : g[k] = f[k]
  BY <1>1, <1>3 DEF Continues
<1>5. f = [k \in 1 .. n |-> f[k]]
  BY <1>1
<1>6. g = [k \in 1 .. Len(g) |-> g[k]]
  BY <1>4
<1> HIDE DEF n
<1>7. g = f
  BY <1>3, <1>4, <1>5, <1>6
<1> QED BY <1>1, <1>2, <1>7 DEF g, n, CSR!IsPrefix

\* The three sizes and the arrays behind one another.
Together(a, b, c) == <<Len(a), Len(b), Len(c)>> \o a \o b \o c

LEMMA TogetherIs ==
  ASSUME NEW a \in Seq(Nat), NEW b \in Seq(Nat), NEW c \in Seq(Nat)
  PROVE  /\ Together(a, b, c) \in Seq(Nat)
         /\ Len(Together(a, b, c)) = 3 + Len(a) + Len(b) + Len(c)
         /\ HasParts(Together(a, b, c), <<Len(a), Len(b), Len(c)>>, a, b, c)
<1> DEFINE h == <<Len(a), Len(b), Len(c)>> x == h \o a y == x \o b
<1>1. h \in Seq(Nat) /\ Len(h) = 3
  OBVIOUS
<1> HIDE DEF h
<1>2. ASSUME NEW s \in Seq(Nat), NEW t \in Seq(Nat)
      PROVE  s \o t \in Seq(Nat) /\ Len(s \o t) = Len(s) + Len(t)
  BY ConcatIs
<1>3. x \in Seq(Nat) /\ Len(x) = 3 + Len(a)
  BY <1>1, <1>2
<1> HIDE DEF x
<1>4. y \in Seq(Nat) /\ Len(y) = 3 + Len(a) + Len(b)
  BY <1>2, <1>3
<1> HIDE DEF y
<1>6. y \o c \in Seq(Nat) /\ Len(y \o c) = 3 + Len(a) + Len(b) + Len(c)
  BY <1>2, <1>4
<1>5. HasParts(h \o a \o b \o c, h, a, b, c)
  BY <1>1, FourParts
<1> QED BY <1>5, <1>6 DEF Together, y, x, h

\* The n-th word of the whole, told by where it lies.
LEMMA WordOf ==
  ASSUME NEW a \in Seq(Nat), NEW b \in Seq(Nat), NEW c \in Seq(Nat),
         NEW n \in 1 .. 3 + Len(a) + Len(b) + Len(c)
  PROVE  \/ n \in 1 .. 3 /\ Together(a, b, c)[n] = <<Len(a), Len(b), Len(c)>>[n]
         \/ \E k \in 1 .. Len(a) : n = 3 + k /\ Together(a, b, c)[n] = a[k]
         \/ \E k \in 1 .. Len(b) : n = 3 + Len(a) + k /\ Together(a, b, c)[n] = b[k]
         \/ \E k \in 1 .. Len(c) : n = 3 + Len(a) + Len(b) + k /\ Together(a, b, c)[n] = c[k]
<1> DEFINE la == Len(a) lb == Len(b) lc == Len(c) h == <<la, lb, lc>> w == Together(a, b, c)
<1>1. la \in Nat /\ lb \in Nat /\ lc \in Nat /\ Len(h) = 3
  OBVIOUS
<1>2. /\ \A k \in 1 .. 3 : w[k] = h[k]
      /\ \A k \in 1 .. la : w[3 + k] = a[k]
      /\ \A k \in 1 .. lb : w[3 + la + k] = b[k]
      /\ \A k \in 1 .. lc : w[3 + la + lb + k] = c[k]
  <2>1. HasParts(w, h, a, b, c)
    BY TogetherIs
  <2> HIDE DEF w, h
  <2> QED BY <1>1, <2>1 DEF HasParts, LiesIn
<1> HIDE DEF w, h
<1>3. n \in Int /\ 1 <= n /\ n <= 3 + la + lb + lc
  BY <1>1
<1> SUFFICES \/ n \in 1 .. 3 /\ w[n] = h[n]
             \/ \E k \in 1 .. la : n = 3 + k /\ w[n] = a[k]
             \/ \E k \in 1 .. lb : n = 3 + la + k /\ w[n] = b[k]
             \/ \E k \in 1 .. lc : n = 3 + la + lb + k /\ w[n] = c[k]
  BY DEF w, h
<1> HIDE DEF la, lb, lc
<1>4. CASE n <= 3
  BY <1>2, <1>3, <1>4
<1>5. CASE 3 < n /\ n <= 3 + la
  <2>1. n - 3 \in 1 .. la /\ n = 3 + (n - 3)
    BY <1>1, <1>3, <1>5
  <2> QED BY <1>2, <2>1
<1>6. CASE 3 + la < n /\ n <= 3 + la + lb
  <2>1. n - (3 + la) \in 1 .. lb /\ n = 3 + la + (n - (3 + la))
    BY <1>1, <1>3, <1>6
  <2> QED BY <1>2, <2>1
<1>7. CASE 3 + la + lb < n
  <2>1. n - (3 + la + lb) \in 1 .. lc /\ n = 3 + la + lb + (n - (3 + la + lb))
    BY <1>1, <1>3, <1>7
  <2> QED BY <1>2, <2>1
<1> QED BY <1>1, <1>3, <1>4, <1>5, <1>6, <1>7

LEMMA InMemoryIs == InMemory = Together(values, row_ptrs, column_indices)
BY DEF InMemory, Together, CSR!Words

\* What load_from_file makes of a file that may end anywhere.
LEMMA ReadKeeps ==
  ASSUME NEW old \in Seq(Nat), NEW f \in Seq(Nat), NEW k \in Nat, NEW n \in Nat
  PROVE  /\ Len(CSR!Read(old, f, k, n)) = n
         /\ \A m \in 1 .. n : k + m <= Len(f) => CSR!Read(old, f, k, n)[m] = f[k + m]
<1> DEFINE w(m) == CASE k + m <= Len(f) -> f[k + m]
                     [] k + m > Len(f) /\ m <= Len(old) -> old[m]
                     [] OTHER -> 0
           r == [m \in 1 .. n |-> w(m)]
<1>1. CSR!Read(old, f, k, n) = r
  BY DEF CSR!Read
<1>2. r \in Seq(Nat)
  BY <1>1, ReadsNumbers
<1>3. ASSUME NEW m \in 1 .. n, k + m <= Len(f) PROVE w(m) = f[k + m]
  BY <1>3
<1> HIDE DEF w
<1>4. Len(r) = n /\ \A m \in 1 .. n : r[m] = w(m)
  BY <1>2
<1> HIDE DEF r
<1> QED BY <1>1, <1>3, <1>4

LEMMA LoadKeeps ==
  ASSUME Numbers, NEW garbage \in Nat, CSR!load_from_file(file, garbage),
         NEW a0 \in Seq(Nat), NEW b0 \in Seq(Nat), NEW c0 \in Seq(Nat),
         Continues(file, Together(a0, b0, c0))
  PROVE  Continues(file, Together(values', row_ptrs', column_indices'))
<1> DEFINE sizes == [k \in 1 .. 3 |-> IF k <= Len(file) THEN file[k] ELSE garbage]
           a == sizes[1] b == sizes[2] c == sizes[3] k1 == 3 + a k2 == 3 + a + b
           v == values' p == row_ptrs' q == column_indices' N == Len(file)
           w0 == Together(a0, b0, c0)
<1>1. /\ v = CSR!Read(values, file, 3, a)
      /\ p = CSR!Read(row_ptrs, file, k1, b)
      /\ q = CSR!Read(column_indices, file, k2, c)
  BY DEF CSR!load_from_file
<1>2. file \in Seq(Nat) /\ N \in Nat /\ N <= Len(w0) /\ \A n \in 1 .. N : file[n] = w0[n]
  BY DEF Continues
<1>3. \A n \in 1 .. 3 : sizes[n] \in Nat /\ (n <= N => sizes[n] = file[n])
  BY <1>2
<1>4. a \in Nat /\ b \in Nat /\ c \in Nat
  BY <1>3
<1>5. (N >= 1 => a = file[1]) /\ (N >= 2 => b = file[2]) /\ (N >= 3 => c = file[3])
  BY <1>2, <1>3
<1>6. v \in Seq(Nat) /\ p \in Seq(Nat) /\ q \in Seq(Nat)
  BY <1>2, LoadsNumbers
<1> HIDE DEF sizes, a, b, c
<1>7. k1 \in Nat /\ k2 \in Nat
  BY <1>4
<1> HIDE DEF k1, k2, v, p, q
<1>8. /\ Len(v) = a /\ \A m \in 1 .. a : 3 + m <= N => v[m] = file[3 + m]
      /\ Len(p) = b /\ \A m \in 1 .. b : k1 + m <= N => p[m] = file[k1 + m]
      /\ Len(q) = c /\ \A m \in 1 .. c : k2 + m <= N => q[m] = file[k2 + m]
  <2>1. values \in Seq(Nat) /\ row_ptrs \in Seq(Nat) /\ column_indices \in Seq(Nat) /\ 3 \in Nat
    BY DEF Numbers
  <2>2. file \in Seq(Nat)
    BY <1>2
  <2> DEFINE ReadsFrom(r, k, n) == Len(r) = n /\ \A m \in 1 .. n : k + m <= N => r[m] = file[k + m]
  <2>3. ASSUME NEW old \in Seq(Nat), NEW k \in Nat, NEW n \in Nat
        PROVE  ReadsFrom(CSR!Read(old, file, k, n), k, n)
    BY <2>2, ReadKeeps
  <2> HIDE DEF ReadsFrom
  <2>4. ReadsFrom(v, 3, a)
    BY <1>1, <1>4, <2>1, <2>3
  <2>5. ReadsFrom(p, k1, b)
    BY <1>1, <1>4, <1>7, <2>1, <2>3
  <2>6. ReadsFrom(q, k2, c)
    BY <1>1, <1>4, <1>7, <2>1, <2>3
  <2> QED BY <2>4, <2>5, <2>6 DEF ReadsFrom
<1> DEFINE w == Together(v, p, q)
<1>9. w \in Seq(Nat) /\ Len(w) = 3 + a + b + c
  BY <1>6, <1>8, TogetherIs
<1>10. N <= 3 + a + b + c
  <2>1. CASE N < 3
    BY <1>2, <1>4, <2>1
  <2>2. CASE N >= 3
    <3> DEFINE h0 == <<Len(a0), Len(b0), Len(c0)>>
    <3>1. Len(w0) = 3 + Len(a0) + Len(b0) + Len(c0) /\ HasParts(w0, h0, a0, b0, c0)
      BY TogetherIs
    <3>2. Len(h0) = 3 /\ h0[1] = Len(a0) /\ h0[2] = Len(b0) /\ h0[3] = Len(c0)
      OBVIOUS
    <3> HIDE DEF h0, w0
    <3>3. \A n \in 1 .. 3 : w0[n] = h0[n]
      BY <3>1, <3>2 DEF HasParts
    <3>4. a = Len(a0) /\ b = Len(b0) /\ c = Len(c0)
      BY <1>2, <1>5, <2>2, <3>2, <3>3
    <3> QED BY <1>2, <3>1, <3>4
  <2> QED BY <1>2, <2>1, <2>2
<1>11. ASSUME NEW n \in 1 .. N PROVE file[n] = w[n]
  <2>1. n \in 1 .. 3 + Len(v) + Len(p) + Len(q)
    BY <1>2, <1>4, <1>8, <1>10
  <2>2. \/ n \in 1 .. 3 /\ w[n] = <<Len(v), Len(p), Len(q)>>[n]
        \/ \E k \in 1 .. Len(v) : n = 3 + k /\ w[n] = v[k]
        \/ \E k \in 1 .. Len(p) : n = 3 + Len(v) + k /\ w[n] = p[k]
        \/ \E k \in 1 .. Len(q) : n = 3 + Len(v) + Len(p) + k /\ w[n] = q[k]
    <3> DEFINE M == 3 + Len(v) + Len(p) + Len(q)
    <3>1. n \in 1 .. M
      BY <2>1
    <3> QED BY <1>6, <3>1, WordOf, ZenonT(30)
  <2> HIDE DEF w
  <2>3. CASE n \in 1 .. 3 /\ w[n] = <<Len(v), Len(p), Len(q)>>[n]
    <3>1. n \in Nat /\ n <= N
      BY <1>2
    <3>2. CASE n = 1
      BY <1>5, <1>8, <2>3, <3>1, <3>2
    <3>3. CASE n = 2
      BY <1>5, <1>8, <2>3, <3>1, <3>3
    <3>4. CASE n = 3
      BY <1>5, <1>8, <2>3, <3>1, <3>4
    <3> QED BY <2>3, <3>2, <3>3, <3>4
  <2>4. CASE \E k \in 1 .. Len(v) : n = 3 + k /\ w[n] = v[k]
    BY <1>2, <1>8, <2>4
  <2>5. CASE \E k \in 1 .. Len(p) : n = 3 + Len(v) + k /\ w[n] = p[k]
    BY <1>2, <1>8, <2>5 DEF k1
  <2>6. CASE \E k \in 1 .. Len(q) : n = 3 + Len(v) + Len(p) + k /\ w[n] = q[k]
    BY <1>2, <1>8, <2>6 DEF k2
  <2> QED BY <2>2, <2>3, <2>4, <2>5, <2>6
<1>12. Continues(file, w)
  <2> HIDE DEF w
  <2> QED BY <1>2, <1>9, <1>10, <1>11 DEF Continues
<1> QED BY <1>12 DEF v, p, q

\* The words of the graph that add_random_edges builds.
GraphWords == LET vs == Ascending(DOMAIN graph)
              IN Together(vs, BuiltPtrs(graph, vs), BuiltIndices(graph, vs))

LEMMA BuiltWords ==
  ASSUME graph \in Graphs, BuiltCSR
  PROVE  InMemory = GraphWords /\ InMemory \in Seq(Nat)
<1>1. InMemory = GraphWords
  BY InMemoryIs DEF BuiltCSR, Builds, GraphWords
<1>2. InMemory \in Seq(Nat)
  BY InMemoryIs, BuiltNumbers, TogetherIs DEF ArraysAreNumbers
<1> QED BY <1>1, <1>2

LEMMA GraphPartsAreNumbers ==
  ASSUME NEW adj \in Graphs, NEW vs, vs = Ascending(DOMAIN adj)
  PROVE  vs \in Seq(Nat) /\ BuiltPtrs(adj, vs) \in Seq(Nat) /\ BuiltIndices(adj, vs) \in Seq(Nat)
<1> DEFINE rp == BuiltPtrs(adj, vs) ci == BuiltIndices(adj, vs)
<1>1. Builds(adj, rp, ci, vs)
  BY DEF Builds
<1> HIDE DEF rp, ci
<1>2. /\ Vertices \subseteq Int /\ IsFiniteSet(Vertices)
      /\ DOMAIN adj = Vertices /\ \A x \in Vertices : adj[x] \in Seq(Vertices)
      /\ Vertices \subseteq Nat
  BY GraphsAre
<1>3. HasRows(rp, ci, vs, Vertices, BuiltRows(adj, vs))
  BY <1>1, <1>2, HasRowsBuilt
<1>4. vs \in Seq(Vertices) /\ Laid(rp, ci, Len(vs), BuiltRows(adj, vs))
  BY <1>3 DEF HasRows, Holds
<1>5. rp \in Seq(Nat) /\ ci \in Seq(Nat)
  BY <1>4, LaidIs
<1> QED BY <1>2, <1>4, <1>5, Wider DEF rp, ci

\* The file holds the beginning of the words of the graph, and the arrays of a run
\* that is past its load and its save go on from there.
FileInv ==
  /\ SearchedInv
  /\ file # NoFile => Continues(file, GraphWords)
  /\ main \in {"search", "join", "done", "undefined"} /\ file # NoFile =>
       Continues(file, InMemory)

LEMMA WrittenContinues ==
  ASSUME SearchedInv, main = "save", NEW f \in Written
  PROVE  Continues(f, GraphWords)
<1>1. InMemory = GraphWords /\ InMemory \in Seq(Nat)
  BY BuiltWords DEF SearchedInv, BenchmarkInv
<1>2. f = InMemory \/ \E n \in Cuts : n < Len(InMemory) /\ f = SubSeq(InMemory, 1, n)
  BY DEF Written
<1> DEFINE w == InMemory
<1>3. w = GraphWords /\ w \in Seq(Nat) /\ Len(w) \in Nat
      /\ (f = w \/ \E n \in Cuts : n < Len(w) /\ f = SubSeq(w, 1, n))
  BY <1>1, <1>2
<1> HIDE DEF w
<1>4. CASE f = w
  BY <1>3, <1>4, ContinuesItself
<1>5. ASSUME NEW n \in Cuts, n < Len(w), f = SubSeq(w, 1, n) PROVE Continues(f, w)
  <2>1. n \in Nat /\ n <= Len(w)
    BY <1>3, <1>5, GraphsAssumption
  <2> QED BY <1>3, <1>5, <2>1, ContinuesCut
<1> QED BY <1>3, <1>4, <1>5

LEMMA FileStays ==
  ASSUME FileInv, SearchedInv', UNCHANGED <<graph, file>>, UNCHANGED csr,
         main' \in {"search", "join", "done", "undefined"} =>
           main \in {"search", "join", "done", "undefined"}
  PROVE  FileInv'
<1>1. GraphWords' = GraphWords
  BY DEF GraphWords
<1>2. InMemory' = InMemory
  BY DEF InMemory, csr
<1> QED BY <1>1, <1>2 DEF FileInv

LEMMA FileStep ==
  ASSUME FileInv, BenchmarkNext
  PROVE  FileInv'
<1>0. SearchedInv'
  BY SearchedStep DEF FileInv
<1>1. CASE Load
  <2>1. UNCHANGED <<graph, file>> /\ GraphWords' = GraphWords
    BY <1>1 DEF Load, GraphWords
  <2>2. CASE file = NoFile
    BY <1>0, <2>1, <2>2 DEF FileInv
  <2>3. CASE file # NoFile
    <3>1. PICK garbage \in Garbage : CSR!load_from_file(file, garbage)
      BY <1>1, <2>3 DEF Load
    <3>2. garbage \in Nat /\ Numbers /\ Continues(file, GraphWords) /\ graph \in Graphs
      BY <2>3, GraphsAssumption DEF FileInv, SearchedInv, BenchmarkInv
    <3>3. Continues(file, Together(values', row_ptrs', column_indices'))
      <4> DEFINE vs == Ascending(DOMAIN graph) rp == BuiltPtrs(graph, vs) ci == BuiltIndices(graph, vs)
      <4>1. vs \in Seq(Nat) /\ rp \in Seq(Nat) /\ ci \in Seq(Nat)
        BY <3>2, GraphPartsAreNumbers
      <4>2. Continues(file, Together(vs, rp, ci))
        BY <3>2 DEF GraphWords
      <4> HIDE DEF vs, rp, ci
      <4> QED BY <3>1, <3>2, <4>1, <4>2, LoadKeeps
    <3>4. InMemory' = Together(values', row_ptrs', column_indices')
      BY DEF InMemory, Together, CSR!Words
    <3> QED BY <1>0, <2>1, <3>2, <3>3, <3>4 DEF FileInv
  <2> QED BY <2>2, <2>3
<1>2. CASE Build
  <2>1. main' = "save" /\ UNCHANGED <<graph, file>> /\ GraphWords' = GraphWords
    BY <1>2 DEF Build, Goto, GraphWords
  <2> QED BY <1>0, <2>1 DEF FileInv
<1>3. CASE Save
  <2>1. /\ main = "save" /\ file' \in {file} \cup Written /\ graph' = graph
        /\ GraphWords' = GraphWords /\ InMemory' = InMemory
    BY <1>3 DEF Save, Goto, GraphWords, InMemory, csr
  <2>2. InMemory = GraphWords
    BY <2>1, BuiltWords DEF FileInv, SearchedInv, BenchmarkInv
  <2>3. file' # NoFile => Continues(file', GraphWords)
    BY <2>1, WrittenContinues DEF FileInv
  <2> QED BY <1>0, <2>1, <2>2, <2>3 DEF FileInv
<1>4. CASE CallSearch
  BY <1>0, <1>4, FileStays DEF CallSearch, Goto
<1>5. CASE Join
  BY <1>0, <1>5, FileStays DEF Join, Goto
<1>6. CASE Run
  <2>1. /\ main' = "load" /\ GraphWords' = GraphWords
        /\ file' \in IF main = "save" THEN {file} \cup Written ELSE {file}
    BY <1>6 DEF Run, GraphWords
  <2>2. file' # NoFile => Continues(file', GraphWords)
    BY <2>1, WrittenContinues DEF FileInv
  <2> QED BY <1>0, <2>1, <2>2 DEF FileInv
<1>7. CASE \E t \in Threads : SearchStep(t)
  BY <1>0, <1>7, FileStays DEF SearchStep
<1> QED BY <1>1, <1>2, <1>3, <1>4, <1>5, <1>6, <1>7 DEF BenchmarkNext

\* main of benchmark_graph searches the graph that was built: in every run that
\* builds it, even if its file is cut then, and in every run that loads it from a
\* file that an earlier run has written in full.  A run that loads a file that was
\* cut, at any place, has in its arrays what the file holds, word by word as far as
\* it goes; that it searches the graph is not claimed, for it need not.
THEOREM TheBuiltGraphIsSearched == BenchmarkSpec => []SearchesTheBuiltGraph
<1>1. BenchmarkInit => FileInv
  BY SearchedInitially DEF BenchmarkInit, FileInv
<1>2. FileInv /\ [BenchmarkNext]_allVars => FileInv'
  <2>1. ASSUME FileInv, UNCHANGED allVars PROVE FileInv'
    <3>1. main' = main /\ UNCHANGED <<graph, file, csr>> /\ loaded_cut' = loaded_cut
      BY <2>1 DEF allVars
    <3>2. BenchmarkInv'
      BY <2>1, <3>1, BuiltStays DEF FileInv, SearchedInv, BenchmarkInv
    <3>3. SearchedInv'
      BY <2>1, <3>1, <3>2, SearchedStays DEF FileInv
    <3> QED BY <2>1, <3>1, <3>3, FileStays
  <2> QED BY <2>1, FileStep
<1>3. FileInv => KeepsTheFile
  BY ContinuesIsPrefix DEF FileInv, KeepsTheFile
<1>4. FileInv => BuiltUnlessCut
  BY BuiltIsSearched DEF FileInv, SearchedInv, BenchmarkInv, BuiltUnlessCut
<1> QED BY <1>1, <1>2, <1>3, <1>4, PTL DEF BenchmarkSpec, SearchesTheBuiltGraph

----------------------------------------------------------------------------
(* The searches of benchmark_graph *)

\* The benchmark as a client of the threaded searches.
LEMMA BenchmarkCalls ==
  ASSUME SearchedInv, BenchmarkNext
  PROVE  Next \/ UNCHANGED vars
<1>1. CASE CallSearch
  <2>1. main = "search" /\ \E v \in Versions : Call(v, [p \in Vertices |-> CSR!Row(p)])
    BY <1>1 DEF CallSearch, Goto
  <2>2. [p \in Vertices |-> CSR!Row(p)] \in [Vertices -> Seq(Vertices)]
    BY <2>1, RowsOfVertices DEF SearchedInv
  <2>3. Versions \subseteq 1 .. 3
    BY GraphsAssumption
  <2> QED BY <2>1, <2>2, <2>3 DEF Next
<1>2. CASE Run
  BY <1>2 DEF Run, Next
<1>3. CASE \E t \in Threads : SearchStep(t)
  BY <1>3 DEF SearchStep, Next
<1>4. CASE Load \/ Build \/ Save \/ Join
  BY <1>4 DEF Load, Build, Save, Join
<1> QED BY <1>1, <1>2, <1>3, <1>4 DEF BenchmarkNext

\* main calls a search, joins its threads and otherwise leaves the variables of
\* the search alone: what is searched are rows of vertices that exist.
THEOREM BenchmarkSearches == BenchmarkSpec => Spec
<1>1. BenchmarkInit => Init
  BY DEF BenchmarkInit
<1>2. SearchedInv /\ [BenchmarkNext]_allVars => [Next]_vars
  <2>1. UNCHANGED allVars => UNCHANGED vars
    BY DEF allVars
  <2> QED BY <2>1, BenchmarkCalls
<1> QED BY <1>1, <1>2, SearchedAlways, PTL DEF BenchmarkSpec, Spec

\* So what is proved of the threaded searches holds in the benchmark, run after
\* run, whatever the file held.
THEOREM BenchmarkImplementsBreadthFirst ==
  BenchmarkSpec => []SharesAreCurrent /\ ImplementsBreadthFirst
BY BenchmarkSearches, SharesAreCurrentHolds, ImplementsBreadthFirstHolds, PTL

----------------------------------------------------------------------------
(* dfs and bfs *)

\* What a search keeps while it runs, over the vertices V.
SearchStates(V) == [visited : SUBSET V, to_visit : Seq(V), observed : Seq(V)]

\* GraphCSR calls the bfs that garph_algo.hpp has for any graph.
LEMMA SameSearches ==
  \A g, x : CSR!Search!bfs(g, x) = Algo!bfs(g, x)
BY DEF CSR!Search!bfs, CSR!Search!Rounds, CSR!Search!Begin,
       CSR!Search!FromQueue, CSR!Search!Discover,
       CSR!Search!Cardinality,
       Algo!bfs, Algo!Rounds, Algo!Begin,
       Algo!FromQueue, Algo!Discover, Algo!Cardinality

\* d is s, and what of the vertices in R was not marked is marked and pushed.
Discovers(d, s, R, V) ==
  /\ d \in SearchStates(V)
  /\ d.observed = s.observed
  /\ d.visited = s.visited \cup R
  /\ \E q \in Seq(V) : /\ d.to_visit = s.to_visit \o q
                       /\ IsInjective(q) /\ Range(q) = R \ s.visited

LEMMA DiscoversNothing ==
  ASSUME NEW V, NEW s \in SearchStates(V)
  PROVE  Discovers(s, s, {}, V)
<1>1. <<>> \in Seq(V) /\ IsInjective(<<>>) /\ Range(<<>>) = {}
  BY EmptyRange
<1>2. s.to_visit \in Seq(V)
  BY DEF SearchStates
<1>3. s.to_visit = s.to_visit \o <<>>
  BY <1>2
<1> QED BY <1>1, <1>3 DEF Discovers

\* One vertex of the row.
Push(r, v) == IF v \in r.visited THEN r
              ELSE [r EXCEPT !.visited = @ \cup {v}, !.to_visit = Append(@, v)]

LEMMA DiscoversOne ==
  ASSUME NEW V, NEW s \in SearchStates(V), NEW R, NEW d, Discovers(d, s, R, V), NEW v \in V,
         NEW U, U = R \cup {v}
  PROVE  Push(d, v) \in SearchStates(V) /\ Discovers(Push(d, v), s, U, V)
<1>1. PICK q \in Seq(V) : /\ d.to_visit = s.to_visit \o q
                          /\ IsInjective(q) /\ Range(q) = R \ s.visited
  BY DEF Discovers
<1>2. d \in SearchStates(V) /\ d.observed = s.observed /\ d.visited = s.visited \cup R
  BY DEF Discovers
<1>3. CASE v \in d.visited
  <2>1. Push(d, v) = d
    BY <1>3 DEF Push
  <2>2. d.visited = s.visited \cup U /\ Range(q) = U \ s.visited
    BY <1>1, <1>2, <1>3
  <2> QED BY <1>1, <1>2, <2>1, <2>2 DEF Discovers
<1>4. CASE v \notin d.visited
  <2> DEFINE e == Push(d, v)
             w == Append(q, v)
  <2>1. /\ e.visited = d.visited \cup {v} /\ e.to_visit = Append(d.to_visit, v)
        /\ e.observed = d.observed /\ e \in SearchStates(V)
    <3>1. Append(d.to_visit, v) \in Seq(V)
      BY <1>2 DEF SearchStates
    <3> QED BY <1>2, <1>4, <3>1 DEF Push, SearchStates
  <2>2. w \in Seq(V) /\ Range(w) = Range(q) \cup {v} /\ IsInjective(w)
    BY <1>1, <1>2, <1>4, RangeOfAppend
  <2>3. Range(w) = U \ s.visited
    <3> HIDE DEF w
    <3> QED BY <1>1, <1>2, <1>4, <2>2
  <2>4. e.to_visit = s.to_visit \o w
    <3> DEFINE a == s.to_visit
               b == <<v>>
    <3>1. a \in Seq(V) /\ b \in Seq(V) /\ a \o q \in Seq(V)
      BY DEF SearchStates
    <3>2. d.to_visit = a \o q
      BY <1>1
    <3> HIDE DEF a
    <3>3. Append(a \o q, v) = (a \o q) \o b /\ Append(q, v) = q \o b
      <4> DEFINE y == a \o q
      <4>1. y \in Seq(V)
        BY <3>1
      <4> HIDE DEF y
      <4>2. Append(y, v) = y \o b /\ Append(q, v) = q \o b
        BY <4>1, AppendIsConcat
      <4> QED BY <4>2 DEF y
    <3> HIDE DEF b
    <3>4. (a \o q) \o b = a \o (q \o b)
      BY <3>1, ConcatAssociative
    <3>5. e.to_visit = a \o w
      BY <2>1, <3>2, <3>3, <3>4
    <3> QED BY <3>5 DEF a
  <2> HIDE DEF e, w
  <2>5. e.observed = s.observed /\ e.visited = s.visited \cup U
    BY <1>2, <2>1
  <2>6. Discovers(e, s, U, V)
    BY <2>1, <2>2, <2>3, <2>4, <2>5 DEF Discovers
  <2> QED BY <2>1, <2>6 DEF e
<1> QED BY <1>3, <1>4

\* The loop over the neighbors: those not marked before are marked and pushed, once each.
LEMMA DiscoverIs ==
  ASSUME NEW V, NEW s \in SearchStates(V), NEW r \in Seq(V)
  PROVE  Discovers(Algo!Discover(s, r), s, Range(r), V)
<1> DEFINE N == Len(r)
           S == SearchStates(V)
           F == [n \in 1 .. N |-> [d \in S |-> Push(d, r[n])]]
           Is(f) == f = [n \in 0 .. N |-> IF n = 0 THEN s ELSE Push(f[n - 1], r[n])]
           after == CHOOSE f : Is(f)
           Seen(n) == {r[k] : k \in 1 .. n}
<1>1. N \in Nat /\ \A n \in 1 .. N : r[n] \in V
  OBVIOUS
<1>2. \A n \in 1 .. N : \A d \in S : F[n][d] = Push(d, r[n]) /\ F[n][d] \in S
  <2>1. ASSUME NEW d \in S, NEW v \in V PROVE Push(d, v) \in S
    <3>1. Append(d.to_visit, v) \in Seq(V)
      BY DEF SearchStates
    <3> QED BY <3>1 DEF Push, SearchStates
  <2> HIDE DEF N, S
  <2> QED BY <1>1, <2>1
<1>3. PICK f \in [0 .. N -> S] : Recursion(s, F, N, f)
  <2> HIDE DEF F, N
  <2> QED BY <1>1, <1>2, RecursionExists
<1>4. Is(f)
  <2>1. \A n \in 0 .. N : n # 0 => n - 1 \in 0 .. N /\ n \in 1 .. N /\ f[n - 1] \in S
    <3> HIDE DEF N, S
    <3> QED BY <1>1
  <2>2. \A n \in 0 .. N : f[n] = IF n = 0 THEN s ELSE F[n][f[n - 1]]
    BY <1>3 DEF Recursion
  <2> HIDE DEF F, N, S
  <2>3. \A n \in 0 .. N : f[n] = IF n = 0 THEN s ELSE Push(f[n - 1], r[n])
    BY <1>2, <2>1, <2>2
  <2> QED BY <2>3
<1>5. Is(after)
  BY <1>4
<1>6. Algo!Discover(s, r) = after[N]
  BY DEF Algo!Discover, Push
<1> HIDE DEF after
<1>7. after[0] = s /\ \A n \in 1 .. N : after[n] = Push(after[n - 1], r[n])
  <2> HIDE DEF N
  <2>1. \A n \in 1 .. N : n \in 0 .. N /\ n # 0
    BY <1>1
  <2>2. 0 \in 0 .. N
    BY <1>1
  <2> QED BY <1>5, <2>1, <2>2
<1> DEFINE OK(n) == Discovers(after[n], s, Seen(n), V)
           Q == {n \in Nat : n <= N => OK(n)}
<1>8. 0 \in Q
  <2>1. \A k : k \notin 1 .. 0
    OBVIOUS
  <2>2. Seen(0) = {}
    BY <2>1, Zenon
  <2> HIDE DEF Seen
  <2> QED BY <1>7, <2>2, DiscoversNothing
<1>9. \A n \in Nat : n \in Q => n + 1 \in Q
  <2> SUFFICES ASSUME NEW n \in Nat, n <= N => OK(n), n + 1 <= N
               PROVE  OK(n + 1)
    <3> HIDE DEF OK, N
    <3> QED OBVIOUS
  <2>1. n + 1 \in 1 .. N /\ (n + 1) - 1 = n /\ n <= N
    BY <1>1
  <2> DEFINE v == r[n + 1]
             d == after[n]
             R == Seen(n)
             U == Seen(n + 1)
  <2>2. v \in V /\ after[n + 1] = Push(d, v) /\ Discovers(d, s, R, V)
    BY <1>1, <1>7, <2>1
  <2>3. U = R \cup {v}
    BY <2>1
  <2> HIDE DEF v, d, R, U
  <2>4. Discovers(Push(d, v), s, U, V)
    BY <2>2, <2>3, DiscoversOne
  <2> QED BY <2>2, <2>4 DEF U, OK
<1>10. N \in Q
  <2> HIDE DEF Q, N
  <2> QED BY <1>1, <1>8, <1>9, NumberInduction
<1>11. Seen(N) = Range(r)
  <2>1. DOMAIN r = 1 .. N
    OBVIOUS
  <2> QED BY <2>1 DEF Range
<1> QED BY <1>1, <1>6, <1>10, <1>11

\* W holds x and whatever an edge leads to from it.
ClosedFrom(W, g, x) == x \in W /\ \A v \in W : Range(g[v]) \subseteq W

\* A search of g from x after n rounds: what is marked has been observed or is
\* pushed, once, and can be reached; what an edge leads to from an observed
\* vertex is marked.
SearchKeeps(s, n, g, x, V) ==
  /\ s \in SearchStates(V)
  /\ IsInjective(s.observed) /\ IsInjective(s.to_visit)
  /\ Range(s.observed) \cap Range(s.to_visit) = {}
  /\ s.visited = Range(s.observed) \cup Range(s.to_visit)
  /\ x \in s.visited
  /\ \A v \in Range(s.observed) : Range(g[v]) \subseteq s.visited
  /\ \A W \in SUBSET V : ClosedFrom(W, g, x) => s.visited \subseteq W
  /\ s.to_visit = <<>> \/ Len(s.observed) = n

\* A search begins with x marked and pushed.
LEMMA SearchBegins ==
  ASSUME NEW V, NEW g, NEW x \in V
  PROVE  /\ Algo!Begin(x) \in SearchStates(V)
         /\ SearchKeeps(Algo!Begin(x), 0, g, x, V)
<1> DEFINE s == Algo!Begin(x)
           w == <<x>>
<1>1. s.visited = {x} /\ s.to_visit = w /\ s.observed = <<>> /\ s \in SearchStates(V)
  BY DEF Algo!Begin, SearchStates
<1>2. /\ Range(s.observed) = {} /\ IsInjective(s.observed) /\ Len(s.observed) = 0
  BY <1>1, EmptyRange
<1>3. IsInjective(s.to_visit) /\ Range(s.to_visit) = {x}
  <2>1. DOMAIN w = {1} /\ w[1] = x
    OBVIOUS
  <2> HIDE DEF w
  <2>2. IsInjective(w) /\ Range(w) = {x}
    BY <2>1 DEF IsInjective, Range
  <2> QED BY <1>1, <2>2
<1> HIDE DEF s, w
<1>4. SearchKeeps(s, 0, g, x, V)
  BY <1>1, <1>2, <1>3 DEF SearchKeeps, ClosedFrom
<1> QED BY <1>1, <1>4 DEF s

\* The vertex c is taken from w, and rest is left.
TakenFrom(w, c, rest, V) ==
  /\ c \in V /\ rest \in Seq(V)
  /\ Range(w) = Range(rest) \cup {c}
  /\ IsInjective(w) => IsInjective(rest) /\ c \notin Range(rest)

\* It is taken from the front.
FrontOf(w, c, rest) == w = <<c>> \o rest

\* front and pop of a queue.
LEMMA TakenFirst ==
  ASSUME NEW V, NEW w \in Seq(V), w # <<>>, NEW c, NEW rest, c = Head(w), rest = Tail(w)
  PROVE  TakenFrom(w, c, rest, V) /\ FrontOf(w, c, rest)
<1>1. /\ c \in V /\ rest \in Seq(V) /\ Len(rest) = Len(w) - 1 /\ Len(w) \in Nat \ {0}
      /\ \A k \in 1 .. Len(rest) : rest[k] = w[k + 1]
  BY HeadTailProperties, EmptySeq
<1>2. w[1] = c /\ DOMAIN w = 1 .. Len(w) /\ DOMAIN rest = 1 .. Len(rest)
  BY <1>1
<1>3. w = <<c>> \o rest
  <2>1. w = SubSeq(w, 1, Len(w)) /\ rest = SubSeq(w, 2, Len(w))
    BY SubSeqFull, TailIsSubSeq
  <2>2. 1 \in 1 .. Len(w) /\ Len(w) \in 1 .. Len(w) /\ 1 + 1 = 2
    BY <1>1
  <2>3. SubSeq(w, 1, Len(w)) = <<w[1]>> \o SubSeq(w, 1 + 1, Len(w))
    BY <2>2, SubSeqRecursiveFirst
  <2> QED BY <1>2, <2>1, <2>2, <2>3
<1>4. Range(w) = Range(rest) \cup {c}
  <2>1. \A k \in DOMAIN w : k = 1 \/ (k - 1 \in DOMAIN rest /\ w[k] = rest[k - 1])
    BY <1>1, <1>2
  <2>2. \A k \in DOMAIN rest : k + 1 \in DOMAIN w /\ rest[k] = w[k + 1]
    BY <1>1, <1>2
  <2>3. 1 \in DOMAIN w
    BY <1>1, <1>2
  <2>4. \A v \in Range(w) : v = c \/ v \in Range(rest)
    <3>1. \A k \in DOMAIN w : w[k] = c \/ w[k] \in Range(rest)
      BY <1>2, <2>1 DEF Range
    <3> QED BY <3>1 DEF Range
  <2>5. \A v \in Range(rest) : v \in Range(w)
    BY <2>2 DEF Range
  <2>6. c \in Range(w)
    BY <1>2, <2>3 DEF Range
  <2> QED BY <2>4, <2>5, <2>6
<1>5. ASSUME IsInjective(w) PROVE IsInjective(rest) /\ c \notin Range(rest)
  <2>1. \A k, m \in DOMAIN w : w[k] = w[m] => k = m
    BY <1>5 DEF IsInjective
  <2>2. \A k \in DOMAIN rest : k + 1 \in DOMAIN w /\ rest[k] = w[k + 1] /\ k \in Nat /\ k # 0
    BY <1>1, <1>2
  <2>3. 1 \in DOMAIN w
    BY <1>1, <1>2
  <2>4. \A k, m \in DOMAIN rest : rest[k] = rest[m] => k = m
    BY <2>1, <2>2
  <2>5. \A k \in DOMAIN rest : rest[k] # c
    BY <1>2, <2>1, <2>2, <2>3
  <2> QED BY <2>4, <2>5 DEF IsInjective, Range
<1> QED BY <1>1, <1>3, <1>4, <1>5 DEF TakenFrom, FrontOf

\* top and pop of a stack.
LEMMA TakenLast ==
  ASSUME NEW V, NEW w \in Seq(V), w # <<>>, NEW c, NEW rest,
         c = w[Len(w)], rest = SubSeq(w, 1, Len(w) - 1)
  PROVE  TakenFrom(w, c, rest, V)
<1>0. Len(w) \in Nat \ {0} /\ DOMAIN w = 1 .. Len(w)
  BY EmptySeq
<1>1. /\ c \in V /\ rest \in Seq(V) /\ Len(rest) = Len(w) - 1
      /\ \A k \in 1 .. Len(rest) : rest[k] = w[k]
  <2> DEFINE n == Len(w) - 1
  <2>1. n \in Nat /\ 0 \in Nat /\ 0 <= n /\ n <= Len(w) /\ 0 + 1 = 1 /\ n - 0 = n
    BY <1>0
  <2> HIDE DEF n
  <2>2. /\ SubSeq(w, 0 + 1, n) \in Seq(V) /\ Len(SubSeq(w, 0 + 1, n)) = n - 0
        /\ \A jx \in 1 .. n - 0 : SubSeq(w, 0 + 1, n)[jx] = w[0 + jx]
    BY <2>1, SubSeqIs
  <2>3. \A jx \in 1 .. n - 0 : 0 + jx = jx
    BY <2>1
  <2>4. rest = SubSeq(w, 1, n)
    BY DEF n
  <2>5. /\ rest \in Seq(V) /\ Len(rest) = n
        /\ \A k \in 1 .. Len(rest) : rest[k] = w[k]
    BY <2>1, <2>2, <2>3, <2>4
  <2> QED BY <1>0, <2>5 DEF n
<1>2. DOMAIN rest = 1 .. Len(rest) /\ Len(w) \in DOMAIN w
  BY <1>0, <1>1
<1>3. /\ \A k \in DOMAIN rest : k \in DOMAIN w /\ rest[k] = w[k] /\ k # Len(w)
      /\ \A k \in DOMAIN w : k = Len(w) \/ (k \in DOMAIN rest /\ w[k] = rest[k])
  BY <1>0, <1>1, <1>2
<1>4. Range(w) = Range(rest) \cup {c}
  <2>1. \A v \in Range(w) : v = c \/ v \in Range(rest)
    BY <1>3 DEF Range
  <2>2. \A v \in Range(rest) : v \in Range(w)
    BY <1>3 DEF Range
  <2>3. c \in Range(w)
    BY <1>2 DEF Range
  <2> QED BY <2>1, <2>2, <2>3
<1>5. ASSUME IsInjective(w) PROVE IsInjective(rest) /\ c \notin Range(rest)
  <2>1. \A k, m \in DOMAIN w : w[k] = w[m] => k = m
    BY <1>5 DEF IsInjective
  <2>2. \A k, m \in DOMAIN rest : rest[k] = rest[m] => k = m
    BY <1>3, <2>1
  <2>3. \A k \in DOMAIN rest : rest[k] # c
    BY <1>2, <1>3, <2>1
  <2> QED BY <2>2, <2>3 DEF IsInjective, Range
<1> QED BY <1>1, <1>4, <1>5 DEF TakenFrom

\* The variables when c has been observed.
Observed(s, c, rest) == [s EXCEPT !.to_visit = rest, !.observed = Append(@, c)]

LEMMA ObservedIs ==
  ASSUME NEW V, NEW s \in SearchStates(V), NEW c \in V, NEW rest \in Seq(V),
         NEW e, e = Observed(s, c, rest)
  PROVE  /\ e \in SearchStates(V)
         /\ e.visited = s.visited /\ e.to_visit = rest /\ e.observed = Append(s.observed, c)
<1>1. Append(s.observed, c) \in Seq(V)
  BY DEF SearchStates
<1> QED BY <1>1 DEF SearchStates, Observed

\* Whichever end the vertex c is taken from, a round keeps what a search keeps.
LEMMA RoundKeeps ==
  ASSUME NEW V, NEW g \in [V -> Seq(V)], NEW x, NEW n \in Nat,
         NEW s, SearchKeeps(s, n, g, x, V), s.to_visit # <<>>,
         NEW c, NEW rest, TakenFrom(s.to_visit, c, rest, V),
         NEW e, e = Observed(s, c, rest),
         NEW R, R = Range(g[c]), NEW d, Discovers(d, e, R, V)
  PROVE  SearchKeeps(d, n + 1, g, x, V)
<1> DEFINE o == s.observed
           w == s.to_visit
           p == Append(o, c)
<1>1. /\ s \in SearchStates(V) /\ o \in Seq(V) /\ w \in Seq(V)
      /\ c \in V /\ rest \in Seq(V)
      /\ Range(w) = Range(rest) \cup {c} /\ IsInjective(rest) /\ c \notin Range(rest)
  BY DEF SearchKeeps, SearchStates, TakenFrom
<1>2. /\ IsInjective(o) /\ Range(o) \cap Range(w) = {}
      /\ s.visited = Range(o) \cup Range(w)
      /\ x \in s.visited
      /\ \A v \in Range(o) : Range(g[v]) \subseteq s.visited
      /\ \A W \in SUBSET V : ClosedFrom(W, g, x) => s.visited \subseteq W
      /\ Len(o) = n
  BY DEF SearchKeeps
<1>3. /\ e.visited = s.visited /\ e.to_visit = rest /\ e.observed = p
  <2>1. s \in SearchStates(V) /\ c \in V /\ rest \in Seq(V) /\ e = Observed(s, c, rest)
    BY <1>1
  <2>2. e.visited = s.visited /\ e.to_visit = rest /\ e.observed = Append(s.observed, c)
    BY ONLY <2>1, ObservedIs
  <2> QED BY <2>2
<1>4. /\ p \in Seq(V) /\ Range(p) = Range(o) \cup {c} /\ IsInjective(p) /\ Len(p) = n + 1
  <2>1. c \notin Range(o)
    BY <1>1, <1>2
  <2> HIDE DEF o
  <2>2. /\ Append(o, c) \in Seq(V) /\ Range(Append(o, c)) = Range(o) \cup {c}
        /\ IsInjective(Append(o, c)) /\ Len(Append(o, c)) = Len(o) + 1
    BY <1>1, <1>2, <2>1, RangeOfAppend, AppendProperties
  <2> QED BY <1>2, <2>2
<1>5. /\ d \in SearchStates(V) /\ d.observed = p /\ d.visited = s.visited \cup R
  BY <1>3 DEF Discovers
<1>6. PICK q \in Seq(V) : /\ d.to_visit = rest \o q
                          /\ IsInjective(q) /\ Range(q) = R \ s.visited
  BY <1>3 DEF Discovers
<1> HIDE DEF o, w, p
<1>7. Range(rest) \cap Range(q) = {}
  BY <1>1, <1>2, <1>6
<1>8. Range(rest \o q) = Range(rest) \cup Range(q) /\ IsInjective(rest \o q)
  BY <1>1, <1>6, <1>7, RangeOfConcat
<1>9. Range(p) \cap Range(d.to_visit) = {}
  BY <1>1, <1>2, <1>4, <1>6, <1>8
<1>10. d.visited = Range(p) \cup Range(d.to_visit)
  BY <1>1, <1>2, <1>4, <1>5, <1>6, <1>8
<1>11. \A v \in Range(p) : Range(g[v]) \subseteq d.visited
  BY <1>2, <1>4, <1>5
<1>12. \A W \in SUBSET V : ClosedFrom(W, g, x) => d.visited \subseteq W
  <2> SUFFICES ASSUME NEW W \in SUBSET V, ClosedFrom(W, g, x) PROVE d.visited \subseteq W
    OBVIOUS
  <2>1. s.visited \subseteq W /\ c \in W
    BY <1>1, <1>2
  <2>2. R \subseteq W
    BY <2>1 DEF ClosedFrom
  <2> QED BY <1>5, <2>1, <2>2
<1> QED BY <1>2, <1>4, <1>5, <1>6, <1>8, <1>9, <1>10, <1>11, <1>12 DEF SearchKeeps

\* One pass of the loop of bfs.
LEMMA QueueRound ==
  ASSUME NEW V, NEW g \in [V -> Seq(V)], NEW s \in SearchStates(V), s.to_visit # <<>>,
         NEW c, NEW rest, c = Head(s.to_visit), rest = Tail(s.to_visit),
         NEW e, e = Observed(s, c, rest), NEW R, R = Range(g[c])
  PROVE  /\ TakenFrom(s.to_visit, c, rest, V) /\ FrontOf(s.to_visit, c, rest)
         /\ Discovers(Algo!FromQueue(s, g), e, R, V)
<1>1. TakenFrom(s.to_visit, c, rest, V) /\ FrontOf(s.to_visit, c, rest)
  <2> DEFINE w == s.to_visit
  <2>1. w \in Seq(V) /\ w # <<>> /\ c = Head(w) /\ rest = Tail(w)
    BY DEF SearchStates
  <2> HIDE DEF w
  <2>2. TakenFrom(w, c, rest, V) /\ FrontOf(w, c, rest)
    BY ONLY <2>1, TakenFirst
  <2> QED BY <2>2 DEF w
<1>2. c \in V /\ rest \in Seq(V)
  BY <1>1 DEF TakenFrom
<1>3. e \in SearchStates(V) /\ g[c] \in Seq(V)
  <2>1. s \in SearchStates(V) /\ e = Observed(s, c, rest)
    OBVIOUS
  <2>2. e \in SearchStates(V)
    BY ONLY <1>2, <2>1, ObservedIs
  <2> QED BY <1>2, <2>2
<1> DEFINE r == g[c]
<1>4. Discovers(Algo!Discover(e, r), e, R, V)
  <2>1. r \in Seq(V) /\ R = Range(r)
    BY <1>3
  <2> HIDE DEF r
  <2> QED BY <1>3, <2>1, DiscoverIs
<1>5. Algo!FromQueue(s, g) = Algo!Discover(e, r)
  BY DEF Algo!FromQueue, Observed
<1> QED BY <1>1, <1>4, <1>5

\* One pass of the loop of dfs.
LEMMA StackRound ==
  ASSUME NEW V, NEW g \in [V -> Seq(V)], NEW s \in SearchStates(V), s.to_visit # <<>>,
         NEW c, NEW rest, c = s.to_visit[Len(s.to_visit)],
         rest = SubSeq(s.to_visit, 1, Len(s.to_visit) - 1),
         NEW e, e = Observed(s, c, rest), NEW R, R = Range(g[c])
  PROVE  /\ TakenFrom(s.to_visit, c, rest, V)
         /\ Discovers(Algo!FromStack(s, g), e, R, V)
<1>1. TakenFrom(s.to_visit, c, rest, V)
  <2> DEFINE w == s.to_visit
  <2>1. /\ w \in Seq(V) /\ w # <<>>
        /\ c = w[Len(w)] /\ rest = SubSeq(w, 1, Len(w) - 1)
    BY DEF SearchStates
  <2> HIDE DEF w
  <2>2. TakenFrom(w, c, rest, V)
    BY ONLY <2>1, TakenLast
  <2> QED BY <2>2 DEF w
<1>2. c \in V /\ rest \in Seq(V)
  BY <1>1 DEF TakenFrom
<1>3. e \in SearchStates(V) /\ g[c] \in Seq(V)
  <2>1. s \in SearchStates(V) /\ e = Observed(s, c, rest)
    OBVIOUS
  <2>2. e \in SearchStates(V)
    BY ONLY <1>2, <2>1, ObservedIs
  <2> QED BY <1>2, <2>2
<1> DEFINE r == g[c]
<1>4. Discovers(Algo!Discover(e, r), e, R, V)
  <2>1. r \in Seq(V) /\ R = Range(r)
    BY <1>3
  <2> HIDE DEF r
  <2> QED BY <1>3, <2>1, DiscoverIs
<1>5. Algo!FromStack(s, g) = Algo!Discover(e, r)
  BY DEF Algo!FromStack, Observed
<1> QED BY <1>1, <1>4, <1>5

\* The values of the recursive function that bfs is defined by.
BfsRounds(after, g, x, N) ==
  /\ after[0] = Algo!Begin(x)
  /\ \A n \in 1 .. N : after[n] = IF after[n - 1].to_visit = <<>> THEN after[n - 1]
                                 ELSE Algo!FromQueue(after[n - 1], g)

LEMMA BfsRoundsKeep ==
  ASSUME NEW V, NEW g \in [V -> Seq(V)], NEW x \in V, NEW N \in Nat,
         NEW after, BfsRounds(after, g, x, N)
  PROVE  \A n \in 0 .. N : SearchKeeps(after[n], n, g, x, V)
<1> DEFINE OK(n) == SearchKeeps(after[n], n, g, x, V)
           Q == {n \in Nat : n <= N => OK(n)}
<1>1. 0 \in Q
  <2>1. OK(0)
    BY SearchBegins DEF BfsRounds
  <2> QED BY <2>1
<1>2. \A n \in Nat : n \in Q => n + 1 \in Q
  <2> SUFFICES ASSUME NEW n \in Nat, n <= N => OK(n), n + 1 <= N
               PROVE  OK(n + 1)
    <3> HIDE DEF OK
    <3> QED OBVIOUS
  <2> DEFINE s == after[n] t == after[n + 1]
  <2>1. SearchKeeps(s, n, g, x, V)
    OBVIOUS
  <2>2. t = IF s.to_visit = <<>> THEN s ELSE Algo!FromQueue(s, g)
    <3>1. n + 1 \in 1 .. N /\ (n + 1) - 1 = n
      OBVIOUS
    <3> QED BY <3>1 DEF BfsRounds
  <2> HIDE DEF s, t
  <2>3. SearchKeeps(t, n + 1, g, x, V)
    <3>1. CASE s.to_visit = <<>>
      BY <2>1, <2>2, <3>1 DEF SearchKeeps
    <3>2. CASE s.to_visit # <<>>
      <4> DEFINE c == Head(s.to_visit)
                 rest == Tail(s.to_visit)
                 e == Observed(s, c, rest)
                 R == Range(g[c])
      <4>1. s \in SearchStates(V)
        BY <2>1 DEF SearchKeeps
      <4>2. c = Head(s.to_visit) /\ rest = Tail(s.to_visit)
        OBVIOUS
      <4> HIDE DEF c, rest
      <4>3. e = Observed(s, c, rest) /\ R = Range(g[c])
        OBVIOUS
      <4> HIDE DEF e, R
      <4>4. /\ TakenFrom(s.to_visit, c, rest, V)
            /\ Discovers(t, e, R, V)
        BY <2>2, <3>2, <4>1, <4>2, <4>3, QueueRound
      <4> QED BY <2>1, <3>2, <4>3, <4>4, RoundKeeps
    <3> QED BY <3>1, <3>2
  <2> QED BY <2>3 DEF t
<1>3. Nat \subseteq Q
  <2> HIDE DEF Q
  <2> QED BY <1>1, <1>2, NumberInduction
<1> HIDE DEF OK
<1>4. \A n \in 0 .. N : OK(n)
  BY <1>3
<1> QED BY <1>4 DEF OK

LEMMA BfsRoundsAre ==
  ASSUME NEW V, IsFiniteSet(V), NEW g \in [V -> Seq(V)], NEW x \in V,
         NEW N, N = Cardinality(V)
  PROVE  /\ N \in Nat
         /\ \E after : /\ BfsRounds(after, g, x, N)
                      /\ Algo!bfs(g, x) = after[N]
<1> DEFINE S == SearchStates(V)
           One(s) == IF s.to_visit = <<>> THEN s ELSE Algo!FromQueue(s, g)
           F == [n \in 1 .. N |-> [s \in S |-> One(s)]]
           v0 == Algo!Begin(x)
           Is(f) == f = [n \in 0 .. N |-> IF n = 0 THEN v0 ELSE One(f[n - 1])]
           after == CHOOSE f : Is(f)
<1>1. N \in Nat
  BY FS_CardinalityType
<1>2. v0 \in S
  BY SearchBegins
<1>3. \A s \in S : One(s) \in S
  <2> SUFFICES ASSUME NEW s \in S, s.to_visit # <<>>
               PROVE  Algo!FromQueue(s, g) \in S
    <3> HIDE DEF S
    <3> QED OBVIOUS
  <2> DEFINE c == Head(s.to_visit)
             rest == Tail(s.to_visit)
             e == Observed(s, c, rest)
             R == Range(g[c])
             t == Algo!FromQueue(s, g)
  <2>1. c = Head(s.to_visit) /\ rest = Tail(s.to_visit)
    OBVIOUS
  <2> HIDE DEF c, rest
  <2>2. e = Observed(s, c, rest) /\ R = Range(g[c]) /\ s \in SearchStates(V)
    OBVIOUS
  <2> HIDE DEF e, R
  <2>3. Discovers(t, e, R, V)
    BY <2>1, <2>2, QueueRound
  <2> HIDE DEF t
  <2>4. t \in S
    BY <2>3 DEF Discovers
  <2> QED BY <2>4 DEF t
<1>4. \A n \in 1 .. N : \A s \in S : F[n][s] = One(s) /\ F[n][s] \in S
  <2> HIDE DEF One, S
  <2> QED BY <1>3
<1>5. PICK f \in [0 .. N -> S] : Recursion(v0, F, N, f)
  <2> HIDE DEF F, S, v0
  <2> QED BY <1>1, <1>2, <1>4, RecursionExists
<1>6. Is(f)
  <2> HIDE DEF S, One, v0
  <2>1. \A n \in 0 .. N : n # 0 => n - 1 \in 0 .. N /\ n \in 1 .. N /\ f[n - 1] \in S
    BY <1>1
  <2>2. \A n \in 0 .. N : f[n] = IF n = 0 THEN v0 ELSE F[n][f[n - 1]]
    BY <1>5 DEF Recursion
  <2> HIDE DEF F
  <2>3. \A n \in 0 .. N : f[n] = IF n = 0 THEN v0 ELSE One(f[n - 1])
    BY <1>4, <2>1, <2>2
  <2> QED BY <2>3
<1>7. Is(after)
  <2> HIDE DEF Is
  <2> QED BY <1>6
<1>8. Algo!bfs(g, x) = after[N]
  <2>1. DOMAIN g = V /\ Algo!Cardinality(V) = N
    BY DEF Algo!Cardinality, Cardinality
  <2> QED BY <2>1 DEF Algo!bfs, Algo!Rounds
<1> HIDE DEF after
<1>9. BfsRounds(after, g, x, N)
  <2> HIDE DEF One
  <2>1. \A n \in 1 .. N : n \in 0 .. N /\ n # 0
    BY <1>1
  <2>2. 0 \in 0 .. N
    BY <1>1
  <2>3. after[0] = v0 /\ \A n \in 1 .. N : after[n] = One(after[n - 1])
    BY <1>7, <2>1, <2>2
  <2> QED BY <2>3 DEF BfsRounds, One
<1> QED BY <1>1, <1>8, <1>9

\* The values of the recursive function that dfs is defined by.
DfsRounds(after, g, x, N) ==
  /\ after[0] = Algo!Begin(x)
  /\ \A n \in 1 .. N : after[n] = IF after[n - 1].to_visit = <<>> THEN after[n - 1]
                                 ELSE Algo!FromStack(after[n - 1], g)

LEMMA DfsRoundsKeep ==
  ASSUME NEW V, NEW g \in [V -> Seq(V)], NEW x \in V, NEW N \in Nat,
         NEW after, DfsRounds(after, g, x, N)
  PROVE  \A n \in 0 .. N : SearchKeeps(after[n], n, g, x, V)
<1> DEFINE OK(n) == SearchKeeps(after[n], n, g, x, V)
           Q == {n \in Nat : n <= N => OK(n)}
<1>1. 0 \in Q
  <2>1. OK(0)
    BY SearchBegins DEF DfsRounds
  <2> QED BY <2>1
<1>2. \A n \in Nat : n \in Q => n + 1 \in Q
  <2> SUFFICES ASSUME NEW n \in Nat, n <= N => OK(n), n + 1 <= N
               PROVE  OK(n + 1)
    <3> HIDE DEF OK
    <3> QED OBVIOUS
  <2> DEFINE s == after[n] t == after[n + 1]
  <2>1. SearchKeeps(s, n, g, x, V)
    OBVIOUS
  <2>2. t = IF s.to_visit = <<>> THEN s ELSE Algo!FromStack(s, g)
    <3>1. n + 1 \in 1 .. N /\ (n + 1) - 1 = n
      OBVIOUS
    <3> QED BY <3>1 DEF DfsRounds
  <2> HIDE DEF s, t
  <2>3. SearchKeeps(t, n + 1, g, x, V)
    <3>1. CASE s.to_visit = <<>>
      BY <2>1, <2>2, <3>1 DEF SearchKeeps
    <3>2. CASE s.to_visit # <<>>
      <4> DEFINE c == s.to_visit[Len(s.to_visit)]
                 rest == SubSeq(s.to_visit, 1, Len(s.to_visit) - 1)
                 e == Observed(s, c, rest)
                 R == Range(g[c])
      <4>1. s \in SearchStates(V)
        BY <2>1 DEF SearchKeeps
      <4>2. c = s.to_visit[Len(s.to_visit)] /\ rest = SubSeq(s.to_visit, 1, Len(s.to_visit) - 1)
        OBVIOUS
      <4> HIDE DEF c, rest
      <4>3. e = Observed(s, c, rest) /\ R = Range(g[c])
        OBVIOUS
      <4> HIDE DEF e, R
      <4>4. /\ TakenFrom(s.to_visit, c, rest, V)
            /\ Discovers(t, e, R, V)
        BY <2>2, <3>2, <4>1, <4>2, <4>3, StackRound
      <4> QED BY <2>1, <3>2, <4>3, <4>4, RoundKeeps
    <3> QED BY <3>1, <3>2
  <2> QED BY <2>3 DEF t
<1>3. Nat \subseteq Q
  <2> HIDE DEF Q
  <2> QED BY <1>1, <1>2, NumberInduction
<1> HIDE DEF OK
<1>4. \A n \in 0 .. N : OK(n)
  BY <1>3
<1> QED BY <1>4 DEF OK

LEMMA DfsRoundsAre ==
  ASSUME NEW V, IsFiniteSet(V), NEW g \in [V -> Seq(V)], NEW x \in V,
         NEW N, N = Cardinality(V)
  PROVE  /\ N \in Nat
         /\ \E after : /\ DfsRounds(after, g, x, N)
                      /\ Algo!dfs(g, x) = after[N]
<1> DEFINE S == SearchStates(V)
           One(s) == IF s.to_visit = <<>> THEN s ELSE Algo!FromStack(s, g)
           F == [n \in 1 .. N |-> [s \in S |-> One(s)]]
           v0 == Algo!Begin(x)
           Is(f) == f = [n \in 0 .. N |-> IF n = 0 THEN v0 ELSE One(f[n - 1])]
           after == CHOOSE f : Is(f)
<1>1. N \in Nat
  BY FS_CardinalityType
<1>2. v0 \in S
  BY SearchBegins
<1>3. \A s \in S : One(s) \in S
  <2> SUFFICES ASSUME NEW s \in S, s.to_visit # <<>>
               PROVE  Algo!FromStack(s, g) \in S
    <3> HIDE DEF S
    <3> QED OBVIOUS
  <2> DEFINE c == s.to_visit[Len(s.to_visit)]
             rest == SubSeq(s.to_visit, 1, Len(s.to_visit) - 1)
             e == Observed(s, c, rest)
             R == Range(g[c])
             t == Algo!FromStack(s, g)
  <2>1. c = s.to_visit[Len(s.to_visit)] /\ rest = SubSeq(s.to_visit, 1, Len(s.to_visit) - 1)
    OBVIOUS
  <2> HIDE DEF c, rest
  <2>2. e = Observed(s, c, rest) /\ R = Range(g[c]) /\ s \in SearchStates(V)
    OBVIOUS
  <2> HIDE DEF e, R
  <2>3. Discovers(t, e, R, V)
    BY <2>1, <2>2, StackRound
  <2> HIDE DEF t
  <2>4. t \in S
    BY <2>3 DEF Discovers
  <2> QED BY <2>4 DEF t
<1>4. \A n \in 1 .. N : \A s \in S : F[n][s] = One(s) /\ F[n][s] \in S
  <2> HIDE DEF One, S
  <2> QED BY <1>3
<1>5. PICK f \in [0 .. N -> S] : Recursion(v0, F, N, f)
  <2> HIDE DEF F, S, v0
  <2> QED BY <1>1, <1>2, <1>4, RecursionExists
<1>6. Is(f)
  <2> HIDE DEF S, One, v0
  <2>1. \A n \in 0 .. N : n # 0 => n - 1 \in 0 .. N /\ n \in 1 .. N /\ f[n - 1] \in S
    BY <1>1
  <2>2. \A n \in 0 .. N : f[n] = IF n = 0 THEN v0 ELSE F[n][f[n - 1]]
    BY <1>5 DEF Recursion
  <2> HIDE DEF F
  <2>3. \A n \in 0 .. N : f[n] = IF n = 0 THEN v0 ELSE One(f[n - 1])
    BY <1>4, <2>1, <2>2
  <2> QED BY <2>3
<1>7. Is(after)
  <2> HIDE DEF Is
  <2> QED BY <1>6
<1>8. Algo!dfs(g, x) = after[N]
  <2>1. DOMAIN g = V /\ Algo!Cardinality(V) = N
    BY DEF Algo!Cardinality, Cardinality
  <2> QED BY <2>1 DEF Algo!dfs, Algo!Rounds
<1> HIDE DEF after
<1>9. DfsRounds(after, g, x, N)
  <2> HIDE DEF One
  <2>1. \A n \in 1 .. N : n \in 0 .. N /\ n # 0
    BY <1>1
  <2>2. 0 \in 0 .. N
    BY <1>1
  <2>3. after[0] = v0 /\ \A n \in 1 .. N : after[n] = One(after[n - 1])
    BY <1>7, <2>1, <2>2
  <2> QED BY <2>3 DEF DfsRounds, One
<1> QED BY <1>1, <1>8, <1>9

\* b[k] is the set of the vertices at most k edges away from x.
BallAt(b, g, x, M) == /\ b[0] = {x}
                      /\ \A k \in 1 .. M : b[k] = Near(g, b[k - 1])

\* As many edges as there are vertices lead everywhere.
LEMMA BallCloses ==
  ASSUME NEW V, IsFiniteSet(V), NEW g \in [V -> Seq(V)], NEW x \in V,
         NEW M \in Nat, Cardinality(V) <= M, NEW b, BallAt(b, g, x, M)
  PROVE  /\ \A k \in 0 .. M : b[k] \subseteq V
         /\ ClosedFrom(b[M], g, x)
         /\ \A W : ClosedFrom(W, g, x) => \A k \in 0 .. M : b[k] \subseteq W
<1>1. b[0] = {x} /\ \A k \in 1 .. M : b[k] = Near(g, b[k - 1])
  BY DEF BallAt
<1>2. \A W : ClosedFrom(W, g, x) => \A k \in 0 .. M : b[k] \subseteq W
  <2> SUFFICES ASSUME NEW W, ClosedFrom(W, g, x)
               PROVE  \A k \in 0 .. M : b[k] \subseteq W
    OBVIOUS
  <2> DEFINE Q == {k \in Nat : k <= M => b[k] \subseteq W}
  <2>1. 0 \in Q
    BY <1>1 DEF ClosedFrom
  <2>2. \A k \in Nat : k \in Q => k + 1 \in Q
    <3> SUFFICES ASSUME NEW k \in Nat, k <= M => b[k] \subseteq W, k + 1 <= M
                 PROVE  b[k + 1] \subseteq W
      OBVIOUS
    <3>1. k + 1 \in 1 .. M /\ (k + 1) - 1 = k /\ b[k] \subseteq W
      OBVIOUS
    <3>2. b[k + 1] = Near(g, b[k])
      BY <1>1, <3>1
    <3> QED BY <3>1, <3>2 DEF Near, ClosedFrom
  <2>3. Nat \subseteq Q
    <3> HIDE DEF Q
    <3> QED BY <2>1, <2>2, NumberInduction
  <2> QED BY <2>3
<1>3. \A k \in 0 .. M : b[k] \subseteq V
  <2>1. \A v \in V : Range(g[v]) \subseteq V
    <3> SUFFICES ASSUME NEW v \in V PROVE Range(g[v]) \subseteq V
      OBVIOUS
    <3>1. g[v] \in Seq(V)
      OBVIOUS
    <3>2. \A k \in DOMAIN g[v] : g[v][k] \in V
      BY <3>1
    <3> QED BY <3>2 DEF Range
  <2>2. ClosedFrom(V, g, x)
    BY <2>1 DEF ClosedFrom
  <2> QED BY <1>2, <2>2
<1>4. Near(g, b[M]) = b[M]
  <2> DEFINE LastIn(k) == Near(g, b[k]) = b[k]
             Big(k) == Cardinality(b[k]) >= k + 1
             Q == {k \in Nat : k <= M => Big(k) \/ LastIn(k)}
  <2>1. 0 \in Q
    <3>1. Cardinality({x}) = 1
      BY FS_Singleton
    <3>2. Big(0)
      BY <1>1, <3>1
    <3> HIDE DEF Big, LastIn
    <3> QED BY <3>2
  <2>2. \A k \in Nat : k \in Q => k + 1 \in Q
    <3> SUFFICES ASSUME NEW k \in Nat, k <= M => Big(k) \/ LastIn(k), k + 1 <= M, ~LastIn(k + 1)
                 PROVE  Big(k + 1)
      <4> HIDE DEF Big, LastIn
      <4> QED OBVIOUS
    <3>1. /\ k + 1 \in 1 .. M /\ (k + 1) - 1 = k /\ k \in 0 .. M /\ k + 1 \in 0 .. M
      OBVIOUS
    <3>2. b[k + 1] = Near(g, b[k])
      BY <1>1, <3>1
    <3>3. ~LastIn(k)
      BY <3>2
    <3>4. Cardinality(b[k]) >= k + 1
      BY <3>3
    <3> DEFINE B == b[k]
               C == b[k + 1]
    <3>5. B \subseteq C /\ B # C /\ C \subseteq V
      BY <1>3, <3>1, <3>2, <3>3 DEF Near
    <3> HIDE DEF LastIn, B, C
    <3>6. IsFiniteSet(B) /\ IsFiniteSet(C) /\ Cardinality(B) < Cardinality(C)
          /\ Cardinality(B) \in Nat /\ Cardinality(C) \in Nat
      BY <3>5, FS_Subset, FS_CardinalityType
    <3>7. Cardinality(C) >= (k + 1) + 1
      BY <3>4, <3>6 DEF B
    <3> QED BY <3>7 DEF C
  <2>3. Nat \subseteq Q
    <3> HIDE DEF Q
    <3> QED BY <2>1, <2>2, NumberInduction
  <2>4. Cardinality(b[M]) <= Cardinality(V) /\ Cardinality(b[M]) \in Nat /\ Cardinality(V) \in Nat
    <3> DEFINE B == b[M]
    <3>1. B \subseteq V
      BY <1>3
    <3> HIDE DEF B
    <3>2. IsFiniteSet(B) /\ Cardinality(B) <= Cardinality(V)
      BY <3>1, FS_Subset
    <3>3. Cardinality(B) \in Nat /\ Cardinality(V) \in Nat
      BY <3>2, FS_CardinalityType
    <3> QED BY <3>2, <3>3 DEF B
  <2>5. Big(M) \/ LastIn(M)
    <3> HIDE DEF Big, LastIn
    <3> QED BY <2>3
  <2>6. ~(Cardinality(b[M]) >= M + 1)
    BY <2>4
  <2> QED BY <2>5, <2>6
<1>5. x \in b[M]
  <2> DEFINE Q == {k \in Nat : k <= M => x \in b[k]}
  <2>1. 0 \in Q
    BY <1>1
  <2>2. \A k \in Nat : k \in Q => k + 1 \in Q
    <3> SUFFICES ASSUME NEW k \in Nat, k <= M => x \in b[k], k + 1 <= M
                 PROVE  x \in b[k + 1]
      OBVIOUS
    <3>1. k + 1 \in 1 .. M /\ (k + 1) - 1 = k /\ x \in b[k]
      OBVIOUS
    <3>2. b[k + 1] = Near(g, b[k])
      BY <1>1, <3>1
    <3> QED BY <3>1, <3>2 DEF Near
  <2>3. Nat \subseteq Q
    <3> HIDE DEF Q
    <3> QED BY <2>1, <2>2, NumberInduction
  <2> QED BY <2>3
<1>6. ClosedFrom(b[M], g, x)
  BY <1>4, <1>5 DEF Near, ClosedFrom
<1> QED BY <1>2, <1>3, <1>6

\* A search ends: no vertex is observed twice, so there are not more rounds than
\* vertices.
LEMMA SearchReaches ==
  ASSUME NEW V, IsFiniteSet(V), NEW g \in [V -> Seq(V)], NEW x \in V,
         NEW s, SearchKeeps(s, Cardinality(V), g, x, V),
         NEW M \in Nat, Cardinality(V) <= M, NEW b, BallAt(b, g, x, M)
  PROVE  s.to_visit = <<>> /\ IsInjective(s.observed) /\ Range(s.observed) = b[M]
         /\ s.observed \in Seq(V)
<1> DEFINE o == s.observed
           w == s.to_visit
           N == Cardinality(V)
<1>1. /\ o \in Seq(V) /\ w \in Seq(V) /\ IsInjective(o) /\ IsInjective(w)
      /\ Range(o) \cap Range(w) = {} /\ s.visited = Range(o) \cup Range(w)
      /\ x \in s.visited
      /\ \A v \in Range(o) : Range(g[v]) \subseteq s.visited
      /\ \A W \in SUBSET V : ClosedFrom(W, g, x) => s.visited \subseteq W
      /\ w = <<>> \/ Len(o) = N
  BY DEF SearchKeeps, SearchStates
<1> HIDE DEF o, w
<1>2. w = <<>>
  <2> SUFFICES ASSUME w # <<>>, Len(o) = N PROVE FALSE
    BY <1>1
  <2> DEFINE u == o \o w
  <2>1. u \in Seq(V) /\ IsInjective(u) /\ Len(u) = Len(o) + Len(w)
    BY <1>1, RangeOfConcat, ConcatProperties
  <2> HIDE DEF u
  <2>2. Len(u) <= N
    BY <2>1, InjectiveIsShort
  <2>3. Len(w) \in Nat \ {0} /\ N \in Nat
    BY <1>1, EmptySeq, FS_CardinalityType
  <2> HIDE DEF N
  <2> QED BY <2>1, <2>2, <2>3
<1>3. s.visited = Range(o)
  BY <1>1, <1>2, EmptyRange
<1>4. ClosedFrom(Range(o), g, x)
  BY <1>1, <1>3 DEF ClosedFrom
<1>5. b[M] \subseteq V /\ ClosedFrom(b[M], g, x) /\ b[M] \subseteq Range(o)
  <2>1. /\ \A k \in 0 .. M : b[k] \subseteq V
        /\ ClosedFrom(b[M], g, x)
        /\ \A W : ClosedFrom(W, g, x) => \A k \in 0 .. M : b[k] \subseteq W
    BY BallCloses
  <2>2. M \in 0 .. M
    OBVIOUS
  <2> QED BY <1>4, <2>1, <2>2
<1>6. Range(o) \subseteq b[M]
  BY <1>1, <1>3, <1>5
<1> QED BY <1>1, <1>2, <1>5, <1>6 DEF o, w

----------------------------------------------------------------------------
(* The order in which bfs observes *)

Before(w, m) == {w[k] : k \in 1 .. m - 1}

\* Nothing in w is in front of a vertex that is nearer.
InOrder(w, b, M) ==
  \A m \in 1 .. Len(w), k \in 0 .. M : w[m] \notin b[k] => b[k] \subseteq Before(w, m)

\* Of the vertices to come none is nearer than one that is known is far.
LEMMA OrderExtends ==
  ASSUME NEW V, NEW w \in Seq(V), NEW q \in Seq(V), NEW b, NEW M \in Nat, InOrder(w, b, M),
         \A v \in Range(q) : \A k \in 0 .. M : v \notin b[k] => b[k] \subseteq Range(w),
         NEW u, u = w \o q
  PROVE  InOrder(u, b, M)
<1> DEFINE n == Len(w)
           h == Len(q)
<1>1. /\ n \in Nat /\ h \in Nat /\ u \in Seq(V) /\ Len(u) = n + h
      /\ \A jx \in 1 .. n : u[jx] = w[jx]
      /\ \A jx \in (n + 1) .. (n + h) : u[jx] = q[jx - n]
  BY ConcatIs
<1>2. DOMAIN q = 1 .. h /\ DOMAIN w = 1 .. n
  OBVIOUS
<1>3. \A m \in 1 .. n, k \in 0 .. M : w[m] \notin b[k] => b[k] \subseteq Before(w, m)
  BY DEF InOrder
<1> HIDE DEF n, h
<1> SUFFICES ASSUME NEW m \in 1 .. n + h, NEW k \in 0 .. M, u[m] \notin b[k]
             PROVE  b[k] \subseteq Before(u, m)
  BY <1>1 DEF InOrder
<1>4. CASE m <= n
  <2>1. m \in 1 .. n /\ u[m] = w[m]
    BY <1>1, <1>4
  <2>2. Before(u, m) = Before(w, m)
    <3>1. \A jx \in 1 .. m - 1 : u[jx] = w[jx]
      BY <1>1, <1>4
    <3> QED BY <3>1 DEF Before
  <2> QED BY <1>3, <2>1, <2>2
<1>5. CASE ~(m <= n)
  <2>1. m - n \in 1 .. h /\ u[m] = q[m - n]
    BY <1>1, <1>5
  <2>2. u[m] \in Range(q)
    BY <1>2, <2>1 DEF Range
  <2>3. b[k] \subseteq Range(w)
    BY <2>2
  <2>4. Range(w) \subseteq Before(u, m)
    <3>1. \A jx \in 1 .. n : jx \in 1 .. m - 1 /\ u[jx] = w[jx]
      BY <1>1, <1>5
    <3> QED BY <1>2, <3>1 DEF Range, Before
  <2> QED BY <2>3, <2>4
<1> QED BY <1>4, <1>5

\* What comes after a vertex that has been observed first.
LEMMA OrderOfHead ==
  ASSUME NEW V, NEW o \in Seq(V), NEW c \in V, NEW rest \in Seq(V), NEW w, w = <<c>> \o rest,
         NEW u, u = o \o w, NEW b, NEW M, InOrder(u, b, M)
  PROVE  \A k \in 0 .. M : c \notin b[k] => b[k] \subseteq Range(o)
<1> DEFINE n == Len(o)
           h == Len(w)
           z == <<c>>
<1>1. z \in Seq(V) /\ Len(z) = 1 /\ z[1] = c
  OBVIOUS
<1>2. w = z \o rest
  OBVIOUS
<1> HIDE DEF z
<1>3. w \in Seq(V) /\ Len(w) = 1 + Len(rest) /\ w[1] = c /\ Len(rest) \in Nat
  <2>1. /\ z \o rest \in Seq(V) /\ Len(z \o rest) = Len(z) + Len(rest)
        /\ \A jx \in 1 .. Len(z) : (z \o rest)[jx] = z[jx]
    BY <1>1, ConcatIs
  <2>2. 1 \in 1 .. Len(z) /\ Len(rest) \in Nat
    BY <1>1
  <2> QED BY <1>1, <1>2, <2>1, <2>2
<1>4. /\ n \in Nat /\ h \in Nat /\ Len(u) = n + h
      /\ \A jx \in 1 .. n : u[jx] = o[jx]
      /\ \A jx \in (n + 1) .. (n + h) : u[jx] = w[jx - n]
  BY <1>3, ConcatIs
<1>5. DOMAIN o = 1 .. n
  OBVIOUS
<1> HIDE DEF n
<1>6. n + 1 \in 1 .. Len(u) /\ u[n + 1] = c
  <2>1. n + 1 \in (n + 1) .. (n + h) /\ (n + 1) - n = 1 /\ n + 1 \in 1 .. n + h
    BY <1>3, <1>4
  <2> QED BY <1>3, <1>4, <2>1
<1>7. Before(u, n + 1) \subseteq Range(o)
  <2>1. \A jx \in 1 .. (n + 1) - 1 : jx \in DOMAIN o /\ u[jx] = o[jx]
    BY <1>4, <1>5
  <2> QED BY <2>1 DEF Before, Range
<1>8. \A k \in 0 .. M : u[n + 1] \notin b[k] => b[k] \subseteq Before(u, n + 1)
  BY <1>6 DEF InOrder
<1> QED BY <1>6, <1>7, <1>8

\* What bfs has observed, and then what it is to observe.
Queue(s) == s.observed \o s.to_visit

\* A round of bfs keeps them in the order of their distance.
LEMMA RoundInOrder ==
  ASSUME NEW V, NEW g \in [V -> Seq(V)], NEW x, NEW n \in Nat,
         NEW s, SearchKeeps(s, n, g, x, V), s.to_visit # <<>>,
         NEW c, NEW rest, TakenFrom(s.to_visit, c, rest, V), FrontOf(s.to_visit, c, rest),
         NEW e, e = Observed(s, c, rest),
         NEW R, R = Range(g[c]), NEW d, Discovers(d, e, R, V),
         NEW M \in Nat, NEW b, BallAt(b, g, x, M), InOrder(Queue(s), b, M)
  PROVE  InOrder(Queue(d), b, M)
<1> DEFINE o == s.observed
           w == s.to_visit
           u == o \o w
           p == Append(o, c)
<1>1. /\ s \in SearchStates(V) /\ o \in Seq(V) /\ w \in Seq(V) /\ c \in V /\ rest \in Seq(V)
      /\ w = <<c>> \o rest /\ c \in Range(w)
  BY DEF SearchKeeps, SearchStates, TakenFrom, FrontOf
<1>2. /\ s.visited = Range(o) \cup Range(w) /\ x \in s.visited
      /\ \A v \in Range(o) : Range(g[v]) \subseteq s.visited
  BY DEF SearchKeeps
<1>3. e.visited = s.visited /\ e.to_visit = rest /\ e.observed = p
  <2>1. s \in SearchStates(V) /\ c \in V /\ rest \in Seq(V) /\ e = Observed(s, c, rest)
    BY <1>1
  <2>2. e.visited = s.visited /\ e.to_visit = rest /\ e.observed = Append(s.observed, c)
    BY ONLY <2>1, ObservedIs
  <2> QED BY <2>2
<1>4. PICK q \in Seq(V) : d.to_visit = rest \o q /\ Range(q) = R \ s.visited
  BY <1>3 DEF Discovers
<1>5. d.observed = p /\ Queue(s) = u /\ InOrder(u, b, M)
  BY <1>3 DEF Discovers, Queue
<1> HIDE DEF o, w
<1>6. u \in Seq(V) /\ Range(u) = s.visited
  <2>1. o \in Seq(V) /\ w \in Seq(V)
    BY <1>1
  <2>2. o \o w \in Seq(V) /\ Range(o \o w) = Range(o) \cup Range(w)
    BY ONLY <2>1, RangeOfConcat
  <2> QED BY <1>2, <2>2
<1>7. Queue(d) = u \o q
  <2> DEFINE z == <<c>>
             a == rest \o q
  <2>1. z \in Seq(V) /\ w = z \o rest /\ a \in Seq(V)
    BY <1>1
  <2>2. p = o \o z
    BY <1>1, AppendIsConcat
  <2> HIDE DEF z
  <2>3. o \in Seq(V) /\ w \in Seq(V) /\ q \in Seq(V) /\ rest \in Seq(V)
    BY <1>1, <1>4
  <2>0. \A f, h, k \in Seq(V) : (f \o h) \o k = f \o (h \o k)
    <3> TAKE f, h, k \in Seq(V)
    <3> QED BY ONLY f \in Seq(V), h \in Seq(V), k \in Seq(V), SMTT(40)
  <2>4. p \o a = o \o (z \o a)
    <3> DEFINE y == z \o a
    <3>1. /\ o \in Seq(V) /\ z \in Seq(V) /\ a \in Seq(V)
          /\ p = o \o z /\ y = z \o a
      BY <2>1, <2>2, <2>3
    <3> HIDE DEF a, p, y
    <3>2. p \o a = o \o y
      BY ONLY <2>0, <3>1
    <3> QED BY <3>2 DEF y
  <2>5. w \o q = z \o a
    <3>1. /\ z \in Seq(V) /\ rest \in Seq(V) /\ q \in Seq(V)
          /\ w = z \o rest /\ a = rest \o q
      BY <2>1, <2>3
    <3> HIDE DEF a, p
    <3> QED BY ONLY <2>0, <3>1
  <2>6. Queue(d) = p \o a
    BY <1>4, <1>5 DEF Queue
  <2>7. u \o q = o \o (w \o q)
    <3> DEFINE y == w \o q
    <3>1. /\ o \in Seq(V) /\ w \in Seq(V) /\ q \in Seq(V)
          /\ u = o \o w /\ y = w \o q
      BY <2>3
    <3> HIDE DEF u, y
    <3>2. u \o q = o \o y
      BY ONLY <2>0, <3>1
    <3> QED BY <3>2 DEF y
  <2> HIDE DEF a, p, u
  <2> QED BY <2>4, <2>5, <2>6, <2>7
<1> HIDE DEF u
<1>8. \A k \in 0 .. M : c \notin b[k] => b[k] \subseteq Range(o)
  <2>1. o \in Seq(V) /\ c \in V /\ rest \in Seq(V) /\ w = <<c>> \o rest /\ u = o \o w
        /\ InOrder(u, b, M)
    BY <1>1, <1>5 DEF u
  <2> QED BY ONLY <2>1, OrderOfHead
<1>9. \A v \in Range(q) : \A k \in 0 .. M : v \notin b[k] => b[k] \subseteq Range(u)
  <2> SUFFICES ASSUME NEW v \in Range(q), NEW k \in 0 .. M, v \notin b[k]
               PROVE  b[k] \subseteq s.visited
    BY <1>6
  <2>1. v \in R
    BY <1>4
  <2>2. CASE k = 0
    BY <1>2, <2>2 DEF BallAt
  <2>3. CASE k # 0
    <3>1. k \in 1 .. M /\ k - 1 \in 0 .. M
      BY <2>3
    <3>2. b[k] = Near(g, b[k - 1])
      BY <3>1 DEF BallAt
    <3>3. c \notin b[k - 1]
      BY <2>1, <3>2 DEF Near
    <3>4. b[k - 1] \subseteq Range(o)
      BY <1>8, <3>1, <3>3
    <3> QED BY <1>2, <3>2, <3>4 DEF Near
  <2> QED BY <2>2, <2>3
<1>10. InOrder(u \o q, b, M)
  <2> DEFINE y == u \o q
  <2>1. y = u \o q
    OBVIOUS
  <2> HIDE DEF y
  <2>2. InOrder(y, b, M)
    BY <1>5, <1>6, <1>9, <2>1, OrderExtends
  <2> QED BY <2>2 DEF y
<1> QED BY <1>7, <1>10

LEMMA BfsInOrder ==
  ASSUME NEW V, NEW g \in [V -> Seq(V)], NEW x \in V, NEW N \in Nat,
         NEW after, BfsRounds(after, g, x, N),
         NEW M \in Nat, NEW b, BallAt(b, g, x, M)
  PROVE  \A n \in 0 .. N : InOrder(Queue(after[n]), b, M)
<1> DEFINE OK(n) == InOrder(Queue(after[n]), b, M)
           Q == {n \in Nat : n <= N => OK(n)}
<1>0. \A n \in 0 .. N : SearchKeeps(after[n], n, g, x, V)
  BY BfsRoundsKeep
<1>1. 0 \in Q
  <2> DEFINE w == Queue(after[0])
             z == <<x>>
  <2>1. w = <<>> \o z
    BY DEF BfsRounds, Queue, Algo!Begin
  <2>2. z \in Seq(V) /\ Len(z) = 1 /\ z[1] = x
    OBVIOUS
  <2> HIDE DEF z
  <2>3. w = z
    BY <2>1, <2>2, ConcatEmptySeq
  <2> HIDE DEF w
  <2>4. \A k \in 0 .. M : x \in b[k]
    <3> DEFINE S == {k \in Nat : k <= M => x \in b[k]}
    <3>1. 0 \in S
      BY DEF BallAt
    <3>2. \A k \in Nat : k \in S => k + 1 \in S
      <4> SUFFICES ASSUME NEW k \in Nat, k <= M => x \in b[k], k + 1 <= M
                   PROVE  x \in b[k + 1]
        OBVIOUS
      <4>1. k + 1 \in 1 .. M /\ (k + 1) - 1 = k /\ x \in b[k]
        OBVIOUS
      <4> QED BY <4>1 DEF BallAt, Near
    <3>3. Nat \subseteq S
      <4> HIDE DEF S
      <4> QED BY <3>1, <3>2, NumberInduction
    <3> QED BY <3>3
  <2>5. InOrder(w, b, M)
    <3>0. Len(w) = 1 /\ w[1] = x
      BY <2>2, <2>3
    <3>1. \A m \in 1 .. Len(w) : w[m] = x
      BY <3>0
    <3>2. \A m \in 1 .. Len(w), k \in 0 .. M : w[m] \in b[k]
      BY <2>4, <3>1
    <3> QED BY <3>2 DEF InOrder
  <2> QED BY <2>5 DEF w
<1>2. \A n \in Nat : n \in Q => n + 1 \in Q
  <2> SUFFICES ASSUME NEW n \in Nat, n <= N => OK(n), n + 1 <= N
               PROVE  OK(n + 1)
    <3> HIDE DEF OK
    <3> QED OBVIOUS
  <2> DEFINE s == after[n] t == after[n + 1]
  <2>1. SearchKeeps(s, n, g, x, V) /\ InOrder(Queue(s), b, M)
    BY <1>0
  <2>2. t = IF s.to_visit = <<>> THEN s ELSE Algo!FromQueue(s, g)
    <3>1. n + 1 \in 1 .. N /\ (n + 1) - 1 = n
      OBVIOUS
    <3> QED BY <3>1 DEF BfsRounds
  <2> HIDE DEF s, t
  <2>3. InOrder(Queue(t), b, M)
    <3>1. CASE s.to_visit = <<>>
      BY <2>1, <2>2, <3>1
    <3>2. CASE s.to_visit # <<>>
      <4> DEFINE c == Head(s.to_visit)
                 rest == Tail(s.to_visit)
                 e == Observed(s, c, rest)
                 R == Range(g[c])
      <4>1. s \in SearchStates(V)
        BY <2>1 DEF SearchKeeps
      <4>2. c = Head(s.to_visit) /\ rest = Tail(s.to_visit)
        OBVIOUS
      <4> HIDE DEF c, rest
      <4>3. e = Observed(s, c, rest) /\ R = Range(g[c])
        OBVIOUS
      <4> HIDE DEF e, R
      <4>4. /\ TakenFrom(s.to_visit, c, rest, V) /\ FrontOf(s.to_visit, c, rest)
            /\ Discovers(t, e, R, V)
        BY <2>2, <3>2, <4>1, <4>2, <4>3, QueueRound
      <4> QED BY <2>1, <3>2, <4>3, <4>4, RoundInOrder
    <3> QED BY <3>1, <3>2
  <2> QED BY <2>3 DEF t
<1>3. Nat \subseteq Q
  <2> HIDE DEF Q
  <2> QED BY <1>1, <1>2, NumberInduction
<1> HIDE DEF OK
<1>4. \A n \in 0 .. N : OK(n)
  BY <1>3
<1> QED BY <1>4 DEF OK

----------------------------------------------------------------------------
(* The searches reach what can be reached *)

\* What Ball is.
IsBallOf(ball, g, x) ==
  DOMAIN ball = 0 .. Cardinality(T) /\ BallAt(ball, g, x, Cardinality(T))

LEMMA BallOf ==
  ASSUME IsFiniteSet(T), NEW g \in [T -> Seq(T)], NEW x \in T
  PROVE  IsBallOf(Ball(g, x), g, x)
<1> DEFINE M == Cardinality(T)
           V == SUBSET T
           F == [n \in 1 .. M |-> [B \in V |-> Near(g, B)]]
           Is(f) == f = [n \in 0 .. M |-> IF n = 0 THEN {x} ELSE Near(g, f[n - 1])]
           ball == CHOOSE f : Is(f)
<1>1. M \in Nat /\ {x} \in V
  BY FS_CardinalityType
<1>2. \A B \in V : Near(g, B) \in V
  <2>1. \A v \in T : Range(g[v]) \subseteq T
    <3> SUFFICES ASSUME NEW v \in T PROVE Range(g[v]) \subseteq T
      OBVIOUS
    <3>1. g[v] \in Seq(T)
      OBVIOUS
    <3>2. \A k \in DOMAIN g[v] : g[v][k] \in T
      BY <3>1
    <3> QED BY <3>2 DEF Range
  <2> QED BY <2>1 DEF Near
<1>3. \A n \in 1 .. M : \A B \in V : F[n][B] = Near(g, B) /\ F[n][B] \in V
  <2> HIDE DEF V, M
  <2> QED BY <1>2
<1>4. PICK f \in [0 .. M -> V] : Recursion({x}, F, M, f)
  <2> HIDE DEF F, M, V
  <2> QED BY <1>1, <1>3, RecursionExists
<1>5. Is(f)
  <2>1. \A n \in 0 .. M : n # 0 => n - 1 \in 0 .. M /\ n \in 1 .. M /\ f[n - 1] \in V
    <3> HIDE DEF M, V
    <3> QED BY <1>1
  <2>2. \A n \in 0 .. M : f[n] = IF n = 0 THEN {x} ELSE F[n][f[n - 1]]
    BY <1>4 DEF Recursion
  <2> HIDE DEF F, M, V
  <2>3. \A n \in 0 .. M : f[n] = IF n = 0 THEN {x} ELSE Near(g, f[n - 1])
    BY <1>3, <2>1, <2>2
  <2> QED BY <2>3
<1>6. Is(ball)
  BY <1>5
<1>7. Ball(g, x) = ball
  BY DEF Ball, Near, Range
<1> HIDE DEF ball
<1>8. DOMAIN ball = 0 .. M /\ BallAt(ball, g, x, M)
  <2> HIDE DEF M, V
  <2>1. \A n \in 1 .. M : n \in 0 .. M /\ n # 0
    BY <1>1
  <2>2. 0 \in 0 .. M
    BY <1>1
  <2> QED BY <1>6, <2>1, <2>2 DEF BallAt
<1> QED BY <1>7, <1>8 DEF IsBallOf

\* What a search has come to, over the vertices V.
Reached(s, V, b, M) ==
  /\ s.to_visit = <<>> /\ s.observed \in Seq(V) /\ IsInjective(s.observed)
  /\ Range(s.observed) = b[M]

\* bfs of any finite graph, and then dfs.
LEMMA BfsReaches ==
  ASSUME NEW V, IsFiniteSet(V), NEW g \in [V -> Seq(V)], NEW x \in V,
         NEW M \in Nat, Cardinality(V) <= M, NEW b, BallAt(b, g, x, M),
         NEW s, s = Algo!bfs(g, x)
  PROVE  s \in SearchStates(V) /\ Reached(s, V, b, M) /\ InOrder(s.observed, b, M)
<1> DEFINE N == Cardinality(V)
<1>1. N = Cardinality(V)
  OBVIOUS
<1> HIDE DEF N
<1>2. N \in Nat /\ \E after : BfsRounds(after, g, x, N) /\ Algo!bfs(g, x) = after[N]
  BY <1>1, BfsRoundsAre
<1>3. PICK after : BfsRounds(after, g, x, N) /\ s = after[N]
  BY <1>2
<1>4. N \in 0 .. N
  BY <1>2
<1>5. SearchKeeps(s, N, g, x, V)
  <2>1. \A n \in 0 .. N : SearchKeeps(after[n], n, g, x, V)
    BY <1>2, <1>3, BfsRoundsKeep
  <2> QED BY <1>3, <1>4, <2>1
<1>6. InOrder(Queue(s), b, M)
  <2>1. \A n \in 0 .. N : InOrder(Queue(after[n]), b, M)
    BY <1>2, <1>3, BfsInOrder
  <2> QED BY <1>3, <1>4, <2>1
<1>7. Reached(s, V, b, M)
  BY <1>1, <1>5, SearchReaches DEF Reached
<1>8. Queue(s) = s.observed
  <2> DEFINE o == s.observed
  <2>1. o \in Seq(V) /\ s.to_visit = <<>>
    BY <1>7 DEF Reached
  <2>2. Queue(s) = o \o <<>>
    BY <2>1 DEF Queue
  <2> HIDE DEF o
  <2>3. o \o <<>> = o
    BY <2>1, ConcatEmptySeq
  <2> QED BY <2>2, <2>3 DEF o
<1>9. s \in SearchStates(V)
  BY <1>5 DEF SearchKeeps
<1> QED BY <1>6, <1>7, <1>8, <1>9

LEMMA DfsReaches ==
  ASSUME NEW V, IsFiniteSet(V), NEW g \in [V -> Seq(V)], NEW x \in V,
         NEW M \in Nat, Cardinality(V) <= M, NEW b, BallAt(b, g, x, M),
         NEW s, s = Algo!dfs(g, x)
  PROVE  Reached(s, V, b, M)
<1> DEFINE N == Cardinality(V)
<1>1. N = Cardinality(V)
  OBVIOUS
<1> HIDE DEF N
<1>2. N \in Nat /\ \E after : DfsRounds(after, g, x, N) /\ Algo!dfs(g, x) = after[N]
  BY <1>1, DfsRoundsAre
<1>3. PICK after : DfsRounds(after, g, x, N) /\ s = after[N]
  BY <1>2
<1>4. SearchKeeps(s, N, g, x, V)
  <2>1. \A n \in 0 .. N : SearchKeeps(after[n], n, g, x, V)
    BY <1>2, <1>3, DfsRoundsKeep
  <2>2. N \in 0 .. N
    BY <1>2
  <2> QED BY <1>3, <2>1, <2>2
<1> QED BY <1>1, <1>4, SearchReaches DEF Reached

\* What has been reached, as SearchesComplete says it.
LEMMA ReachedTraverses ==
  ASSUME IsFiniteSet(T), NEW ball, NEW g, NEW x, IsBallOf(ball, g, x), NEW V,
         NEW s, Reached(s, V, ball, Cardinality(T))
  PROVE  /\ Traverses(s, ball)
         /\ InOrder(s.observed, ball, Cardinality(T)) => NearestFirst(s, ball)
<1> DEFINE o == s.observed
           M == Cardinality(T)
<1>1. s.to_visit = <<>> /\ o \in Seq(V) /\ IsInjective(o) /\ Range(o) = ball[M]
  BY DEF Reached
<1>2. Traverses(s, ball)
  BY <1>1 DEF Traverses
<1>3. ASSUME InOrder(o, ball, M) PROVE NearestFirst(s, ball)
  <2>1. DOMAIN ball = 0 .. M
    BY DEF IsBallOf
  <2> HIDE DEF o, M
  <2>2. DOMAIN o = 1 .. Len(o) /\ Len(o) \in Nat
    BY <1>1
  <2>3. ASSUME NEW n \in DOMAIN o, NEW k \in DOMAIN ball, o[n] \notin ball[k]
        PROVE  ball[k] \subseteq Range(SubSeq(o, 1, n - 1))
    <3>1. n \in 1 .. Len(o) /\ k \in 0 .. M
      BY <2>1, <2>2, <2>3
    <3>2. ball[k] \subseteq Before(o, n)
      BY <1>3, <2>3, <3>1 DEF InOrder
    <3> DEFINE m == n - 1
    <3>3. m \in Nat /\ m <= Len(o) /\ 0 \in Nat /\ 0 <= m /\ 0 + 1 = 1 /\ m - 0 = m
      BY <2>2, <3>1
    <3> HIDE DEF m
    <3>4. /\ SubSeq(o, 0 + 1, m) \in Seq(V) /\ Len(SubSeq(o, 0 + 1, m)) = m - 0
          /\ \A jx \in 1 .. m - 0 : SubSeq(o, 0 + 1, m)[jx] = o[0 + jx]
      BY <1>1, <3>3, SubSeqIs
    <3> DEFINE u == SubSeq(o, 1, m)
    <3>5. u \in Seq(V) /\ Len(u) = m /\ \A jx \in 1 .. m : u[jx] = o[jx]
      <4>1. \A jx \in 1 .. m : 0 + jx = jx
        BY <3>3
      <4> QED BY <3>3, <3>4, <4>1
    <3> HIDE DEF u
    <3>6. DOMAIN u = 1 .. m
      BY <3>5
    <3>7. Before(o, n) \subseteq Range(u)
      BY <3>5, <3>6 DEF Before, Range, m
    <3> QED BY <3>2, <3>7 DEF u, m
  <2> QED BY <2>3 DEF NearestFirst, o
<1> QED BY <1>2, <1>3

\* The searches over the values of the vertices.
LEMMA SearchesOver ==
  ASSUME IsFiniteSet(T), NEW g \in [T -> Seq(T)], NEW x \in T,
         NEW ball, ball = Ball(g, x)
  PROVE  /\ Traverses(Algo!bfs(g, x), ball)
         /\ NearestFirst(Algo!bfs(g, x), ball)
         /\ Traverses(Algo!dfs(g, x), ball)
<1> DEFINE M == Cardinality(T)
           s == Algo!bfs(g, x)
           d == Algo!dfs(g, x)
<1>1. IsBallOf(ball, g, x)
  BY BallOf
<1>2. M \in Nat /\ Cardinality(T) <= M /\ M = Cardinality(T) /\ BallAt(ball, g, x, M)
  BY <1>1, FS_CardinalityType DEF IsBallOf
<1>3. s = Algo!bfs(g, x) /\ d = Algo!dfs(g, x)
  OBVIOUS
<1> HIDE DEF M, s, d
<1>4. Reached(s, T, ball, M) /\ InOrder(s.observed, ball, M)
  BY <1>2, <1>3, BfsReaches
<1>5. Reached(d, T, ball, M)
  BY <1>2, <1>3, DfsReaches
<1>6. Traverses(s, ball) /\ NearestFirst(s, ball)
  BY <1>1, <1>2, <1>4, ReachedTraverses
<1>7. Traverses(d, ball)
  BY <1>1, <1>2, <1>5, ReachedTraverses
<1> QED BY <1>3, <1>6, <1>7

----------------------------------------------------------------------------
(* The rows that the containers answer with *)

AdjRows == [v \in T |-> Adj!neighbors(v)]
EdgeListRows == [v \in T |-> EdgeList!neighbors(v)]
CSRNeighbors == [v \in T |-> CSR!neighbors(v)]

LEMMA AdjRowsAre ==
  ASSUME AdjInv
  PROVE  AdjRows \in [T -> Seq(T)]
<1>1. AdjVertices \subseteq T
  BY DEF AdjInv
<1>2. ASSUME NEW v \in T PROVE Adj!neighbors(v) \in Seq(T)
  <2>1. CASE v \in AdjVertices
    <3> DEFINE r == adj_list[v]
    <3>1. r \in Seq(AdjVertices) /\ Adj!neighbors(v) = r
      BY <2>1, AdjQueries
    <3> HIDE DEF r
    <3>2. r \in Seq(T)
      BY <1>1, <3>1, Wider
    <3> QED BY <3>1, <3>2
  <2>2. CASE v \notin AdjVertices
    BY <2>2, EmptyRange DEF AdjVertices, Adj!neighbors
  <2> QED BY <2>1, <2>2
<1> QED BY <1>2 DEF AdjRows

\* The targets of the edges out of v in a list of edges.
LEMMA OutRows ==
  ASSUME NEW E, \A e \in E : e[2] \in T \cup {max}, NEW s \in Seq(E), NEW x
  PROVE  Out(s, x) \in Seq(T)
<1> DEFINE I == {ix \in DOMAIN s : s[ix][1] = x /\ s[ix][2] # max}
           k == Kept(s, I)
<1>1. k \in Seq(E) /\ Range(k) = Image(s, I)
  <2>1. I \subseteq DOMAIN s
    OBVIOUS
  <2> HIDE DEF I
  <2> QED BY <2>1, KeptFacts
<1>2. \A ix \in I : s[ix][2] \in T
  <2>1. \A ix \in DOMAIN s : s[ix] \in E
    OBVIOUS
  <2> QED BY <2>1
<1>3. Out(s, x) = [ix \in DOMAIN k |-> k[ix][2]]
  BY DEF Out
<1> HIDE DEF I, k
<1>4. \A ix \in DOMAIN k : k[ix][2] \in T
  <2> TAKE ix \in DOMAIN k
  <2>1. k[ix] \in Image(s, I)
    BY <1>1 DEF Range
  <2>2. PICK jx \in I : k[ix] = s[jx]
    BY <2>1 DEF Image
  <2> QED BY <1>2, <2>2
<1>5. Len(k) \in Nat /\ DOMAIN k = 1 .. Len(k)
  BY <1>1
<1>6. [ix \in 1 .. Len(k) |-> k[ix][2]] \in Seq(T)
  BY <1>4, <1>5
<1> QED BY <1>3, <1>5, <1>6

LEMMA EdgeListRowsAre ==
  ASSUME AdjInv, EdgeListInv
  PROVE  EdgeListRows \in [T -> Seq(T)]
<1> DEFINE E == AdjVertices \X (AdjVertices \cup {max})
<1>1. edges \in Seq(E) /\ \A e \in E : e[2] \in T \cup {max}
  BY DEF AdjInv, EdgeListInv, Listed
<1> HIDE DEF E
<1>2. \A v \in T : Out(edges, v) \in Seq(T)
  BY <1>1, OutRows
<1>3. \A v \in T : EdgeList!neighbors(v) = Out(edges, v)
  BY ContainersRows DEF EdgeList!neighbors, Out
<1> QED BY <1>2, <1>3 DEF EdgeListRows

\* What neighbors of GraphCSR answers, told by the rows R of positions.
RowsAre(g, vs, D, R) ==
  \A v \in T : IF v \in D THEN g[v] = Leads(vs, R[Position(vs, v)]) ELSE g[v] = <<>>

LEMMA LeadsIs ==
  ASSUME NEW D, NEW vs, Holds(vs, D), NEW line \in Seq(0 .. Len(vs) - 1)
  PROVE  /\ Leads(vs, line) \in Seq(D)
         /\ \A y : y \in Range(Leads(vs, line)) <=> \E q \in Range(line) : y = vs[q + 1]
<1> DEFINE o == Leads(vs, line)
           n == Len(vs)
<1>1. Len(line) \in Nat /\ DOMAIN line = 1 .. Len(line) /\ \A k \in DOMAIN line : line[k] \in 0 .. n - 1
  OBVIOUS
<1>2. \A q \in 0 .. n - 1 : vs[q + 1] \in D
  BY PositionIs
<1>3. o = [k \in 1 .. Len(line) |-> vs[line[k] + 1]]
  BY <1>1 DEF Leads
<1> HIDE DEF o, n
<1>4. \A k \in 1 .. Len(line) : vs[line[k] + 1] \in D
  BY <1>1, <1>2
<1>5. o \in Seq(D)
  BY <1>1, <1>3, <1>4
<1>6. DOMAIN o = DOMAIN line /\ \A k \in DOMAIN line : o[k] = vs[line[k] + 1]
  BY <1>1, <1>3
<1>7. \A y : y \in Range(o) <=> \E q \in Range(line) : y = vs[q + 1]
  BY <1>6 DEF Range
<1> QED BY <1>5, <1>7 DEF o

LEMMA CSRNeighborsAre ==
  ASSUME NEW R, HasGraph(row_ptrs, column_indices, values, AdjVertices, R), AdjInv
  PROVE  /\ CSRNeighbors \in [T -> Seq(T)]
         /\ RowsAre(CSRNeighbors, values, AdjVertices, R)
<1> DEFINE D == AdjVertices
           n == Len(values)
<1>1. Holds(values, D) /\ n \in Nat /\ D \subseteq T
  BY HasRowsIs DEF HasGraph, HasRows, AdjInv
<1>2. \A p \in 0 .. n - 1 : R[p] \in Seq(0 .. n - 1) /\ RowAt(row_ptrs, column_indices, p) = R[p]
  BY HasRowsIs DEF HasGraph, InRange
<1>3. \A v : CSR!neighbors(v) = NeighborsAt(row_ptrs, column_indices, values, v)
  BY CSRQueries
<1> HIDE DEF D, n
<1>4. ASSUME NEW v \in T, v \in D
      PROVE  CSRNeighbors[v] = Leads(values, R[Position(values, v)]) /\ CSRNeighbors[v] \in Seq(T)
  <2> DEFINE p == Position(values, v)
             line == R[p]
             o == Leads(values, line)
  <2>1. p \in 0 .. n - 1
    BY <1>1, <1>4, PositionIs DEF n
  <2>2. line \in Seq(0 .. n - 1) /\ p # n
    BY <1>1, <1>2, <2>1
  <2>3. CSRNeighbors[v] = o
    BY <1>2, <1>3, <2>1, <2>2 DEF CSRNeighbors, NeighborsAt, n
  <2> HIDE DEF line
  <2>4. o \in Seq(D)
    BY <1>1, <2>2, LeadsIs DEF n
  <2> HIDE DEF o
  <2>5. o \in Seq(T)
    BY <1>1, <2>4, Wider
  <2> QED BY <2>3, <2>5 DEF o, line
<1>5. ASSUME NEW v \in T, v \notin D PROVE CSRNeighbors[v] = <<>> /\ CSRNeighbors[v] \in Seq(T)
  <2>1. Position(values, v) = n
    BY <1>1, <1>5, PositionIs DEF n
  <2>2. CSRNeighbors[v] = Leads(values, <<>>)
    BY <1>3, <2>1 DEF CSRNeighbors, NeighborsAt, n
  <2>3. Leads(values, <<>>) = <<>>
    BY DEF Leads
  <2> QED BY <2>2, <2>3, EmptyRange
<1>6. CSRNeighbors \in [T -> Seq(T)]
  <2>1. CSRNeighbors = [v \in T |-> CSRNeighbors[v]]
    BY DEF CSRNeighbors
  <2> QED BY <1>4, <1>5, <2>1
<1> QED BY <1>4, <1>5, <1>6 DEF RowsAre, D

\* The balls over the positions of the vertices.
PositionBalls(vs, ball) ==
  [k \in 0 .. Cardinality(T) |-> {p \in 0 .. Len(vs) - 1 : vs[p + 1] \in ball[k]}]

\* They lie in D.
BallsIn(ball, M, D) == \A k \in 0 .. M : ball[k] \subseteq D

\* What PositionBalls is, as far as M.
IsPositionBalls(b, vs, ball, M) ==
  \A k \in 0 .. M : b[k] = {p \in 0 .. Len(vs) - 1 : vs[p + 1] \in ball[k]}

\* A graph over the positions of vs.
PositionGraph(R, vs) == R \in [0 .. Len(vs) - 1 -> Seq(0 .. Len(vs) - 1)]

\* The vertices near x are at the positions near that of x.
LEMMA PositionBallsAre ==
  ASSUME IsFiniteSet(T), NEW D, D \subseteq T, NEW vs, Holds(vs, D),
         NEW R, PositionGraph(R, vs),
         NEW g \in [T -> Seq(T)], RowsAre(g, vs, D, R),
         NEW x \in D, NEW ball, IsBallOf(ball, g, x),
         NEW b, b = PositionBalls(vs, ball), NEW M, M = Cardinality(T)
  PROVE  BallAt(b, R, Position(vs, x), M) /\ BallsIn(ball, M, D)
<1> DEFINE n == Len(vs)
           V == 0 .. n - 1
<1>1. M \in Nat /\ BallAt(ball, g, x, M)
  BY FS_CardinalityType DEF IsBallOf
<1>2. /\ \A p \in V : vs[p + 1] \in D /\ Position(vs, vs[p + 1]) = p
      /\ \A v \in D : Position(vs, v) \in V /\ vs[Position(vs, v) + 1] = v
  BY PositionIs
<1>3. b = [k \in 0 .. M |-> {p \in V : vs[p + 1] \in ball[k]}]
  BY DEF PositionBalls
<1>4. R \in [V -> Seq(V)]
  BY DEF PositionGraph
<1>5. \A v \in D : /\ g[v] \in Seq(D)
                   /\ \A y : y \in Range(g[v]) <=> \E q \in Range(R[Position(vs, v)]) : y = vs[q + 1]
  <2> TAKE v \in D
  <2> DEFINE line == R[Position(vs, v)]
             o == Leads(vs, line)
  <2>1. line \in Seq(0 .. Len(vs) - 1)
    BY <1>2, <1>4
  <2>2. g[v] = o
    BY DEF RowsAre
  <2> HIDE DEF line
  <2>3. o \in Seq(D) /\ \A y : y \in Range(o) <=> \E q \in Range(line) : y = vs[q + 1]
    BY <2>1, LeadsIs
  <2> QED BY <2>2, <2>3 DEF line
<1>6. \A v \in T \ D : g[v] = <<>>
  BY DEF RowsAre
<1>7. \A p \in V : Range(R[p]) \subseteq V
  <2> TAKE p \in V
  <2>1. R[p] \in Seq(V)
    BY <1>4
  <2>2. \A k \in DOMAIN R[p] : R[p][k] \in V
    BY <2>1
  <2> QED BY <2>2 DEF Range
<1> HIDE DEF n, V
<1>8. \A k \in 0 .. M : ball[k] \subseteq D
  <2>1. \A v \in D : Range(g[v]) \subseteq D
    <3> TAKE v \in D
    <3>1. g[v] \in Seq(D)
      BY <1>5
    <3>2. \A k \in DOMAIN g[v] : g[v][k] \in D
      BY <3>1
    <3> QED BY <3>2 DEF Range
  <2>2. ClosedFrom(D, g, x)
    BY <2>1 DEF ClosedFrom
  <2>3. M = Cardinality(T) /\ Cardinality(T) <= M /\ x \in T
    BY <1>1
  <2>4. \A W : ClosedFrom(W, g, x) => \A k \in 0 .. M : ball[k] \subseteq W
    BY <1>1, <2>3, BallCloses
  <2> QED BY <2>2, <2>4
<1>9. b[0] = {Position(vs, x)}
  <2>1. ball[0] = {x} /\ 0 \in 0 .. M
    BY <1>1 DEF BallAt
  <2>2. b[0] = {p \in V : vs[p + 1] = x}
    BY <1>3, <2>1
  <2> QED BY <1>2, <2>2
<1>10. ASSUME NEW k \in 1 .. M PROVE b[k] = Near(R, b[k - 1])
  <2> DEFINE B == ball[k - 1]
             C == b[k - 1]
  <2>1. k - 1 \in 0 .. M /\ k \in 0 .. M
    BY <1>1
  <2>2. /\ ball[k] = Near(g, B) /\ B \subseteq D
        /\ C = {p \in V : vs[p + 1] \in B}
        /\ b[k] = {p \in V : vs[p + 1] \in ball[k]}
    BY <1>1, <1>3, <1>8, <2>1 DEF BallAt
  <2> HIDE DEF B, C
  <2>3. ASSUME NEW p \in b[k] PROVE p \in Near(R, C)
    <3>1. p \in V /\ vs[p + 1] \in Near(g, B)
      BY <2>2
    <3>2. CASE vs[p + 1] \in B
      BY <2>2, <3>1, <3>2 DEF Near
    <3>3. CASE vs[p + 1] \notin B
      <4>1. PICK v \in B : vs[p + 1] \in Range(g[v])
        BY <3>1, <3>3 DEF Near
      <4> DEFINE z == Position(vs, v)
      <4>2. v \in D /\ z \in V /\ vs[z + 1] = v
        BY <1>2, <2>2
      <4>3. z \in C
        BY <2>2, <4>2
      <4>7. \A y : y \in Range(g[v]) <=> \E q \in Range(R[z]) : y = vs[q + 1]
        BY <1>5, <4>2
      <4> HIDE DEF z
      <4>4. PICK q \in Range(R[z]) : vs[p + 1] = vs[q + 1]
        BY <4>1, <4>7
      <4>5. q \in V
        BY <1>7, <4>2
      <4>6. q = p
        BY <1>2, <3>1, <4>4, <4>5
      <4> QED BY <4>3, <4>4, <4>6 DEF Near
    <3> QED BY <3>2, <3>3
  <2>4. ASSUME NEW p \in Near(R, C) PROVE p \in b[k]
    <3>1. CASE p \in C
      BY <2>2, <3>1 DEF Near
    <3>2. CASE p \notin C
      <4>1. PICK z \in C : p \in Range(R[z])
        BY <2>4, <3>2 DEF Near
      <4> DEFINE v == vs[z + 1]
      <4>2. z \in V /\ v \in B /\ v \in D /\ Position(vs, v) = z
        BY <1>2, <2>2
      <4> HIDE DEF v
      <4>3. p \in V
        BY <1>7, <4>1, <4>2
      <4>4. vs[p + 1] \in Range(g[v])
        BY <1>5, <4>1, <4>2
      <4>5. vs[p + 1] \in Near(g, B)
        BY <4>2, <4>4 DEF Near
      <4> QED BY <2>2, <4>3, <4>5
    <3> QED BY <3>1, <3>2
  <2> QED BY <2>3, <2>4 DEF C
<1>11. BallAt(b, R, Position(vs, x), M)
  BY <1>9, <1>10 DEF BallAt
<1> QED BY <1>8, <1>11 DEF BallsIn

\* From the positions to the vertices at them.
LEMMA ReachedAtPositions ==
  ASSUME NEW D, NEW vs, Holds(vs, D), NEW ball, NEW M \in Nat,
         BallsIn(ball, M, D), NEW b, IsPositionBalls(b, vs, ball, M),
         NEW s, Reached(s, 0 .. Len(vs) - 1, b, M), InOrder(s.observed, b, M),
         NEW t, t.to_visit = <<>>, NEW u, u = Leads(vs, s.observed), t.observed = u
  PROVE  Reached(t, D, ball, M) /\ InOrder(t.observed, ball, M)
<1> DEFINE V == 0 .. Len(vs) - 1
           o == s.observed
<1>1. o \in Seq(V) /\ IsInjective(o) /\ Range(o) = b[M] /\ M \in 0 .. M
  BY DEF Reached
<1>2. /\ \A p \in V : vs[p + 1] \in D /\ Position(vs, vs[p + 1]) = p
      /\ \A v \in D : Position(vs, v) \in V /\ vs[Position(vs, v) + 1] = v
  BY PositionIs
<1>3. \A k \in 0 .. M : \A p : p \in b[k] <=> p \in V /\ vs[p + 1] \in ball[k]
  BY DEF IsPositionBalls
<1>4. InOrder(o, b, M) /\ t.observed = u
  OBVIOUS
<1>5. u \in Seq(D) /\ \A y : y \in Range(u) <=> \E q \in Range(o) : y = vs[q + 1]
  <2>1. u = Leads(vs, o)
    OBVIOUS
  <2> HIDE DEF o
  <2> QED BY <1>1, <2>1, LeadsIs
<1>6. DOMAIN u = DOMAIN o /\ \A k \in DOMAIN o : u[k] = vs[o[k] + 1]
  BY DEF Leads
<1> HIDE DEF V, o
<1>7. DOMAIN o = 1 .. Len(o) /\ Len(o) \in Nat /\ \A k \in 1 .. Len(o) : o[k] \in V
  BY <1>1
<1>8. Len(u) = Len(o)
  BY <1>5, <1>6, <1>7
<1>9. IsInjective(u)
  <2> SUFFICES ASSUME NEW k \in DOMAIN u, NEW m \in DOMAIN u, u[k] = u[m] PROVE k = m
    BY DEF IsInjective
  <2>1. o[k] \in V /\ o[m] \in V /\ vs[o[k] + 1] = vs[o[m] + 1] /\ k \in DOMAIN o /\ m \in DOMAIN o
    BY <1>6, <1>7
  <2>2. o[k] = o[m]
    BY <1>2, <2>1
  <2> QED BY <1>1, <2>1, <2>2 DEF IsInjective
<1>10. Range(u) = ball[M]
  <2>1. ASSUME NEW y \in Range(u) PROVE y \in ball[M]
    BY <1>1, <1>3, <1>5
  <2>2. ASSUME NEW y \in ball[M] PROVE y \in Range(u)
    <3>1. y \in D
      BY <1>1 DEF BallsIn
    <3>2. Position(vs, y) \in b[M] /\ vs[Position(vs, y) + 1] = y
      BY <1>1, <1>2, <1>3, <3>1
    <3> QED BY <1>1, <1>5, <3>2
  <2> QED BY <2>1, <2>2
<1>11. InOrder(u, ball, M)
  <2> SUFFICES ASSUME NEW m \in 1 .. Len(u), NEW k \in 0 .. M, u[m] \notin ball[k]
               PROVE  ball[k] \subseteq Before(u, m)
    BY DEF InOrder
  <2>1. m \in 1 .. Len(o) /\ o[m] \in V /\ u[m] = vs[o[m] + 1]
    BY <1>6, <1>7, <1>8
  <2>2. o[m] \notin b[k]
    BY <1>3, <2>1
  <2>3. b[k] \subseteq Before(o, m)
    BY <1>4, <2>1, <2>2 DEF InOrder
  <2>4. ASSUME NEW y \in ball[k] PROVE y \in Before(u, m)
    <3>1. y \in D
      BY DEF BallsIn
    <3>2. Position(vs, y) \in b[k] /\ vs[Position(vs, y) + 1] = y
      BY <1>2, <1>3, <3>1
    <3>3. PICK l \in 1 .. m - 1 : o[l] = Position(vs, y)
      BY <2>3, <3>2 DEF Before
    <3>4. l \in DOMAIN o
      BY <1>7, <2>1
    <3>5. u[l] = y
      BY <1>6, <3>2, <3>3, <3>4
    <3> QED BY <3>5 DEF Before
  <2> QED BY <2>4
<1> QED BY <1>4, <1>5, <1>9, <1>10, <1>11 DEF Reached

\* The bfs of GraphCSR, which marks positions.
LEMMA CSRBfsReaches ==
  ASSUME IsFiniteSet(T), AdjInv, CSRGraphInv, NEW x \in AdjVertices,
         NEW ball, ball = Ball(CSRNeighbors, x)
  PROVE  /\ Traverses(CSR!bfs(x), ball)
         /\ NearestFirst(CSR!bfs(x), ball)
<1> DEFINE D == AdjVertices
           n == Len(values)
           M == Cardinality(T)
           V == 0 .. n - 1
           g == CSRNeighbors
           b == PositionBalls(values, ball)
           z == Position(values, x)
           t == CSR!bfs(x)
<1>1. PICK R : HasGraph(row_ptrs, column_indices, values, D, R)
  BY DEF CSRGraphInv
<1>2. Holds(values, D) /\ n \in Nat /\ D \subseteq T /\ x \in T /\ x \in D
  BY <1>1, HasRowsIs DEF HasGraph, HasRows, AdjInv
<1>3. g \in [T -> Seq(T)] /\ RowsAre(g, values, D, R)
  BY <1>1, CSRNeighborsAre
<1>4. /\ R \in [V -> Seq(V)]
      /\ \A p \in V : RowAt(row_ptrs, column_indices, p) = R[p]
  <2>1. \A p \in V : R[p] \in Seq(V) /\ RowAt(row_ptrs, column_indices, p) = R[p]
    BY <1>1, HasRowsIs DEF HasGraph, InRange
  <2>2. R \in [V -> Seq(Nat)]
    BY <1>1 DEF HasGraph, HasRows, Laid
  <2> HIDE DEF V
  <2> QED BY <2>1, <2>2
<1> DEFINE s == Algo!bfs(R, z)
<1>5. s \in SearchStates(V) => t.to_visit = s.to_visit /\ t.observed = Leads(values, s.observed)
  <2> SUFFICES ASSUME s \in SearchStates(V)
               PROVE  t.to_visit = s.to_visit /\ t.observed = Leads(values, s.observed)
    OBVIOUS
  <2>1. [p \in CSR!Positions |-> CSR!Row(p)] = R
    <3>1. [p \in CSR!Positions |-> CSR!Row(p)]
           = [p \in V |-> RowAt(row_ptrs, column_indices, p)]
      BY CSRRows
    <3> HIDE DEF V
    <3> QED BY <1>4, <3>1
  <2>2. t = [s EXCEPT !.observed = Leads(values, s.observed)]
    BY <2>1, CSRRows, SameSearches DEF CSR!bfs, Leads
  <2> HIDE DEF s, t
  <2> QED BY <2>2 DEF SearchStates
<1> HIDE DEF s, t
<1>6. IsBallOf(ball, g, x)
  <2> HIDE DEF g
  <2> QED BY <1>2, <1>3, BallOf DEF g
<1> HIDE DEF D, g
<1>7. BallAt(b, R, z, M) /\ BallsIn(ball, M, D)
  <2>1. /\ IsFiniteSet(T) /\ D \subseteq T /\ Holds(values, D) /\ PositionGraph(R, values)
        /\ g \in [T -> Seq(T)] /\ RowsAre(g, values, D, R) /\ x \in D /\ IsBallOf(ball, g, x)
        /\ b = PositionBalls(values, ball) /\ M = Cardinality(T) /\ z = Position(values, x)
    BY <1>2, <1>3, <1>4, <1>6 DEF PositionGraph
  <2> HIDE DEF b, M, z
  <2>2. BallAt(b, R, Position(values, x), M) /\ BallsIn(ball, M, D)
    BY ONLY <2>1, PositionBallsAre
  <2> QED BY <2>1, <2>2
<1>8. M \in Nat /\ IsFiniteSet(V) /\ Cardinality(V) <= M
  <2>1. IsFiniteSet(D) /\ Cardinality(D) <= M /\ Cardinality(D) \in Nat /\ M \in Nat
    BY <1>2, FS_Subset, FS_CardinalityType
  <2>2. n <= Cardinality(D)
    BY <1>2, <2>1, InjectiveIsShort DEF Holds
  <2>3. IsFiniteSet(0 .. n - 1) /\ Cardinality(0 .. n - 1) = n
    <3>1. 0 \in Int /\ n - 1 \in Int /\ (0 > n - 1 <=> n = 0) /\ (n - 1) - 0 + 1 = n
      BY <1>2
    <3> HIDE DEF n
    <3> QED BY <1>2, <3>1, FS_Interval
  <2> HIDE DEF M, n
  <2> QED BY <1>2, <2>1, <2>2, <2>3
<1>9. z \in V
  BY <1>2, PositionIs
<1>10. s \in SearchStates(V) /\ Reached(s, V, b, M) /\ InOrder(s.observed, b, M)
  <2>1. s = Algo!bfs(R, z)
    BY DEF s
  <2> HIDE DEF V, z, M, b
  <2> QED BY <1>4, <1>7, <1>8, <1>9, <2>1, BfsReaches
<1>11. IsPositionBalls(b, values, ball, M)
  BY DEF PositionBalls, IsPositionBalls
<1>12. s.to_visit = <<>>
  BY <1>10 DEF Reached
<1>13. Reached(t, D, ball, M) /\ InOrder(t.observed, ball, M)
  <2> DEFINE u == Leads(values, s.observed)
  <2>1. /\ Holds(values, D) /\ M \in Nat /\ BallsIn(ball, M, D)
        /\ IsPositionBalls(b, values, ball, M) /\ Reached(s, 0 .. Len(values) - 1, b, M)
        /\ InOrder(s.observed, b, M) /\ t.to_visit = <<>>
        /\ u = Leads(values, s.observed) /\ t.observed = u
    BY <1>2, <1>5, <1>7, <1>8, <1>10, <1>11, <1>12
  <2> HIDE DEF b, M, u
  <2> QED BY ONLY <2>1, ReachedAtPositions
<1>14. Traverses(t, ball) /\ NearestFirst(t, ball)
  BY <1>6, <1>13, ReachedTraverses
<1> QED BY <1>14 DEF t

\* Every search of every container.
LEMMA SearchesAreComplete ==
  ASSUME IsFiniteSet(T), AdjInv, EdgeListInv, CSRGraphInv
  PROVE  SearchesComplete
<1> DEFINE rows == [adj |-> AdjRows, list |-> EdgeListRows, csr |-> CSRNeighbors]
           OK(g, x) ==
             LET ball == Ball(rows[g], x)
                 breadth_first == {Algo!bfs(rows[g], x)}
                                  \cup IF g = "csr" THEN {CSR!bfs(x)} ELSE {}
             IN /\ \A s \in breadth_first \cup {Algo!dfs(rows[g], x)} :
                     Traverses(s, ball)
                /\ \A s \in breadth_first : NearestFirst(s, ball)
<1>1. AdjRows \in [T -> Seq(T)] /\ EdgeListRows \in [T -> Seq(T)]
  BY AdjRowsAre, EdgeListRowsAre
<1>2. CSRNeighbors \in [T -> Seq(T)]
  <2>1. PICK R : HasGraph(row_ptrs, column_indices, values, AdjVertices, R)
    BY DEF CSRGraphInv
  <2> QED BY <2>1, CSRNeighborsAre
<1>3. DOMAIN rows = {"adj", "list", "csr"}
  OBVIOUS
<1>4. ASSUME NEW x \in AdjVertices, NEW g \in DOMAIN rows PROVE OK(g, x)
  <2> DEFINE r == rows[g]
             ball == Ball(r, x)
             s == Algo!bfs(r, x)
             d == Algo!dfs(r, x)
             c == CSR!bfs(x)
  <2>1. r \in [T -> Seq(T)] /\ (g = "csr" => r = CSRNeighbors)
    BY <1>1, <1>2, <1>3
  <2>2. x \in T
    BY DEF AdjInv
  <2> HIDE DEF r, rows
  <2>3. Traverses(s, ball) /\ NearestFirst(s, ball) /\ Traverses(d, ball)
    <3>1. ball = Ball(r, x)
      OBVIOUS
    <3> HIDE DEF ball
    <3> QED BY <2>1, <2>2, <3>1, SearchesOver
  <2>4. g = "csr" => Traverses(c, ball) /\ NearestFirst(c, ball)
    <3> SUFFICES ASSUME g = "csr"
                 PROVE  Traverses(c, ball) /\ NearestFirst(c, ball)
      OBVIOUS
    <3>1. ball = Ball(CSRNeighbors, x)
      BY <2>1
    <3> HIDE DEF ball
    <3> QED BY <3>1, CSRBfsReaches
  <2> HIDE DEF s, d, c, ball
  <2> QED BY <2>3, <2>4 DEF s, d, c, ball, r
<1> HIDE DEF OK
<1>5. \A x \in Adj!vertices, g \in DOMAIN rows : OK(g, x)
  BY <1>4 DEF AdjVertices
<1> QED BY <1>5 DEF OK, SearchesComplete, AdjRows, EdgeListRows, CSRNeighbors

\* The inductive invariant of the three containers.
ContainersInv == AdjInv /\ EdgeListInv /\ CSRGraphInv

LEMMA ContainersStart == ContainersInit => ContainersInv
<1> SUFFICES ASSUME ContainersInit PROVE ContainersInv
  OBVIOUS
<1>1. AdjInv /\ AdjVertices = {}
  BY AdjInitially DEF ContainersInit, AdjGraph!Init, AdjVertices
<1>2. edges = <<>> /\ Range(edges) = {}
  BY DEF ContainersInit, EdgeList!Init, Range
<1>3. EdgeListInv
  BY <1>1, <1>2 DEF EdgeListInv, Listed
<1>4. row_ptrs = <<0>> /\ column_indices = <<>> /\ values = <<>>
  BY DEF ContainersInit, CSR!Init
<1> DEFINE R == [q \in 0 .. 0 - 1 |-> <<>>]
<1>5. InRange(values, R)
  BY <1>4 DEF InRange
<1>6. HasGraph(row_ptrs, column_indices, values, {}, R)
  BY <1>4, <1>5, HasRowsInitially DEF HasGraph
<1>7. CSRGraphInv
  BY <1>1, <1>6, FS_EmptySet DEF CSRGraphInv
<1> QED BY <1>1, <1>3, <1>7 DEF ContainersInv

LEMMA ContainersStep ==
  ASSUME T \subseteq Int, max \notin T, AlwaysInPlace = FALSE,
         ContainersInv, [ContainersNext]_containers
  PROVE  ContainersInv'
<1>1. CASE UNCHANGED containers
  <2>1. /\ adj_list' = adj_list /\ edges' = edges /\ row_ptrs' = row_ptrs
        /\ column_indices' = column_indices /\ values' = values
    BY <1>1 DEF containers, csr
  <2>2. AdjVertices' = AdjVertices
    BY <2>1 DEF AdjVertices, Adj!vertices
  <2> QED BY <2>1, <2>2 DEF ContainersInv, AdjInv, EdgeListInv, CSRGraphInv
<1>2. CASE ContainersNext
  <2>1. AdjInv' /\ EdgeListInv'
    BY <1>2, AdjStep, EdgeListStep DEF ContainersInv
  <2>2. CSRGraphInv'
    BY <1>2, <2>1, CSRGraphStep DEF ContainersInv, CSRStepped
  <2> QED BY <2>1, <2>2 DEF ContainersInv
<1> QED BY <1>1, <1>2

\* After any calls of the containers, from any vertex of theirs, the searches
\* that src/graphs runs on one thread - bfs and dfs of garph_algo.hpp over
\* each container, and GraphCSR's own bfs - end with an empty to_visit, have
\* observed each vertex reachable from the start once and no other, and the
\* breadth-first ones have observed them in the order of their distance.
THEOREM SearchesOfContainers ==
  ASSUME IsFiniteSet(T), AlwaysInPlace = FALSE
  PROVE  ContainersSpec => []SearchesComplete
<1>0. T \subseteq Int /\ max \notin T
  BY TAssumption
<1> USE <1>0
<1>1. ContainersInv => SearchesComplete
  BY SearchesAreComplete DEF ContainersInv
<1>2. ContainersInv /\ [ContainersNext]_containers => ContainersInv'
  BY ContainersStep
<1> QED BY <1>1, <1>2, ContainersStart, PTL DEF ContainersSpec

=============================================================================
