--------------------------- MODULE PeakMem_proofs ---------------------------
(***************************************************************************)
(* PeakIsMax and Accounting for every number of threads, addresses and     *)
(* sizes, and PeakIsLargestSample for every size of the working set: first *)
(* for each part alone, then for the program that has them both.           *)
(*                                                                         *)
(* Accounting is about a sum over a set.  What MapThenSumSet computes is   *)
(* found by induction over the subsets of a finite set: the sets of which  *)
(* a claim is false would have a smallest one.                             *)
(***************************************************************************)
EXTENDS PeakMem, FiniteSetTheorems, WellFoundedInduction, TLAPS

----------------------------------------------------------------------------
(* The heap tracker *)


LEMMA SizesAreIntegers == \A sz \in Sizes : sz \in Int
BY SizesAssumption

LEMMA HeapInitial == HeapInit => HeapInv
BY SizesAssumption
DEF HeapInit, HeapInv, HeapTypeOK, PeakIsMax, Adding, Blocks, OneHand

\* The steps that leave the two counters, their histories and what each thread
\* has counted alone, and take no thread out of add or into it, keep HeapInv
\* if they keep the types and read no value above the peak.
LEMMA OffTheCounters ==
  ASSUME HeapInv, HeapTypeOK', OneHand', Adding' = Adding,
         UNCHANGED <<peak, peaks, top>>,
         \A u \in Adding : now'[u] = now[u],
         \A u \in Threads : prev'[u] <= peak
  PROVE  HeapInv'
BY DEF HeapInv, PeakIsMax, Adding

LEMMA MallocStep ==
  ASSUME HeapInv, NEW t \in Threads, Malloc(t)
  PROVE  HeapInv'
<1>1. HeapTypeOK' /\ OneHand'
  BY NoneAssumption DEF HeapInv, HeapTypeOK, Malloc, Goto, Blocks, OneHand
<1>2. Adding' = Adding
  BY DEF HeapInv, HeapTypeOK, Malloc, Goto, Adding
<1> QED
  BY <1>1, <1>2, OffTheCounters DEF HeapInv, Malloc, Adding

\* A thread that has seen more than there ever was is the new witness.
LEMMA FetchAddStep ==
  ASSUME HeapInv, NEW t \in Threads, FetchAdd(t)
  PROVE  HeapInv'
<1>1. /\ pc[t] = "add" /\ pc' = [pc EXCEPT ![t] = "load"]
      /\ now' = [now EXCEPT ![t] = cur']
      /\ top' = IF cur' > top THEN cur' ELSE top
      /\ UNCHANGED <<header, peak, peaks, block, prev>>
  BY DEF FetchAdd, Goto
<1>2. /\ cur' \in Int /\ top \in Int /\ peak \in Int
      /\ pc \in [Threads -> {"idle", "add", "load", "raise", "free"}]
      /\ now \in [Threads -> Int]
  <2>1. block[t] \in Blocks
    BY <1>1 DEF HeapInv, HeapTypeOK, OneHand
  <2>2. header[block[t]] \in Int
    BY <2>1, SizesAreIntegers DEF HeapInv, HeapTypeOK
  <2> QED
    BY <2>2 DEF HeapInv, HeapTypeOK, FetchAdd
<1>3. HeapTypeOK' /\ OneHand'
  BY <1>1, <1>2 DEF HeapInv, HeapTypeOK, Blocks, OneHand
<1>4. Adding' = Adding \cup {t} /\ t \notin Adding
  BY <1>1, <1>2 DEF Adding
<1>5. top' \in Int /\ top <= top' /\ cur' <= top' /\ (top' = top \/ top' = cur')
  BY <1>1, <1>2
<1>6. \A u \in Adding' : now'[u] <= top'
  BY <1>1, <1>2, <1>4, <1>5 DEF HeapInv, Adding
<1>7. PeakIsMax'
  <2>1. peak' <= top'
    BY <1>1, <1>2, <1>5 DEF HeapInv, PeakIsMax
  <2>2. peak' = top' \/ \E u \in Adding' : now'[u] = top'
    <3>1. CASE top' = cur'
      BY <3>1, <1>1, <1>2, <1>4
    <3>2. CASE top' = top
      BY <3>2, <1>1, <1>2, <1>4 DEF HeapInv, PeakIsMax, Adding
    <3> QED
      BY <1>5, <3>1, <3>2
  <2> QED
    BY <2>1, <2>2 DEF PeakIsMax
<1> QED
  BY <1>1, <1>3, <1>6, <1>7 DEF HeapInv

LEMMA ReadStep ==
  ASSUME HeapInv, NEW t \in Threads, LoadPeak(t) \/ RaiseFails(t)
  PROVE  HeapInv'
<1>1. PICK p \in peaks : prev' = [prev EXCEPT ![t] = p]
  BY DEF LoadPeak, RaiseFails, ReadPeak
<1>2. HeapTypeOK' /\ OneHand'
  BY <1>1 DEF HeapInv, HeapTypeOK, LoadPeak, RaiseFails, Goto, Blocks, OneHand
<1>3. Adding' = Adding
  BY DEF HeapInv, HeapTypeOK, LoadPeak, RaiseFails, Goto, Adding
<1>4. \A u \in Threads : prev'[u] <= peak
  BY <1>1 DEF HeapInv, HeapTypeOK
<1> QED
  BY <1>2, <1>3, <1>4, OffTheCounters DEF HeapInv, LoadPeak, RaiseFails

\* Who gives up has read a peak that is at least what it has counted.
LEMMA NotLargerStep ==
  ASSUME HeapInv, NEW t \in Threads, NotLarger(t)
  PROVE  HeapInv'
<1>1. HeapTypeOK' /\ OneHand'
  BY DEF HeapInv, HeapTypeOK, NotLarger, Leave, Goto, Blocks, OneHand
<1>2. Adding' = Adding \ {t} /\ t \in Adding
  BY DEF HeapInv, HeapTypeOK, NotLarger, Leave, Goto, Adding
<1>3. UNCHANGED <<peak, peaks, top, prev>>
  BY DEF NotLarger
<1>4. \A u \in Adding' : now'[u] = now[u]
  BY <1>2 DEF HeapInv, HeapTypeOK, NotLarger, Leave, Adding
<1>5. now[t] <= peak /\ peak <= top /\ peak \in Int /\ top \in Int /\ now[t] \in Int
  BY DEF NotLarger, HeapInv, HeapTypeOK, PeakIsMax
<1>6. PeakIsMax'
  <2>1. CASE now[t] = top
    BY <2>1, <1>3, <1>5 DEF PeakIsMax
  <2>2. CASE now[t] # top
    BY <2>2, <1>2, <1>3, <1>4 DEF HeapInv, PeakIsMax
  <2> QED
    BY <2>1, <2>2
<1> QED
  BY <1>1, <1>2, <1>3, <1>4, <1>6 DEF HeapInv

\* Who raises the peak found it where it was, so it only ever grows.
LEMMA RaiseStep ==
  ASSUME HeapInv, NEW t \in Threads, Raise(t)
  PROVE  HeapInv'
<1>1. HeapTypeOK'
  <2>1. now[t] \in Int
    BY DEF HeapInv, HeapTypeOK
  <2>2. peak' \in Int /\ peaks' \subseteq Int /\ prev' \in [Threads -> Int]
    BY <2>1 DEF HeapInv, HeapTypeOK, Raise
  <2>3. /\ pc' \in [Threads -> {"idle", "add", "load", "raise", "free"}]
        /\ block' \in [Threads -> Blocks \cup {None}]
        /\ now' \in [Threads -> Int]
    BY DEF HeapInv, HeapTypeOK, Raise, Leave, Goto
  <2> QED
    BY <2>2, <2>3 DEF HeapInv, HeapTypeOK, Raise, Blocks
<1>2. Adding' = Adding \ {t} /\ t \in Adding
  BY DEF HeapInv, HeapTypeOK, Raise, Leave, Goto, Adding
<1>3. /\ peak' = now[t] /\ peaks' = peaks \cup {now[t]} /\ top' = top
      /\ prev' = [prev EXCEPT ![t] = now[t]]
      /\ peak < now[t]
  BY DEF Raise, HeapInv, HeapTypeOK
<1>4. \A u \in Adding' : now'[u] = now[u]
  BY <1>2 DEF HeapInv, HeapTypeOK, Raise, Leave, Adding
<1>5. /\ now[t] <= top /\ peak \in Int /\ top \in Int /\ now[t] \in Int
      /\ prev \in [Threads -> Int] /\ peaks \subseteq Int
  BY <1>2 DEF HeapInv, HeapTypeOK
<1>6. PeakIsMax'
  <2>1. CASE now[t] = top
    BY <2>1, <1>3, <1>5 DEF PeakIsMax
  <2>2. CASE now[t] # top
    BY <2>2, <1>2, <1>3, <1>4, <1>5 DEF HeapInv, PeakIsMax
  <2> QED
    BY <2>1, <2>2
<1>7. \A p \in peaks' : p <= peak'
  BY <1>3, <1>5 DEF HeapInv
<1>8. \A u \in Threads : prev'[u] <= peak'
  BY <1>3, <1>5 DEF HeapInv
<1>9. \A u \in Adding' : now'[u] <= top'
  BY <1>2, <1>3, <1>4 DEF HeapInv
<1>10. OneHand'
  BY DEF HeapInv, HeapTypeOK, OneHand, Raise, Leave, Goto
<1> QED
  BY <1>1, <1>6, <1>7, <1>8, <1>9, <1>10 DEF HeapInv

LEMMA DeleteStep ==
  ASSUME HeapInv, NEW t \in Threads, Delete(t)
  PROVE  HeapInv'
<1>1. CASE Sub(t)
  <2>1. PICK a \in Returned : /\ cur' = cur - header[a]
                              /\ block' = [block EXCEPT ![t] = a]
    BY <1>1 DEF Sub
  <2>2. a \in Blocks /\ header[a] \in Int /\ \A u \in Threads : block[u] # a
    BY SizesAreIntegers DEF Returned, HeapInv, HeapTypeOK
  <2>3. HeapTypeOK' /\ OneHand'
    BY <1>1, <2>1, <2>2, NoneAssumption
    DEF HeapInv, HeapTypeOK, Sub, Goto, Blocks, OneHand
  <2>4. Adding' = Adding
    BY <1>1 DEF HeapInv, HeapTypeOK, Sub, Goto, Adding
  <2> QED
    BY <1>1, <2>3, <2>4, OffTheCounters DEF HeapInv, Sub
<1>2. CASE Free(t)
  <2>1. HeapTypeOK' /\ OneHand'
    BY <1>2 DEF HeapInv, HeapTypeOK, Free, Leave, Goto, Blocks, OneHand
  <2>2. Adding' = Adding
    BY <1>2 DEF HeapInv, HeapTypeOK, Free, Leave, Goto, Adding
  <2>3. \A u \in Adding : now'[u] = now[u]
    BY <1>2 DEF HeapInv, HeapTypeOK, Free, Leave, Adding
  <2> QED
    BY <1>2, <2>1, <2>2, <2>3, OffTheCounters DEF HeapInv, Free
<1> QED
  BY <1>1, <1>2 DEF Delete

LEMMA HeapStep == HeapInv /\ [HeapNext]_heapVars => HeapInv'
<1> SUFFICES ASSUME HeapInv, [HeapNext]_heapVars PROVE HeapInv'
  OBVIOUS
<1>1. CASE UNCHANGED heapVars
  BY <1>1 DEF heapVars, HeapInv, HeapTypeOK, PeakIsMax, Adding, Blocks, OneHand
<1>2. CASE HeapNext
  BY <1>2, MallocStep, FetchAddStep, ReadStep, NotLargerStep, RaiseStep,
     DeleteStep
  DEF HeapNext, New
<1> QED
  BY <1>1, <1>2

\* HeapInv is inductive and holds of every program that allocates and deletes
\* as operator new and operator delete of peak_mem.hpp do.
THEOREM HeapInvHolds == HeapSpec => []HeapInv
BY HeapInitial, HeapStep, PTL DEF HeapSpec

----------------------------------------------------------------------------
(* The poller *)

\* The inductive invariant of the poller: its types and PeakIsLargestSample.
RssInv ==
  /\ poller \in {"check", "sample", "store", "sleep", "ended"}
  /\ sample \in Nat /\ peak_rss \in Nat /\ largest \in Nat
  /\ PeakIsLargestSample

LEMMA RssInitial == RssInit => RssInv
BY DEF RssInit, RssInv, PeakIsLargestSample

\* The thread that samples has stored the largest sample so far: what it finds
\* above peak_rss_ is the new largest.
LEMMA SampleStep ==
  ASSUME RssInv, Sample
  PROVE  RssInv'
<1>1. PICK rss \in 0..MaxRss :
        /\ largest' = IF rss > largest THEN rss ELSE largest
        /\ IF rss > peak_rss THEN poller' = "store" /\ sample' = rss
                             ELSE poller' = "sleep" /\ UNCHANGED sample
  BY DEF Sample
<1>2. rss \in Nat /\ peak_rss = largest /\ peak_rss' = peak_rss
  BY MaxRssAssumption DEF Sample, RssInv, PeakIsLargestSample
<1> QED
  BY <1>1, <1>2 DEF RssInv, PeakIsLargestSample

LEMMA RssStep == RssInv /\ [RssNext]_rssVars => RssInv'
<1> SUFFICES ASSUME RssInv, [RssNext]_rssVars PROVE RssInv'
  OBVIOUS
<1> USE DEF RssInv, PeakIsLargestSample
<1>1. CASE Sample
  BY <1>1, SampleStep
<1>2. CASE Store
  BY <1>2 DEF Store
<1>3. CASE NotStopped \/ Stopped \/ SampleFails \/ Sleep
  BY <1>3 DEF NotStopped, Stopped, SampleFails, Sleep
<1>4. CASE Destroy \/ Join
  BY <1>4 DEF Destroy, Join
<1>5. CASE UNCHANGED rssVars
  BY <1>5 DEF rssVars
<1> QED
  BY <1>1, <1>2, <1>3, <1>4, <1>5 DEF RssNext, PollerStep

----------------------------------------------------------------------------
(* Sums over finite sets *)

\* Induction over the subsets of a finite set: T is the set of those of which
\* the claim is true.
LEMMA SubsetInduction ==
  ASSUME NEW S, IsFiniteSet(S), NEW T,
         \A s \in SUBSET S : (\A r \in SUBSET s : r # s => r \in T) => s \in T
  PROVE  SUBSET S \subseteq T
<1> DEFINE B == (SUBSET S) \ T
           R == StrictSubsetOrdering(S)
<1> SUFFICES ASSUME B # {} PROVE FALSE
  OBVIOUS
<1>1. IsWellFoundedOn(R, SUBSET S)
  <2>1. IsWellFoundedOn(R, FiniteSubsetsOf(S)) /\ FiniteSubsetsOf(S) = SUBSET S
    BY FS_StrictSubsetOrderingWellFounded, FS_FiniteSubsetsOfFinite
  <2> QED BY <2>1
<1>2. B \subseteq SUBSET S
  OBVIOUS
<1>3. \E s \in B : \A r \in B : ~(<<r, s>> \in R)
  <2> HIDE DEF B, R
  <2> QED BY <1>1, <1>2, WFMin
<1>4. PICK s \in B : \A r \in B : ~(<<r, s>> \in R)
  BY <1>3
<1>5. \A r \in SUBSET s : r # s => r \in T
  <2> SUFFICES ASSUME NEW r \in SUBSET s, r # s, r \notin T PROVE FALSE
    OBVIOUS
  <2>1. r \in B /\ s \in SUBSET S
    OBVIOUS
  <2>2. <<r, s>> \in R
    BY <2>1 DEF StrictSubsetOrdering
  <2> QED BY <1>4, <2>1, <2>2
<1> QED BY <1>5

\* The function over the subsets of S by which MapThenSumSet adds up h.
Pick(s) == CHOOSE x \in s : TRUE
AddsUp(f, h, S) ==
  f = [s \in SUBSET S |-> IF s = {} THEN 0 ELSE h[Pick(s)] + f[s \ {Pick(s)}]]

SumOf(h, S) == MapThenSumSet(LAMBDA a : h[a], S)

LEMMA PickIn == \A s : s # {} => Pick(s) \in s
BY DEF Pick

LEMMA SumIsChoice ==
  ASSUME NEW h, NEW S
  PROVE  SumOf(h, S) = (CHOOSE f : AddsUp(f, h, S))[S]
BY DEF SumOf, MapThenSumSet, MapThenFoldSet, AddsUp, Pick

LEMMA SumStep ==
  ASSUME NEW f, NEW h, NEW S, AddsUp(f, h, S), NEW s \in SUBSET S
  PROVE  f[s] = IF s = {} THEN 0 ELSE h[Pick(s)] + f[s \ {Pick(s)}]
BY DEF AddsUp

\* Two such functions agree on the sets they both know.
LEMMA SumsAgree ==
  ASSUME NEW h, NEW S, IsFiniteSet(S), NEW U \in SUBSET S,
         NEW f, AddsUp(f, h, S), NEW g, AddsUp(g, h, U)
  PROVE  \A s \in SUBSET U : f[s] = g[s]
<1> DEFINE T == {s \in SUBSET U : f[s] = g[s]}
<1>1. IsFiniteSet(U)
  BY FS_Subset
<1>2. ASSUME NEW s \in SUBSET U, \A r \in SUBSET s : r # s => r \in T
      PROVE  s \in T
  <2>1. CASE s = {}
    BY <2>1, SumStep
  <2>2. CASE s # {}
    <3>1. s \ {Pick(s)} \in SUBSET s /\ s \ {Pick(s)} # s
      BY <2>2, PickIn
    <3>2. f[s \ {Pick(s)}] = g[s \ {Pick(s)}]
      BY <1>2, <3>1
    <3>3. s \in SUBSET S
      OBVIOUS
    <3>4. f[s] = h[Pick(s)] + f[s \ {Pick(s)}]
      BY <2>2, <3>3, SumStep
    <3>5. g[s] = h[Pick(s)] + g[s \ {Pick(s)}]
      BY <2>2, SumStep
    <3> QED BY <3>2, <3>4, <3>5
  <2> QED BY <2>1, <2>2
<1>3. SUBSET U \subseteq T
  <2> HIDE DEF T
  <2> QED BY <1>1, <1>2, SubsetInduction
<1> QED BY <1>3

\* There is such a function for every finite set.
LEMMA SumExists ==
  ASSUME NEW h, NEW S, IsFiniteSet(S)
  PROVE  \E f : AddsUp(f, h, S)
<1> DEFINE T == {s \in SUBSET S : \E f : AddsUp(f, h, s)}
<1>1. ASSUME NEW s \in SUBSET S, \A r \in SUBSET s : r # s => r \in T
      PROVE  s \in T
  <2> DEFINE F(r) == CHOOSE f : AddsUp(f, h, r)
             G == [r \in SUBSET s |->
                     IF r = {} THEN 0
                     ELSE h[Pick(r)] + F(r \ {Pick(r)})[r \ {Pick(r)}]]
  <2>1. \A r \in SUBSET s : r # s => AddsUp(F(r), h, r)
    BY <1>1
  <2>2. ASSUME NEW r \in SUBSET s, r # s
        PROVE  G[r] = F(r)[r]
    <3>1. AddsUp(F(r), h, r)
      BY <2>1, <2>2
    <3>2. F(r)[r] = IF r = {} THEN 0 ELSE h[Pick(r)] + F(r)[r \ {Pick(r)}]
      BY <3>1, SumStep
    <3>3. CASE r = {}
      BY <3>2, <3>3
    <3>4. CASE r # {}
      <4> DEFINE q == r \ {Pick(r)}
      <4>1. q \in SUBSET r /\ q # s
        BY <2>2, <3>4, PickIn
      <4>2. AddsUp(F(q), h, q)
        <5>1. q \in SUBSET s
          BY <4>1
        <5> HIDE DEF q, F
        <5> QED BY <2>1, <4>1, <5>1
      <4>3. IsFiniteSet(r)
        BY FS_Subset
      <4>4. F(r)[q] = F(q)[q]
        <5> HIDE DEF q, F
        <5> QED BY <3>1, <4>1, <4>2, <4>3, SumsAgree
      <4>5. G[r] = h[Pick(r)] + F(q)[q]
        BY <3>4
      <4> QED BY <3>2, <3>4, <4>4, <4>5
    <3> QED BY <3>3, <3>4
  <2>3. ASSUME NEW r \in SUBSET s, r # {}
        PROVE  G[r \ {Pick(r)}] = F(r \ {Pick(r)})[r \ {Pick(r)}]
    <3>1. r \ {Pick(r)} \in SUBSET s /\ r \ {Pick(r)} # s
      BY <2>3, PickIn
    <3> HIDE DEF F, G
    <3> QED BY <2>2, <3>1
  <2>4. AddsUp(G, h, s)
    <3>1. \A r \in SUBSET s : G[r] = IF r = {} THEN 0 ELSE h[Pick(r)] + G[r \ {Pick(r)}]
      <4> TAKE r \in SUBSET s
      <4>1. G[r] = IF r = {} THEN 0
                   ELSE h[Pick(r)] + F(r \ {Pick(r)})[r \ {Pick(r)}]
        OBVIOUS
      <4> HIDE DEF F, G
      <4> QED BY <2>3, <4>1
    <3>2. G = [r \in SUBSET s |-> G[r]]
      OBVIOUS
    <3> HIDE DEF F, G
    <3> QED BY <3>1, <3>2 DEF AddsUp
  <2> HIDE DEF F, G
  <2> QED BY <2>4
<1>2. SUBSET S \subseteq T
  <2> HIDE DEF T
  <2> QED BY <1>1, SubsetInduction
<1> QED BY <1>2

\* The sum of h over S, by the element that is added last.
LEMMA SumUnfolds ==
  ASSUME NEW h, NEW S, IsFiniteSet(S)
  PROVE  SumOf(h, S) = IF S = {} THEN 0
                       ELSE h[Pick(S)] + SumOf(h, S \ {Pick(S)})
<1> DEFINE F(s) == CHOOSE f : AddsUp(f, h, s)
<1>1. \A s \in SUBSET S : AddsUp(F(s), h, s) /\ SumOf(h, s) = F(s)[s]
  <2> TAKE s \in SUBSET S
  <2>1. IsFiniteSet(s)
    BY FS_Subset
  <2> QED BY <2>1, SumExists, SumIsChoice
<1> HIDE DEF F
<1>2. S \in SUBSET S /\ S \ {Pick(S)} \in SUBSET S
  OBVIOUS
<1>3. F(S)[S] = IF S = {} THEN 0 ELSE h[Pick(S)] + F(S)[S \ {Pick(S)}]
  BY <1>1, <1>2, SumStep
<1>4. F(S)[S \ {Pick(S)}] = F(S \ {Pick(S)})[S \ {Pick(S)}]
  BY <1>1, <1>2, SumsAgree
<1> QED BY <1>1, <1>2, <1>3, <1>4

\* The sum of integers is an integer, that of naturals a natural, and it is the
\* same for two functions that agree.
LEMMA SumIsInt ==
  ASSUME NEW h, NEW S, IsFiniteSet(S), \A a \in S : h[a] \in Int
  PROVE  SumOf(h, S) \in Int
<1> DEFINE T == {s \in SUBSET S : SumOf(h, s) \in Int}
<1>1. ASSUME NEW s \in SUBSET S, \A r \in SUBSET s : r # s => r \in T
      PROVE  s \in T
  <2>1. IsFiniteSet(s)
    BY FS_Subset
  <2>2. CASE s # {}
    <3>1. Pick(s) \in s /\ s \ {Pick(s)} \in SUBSET s /\ s \ {Pick(s)} # s
      BY <2>2, PickIn
    <3>2. SumOf(h, s \ {Pick(s)}) \in Int /\ h[Pick(s)] \in Int
      BY <1>1, <3>1
    <3> QED BY <2>1, <2>2, <3>2, SumUnfolds
  <2>3. CASE s = {}
    <3>1. SumOf(h, s) = 0
      BY <2>1, <2>3, SumUnfolds
    <3> QED BY <3>1
  <2> QED BY <2>2, <2>3
<1>2. SUBSET S \subseteq T
  <2> HIDE DEF T
  <2> QED BY <1>1, SubsetInduction
<1> QED BY <1>2

LEMMA SumIsNat ==
  ASSUME NEW h, NEW S, IsFiniteSet(S), \A a \in S : h[a] \in Nat
  PROVE  SumOf(h, S) \in Nat
<1> DEFINE T == {s \in SUBSET S : SumOf(h, s) \in Nat}
<1>1. ASSUME NEW s \in SUBSET S, \A r \in SUBSET s : r # s => r \in T
      PROVE  s \in T
  <2>1. IsFiniteSet(s)
    BY FS_Subset
  <2>2. CASE s # {}
    <3>1. Pick(s) \in s /\ s \ {Pick(s)} \in SUBSET s /\ s \ {Pick(s)} # s
      BY <2>2, PickIn
    <3>2. SumOf(h, s \ {Pick(s)}) \in Nat /\ h[Pick(s)] \in Nat
      BY <1>1, <3>1
    <3> QED BY <2>1, <2>2, <3>2, SumUnfolds
  <2>3. CASE s = {}
    <3>1. SumOf(h, s) = 0
      BY <2>1, <2>3, SumUnfolds
    <3> QED BY <3>1
  <2> QED BY <2>2, <2>3
<1>2. SUBSET S \subseteq T
  <2> HIDE DEF T
  <2> QED BY <1>1, SubsetInduction
<1> QED BY <1>2

LEMMA SumDependsOn ==
  ASSUME NEW h, NEW k, NEW S, IsFiniteSet(S), \A a \in S : h[a] = k[a]
  PROVE  SumOf(h, S) = SumOf(k, S)
<1> DEFINE T == {s \in SUBSET S : SumOf(h, s) = SumOf(k, s)}
<1>1. ASSUME NEW s \in SUBSET S, \A r \in SUBSET s : r # s => r \in T
      PROVE  s \in T
  <2>1. IsFiniteSet(s)
    BY FS_Subset
  <2>2. CASE s # {}
    <3>1. Pick(s) \in s /\ s \ {Pick(s)} \in SUBSET s /\ s \ {Pick(s)} # s
      BY <2>2, PickIn
    <3>2. SumOf(h, s \ {Pick(s)}) = SumOf(k, s \ {Pick(s)}) /\ h[Pick(s)] = k[Pick(s)]
      BY <1>1, <3>1
    <3> QED BY <2>1, <2>2, <3>2, SumUnfolds
  <2>3. CASE s = {}
    BY <2>1, <2>3, SumUnfolds
  <2> QED BY <2>2, <2>3
<1>2. SUBSET S \subseteq T
  <2> HIDE DEF T
  <2> QED BY <1>1, SubsetInduction
<1> QED BY <1>2

\* Whichever element is taken out of the set, the sum falls by what it adds: the
\* order in which the elements are added up does not count.
LEMMA SumWithout ==
  ASSUME NEW h, NEW S, IsFiniteSet(S), \A a \in S : h[a] \in Int, NEW b \in S
  PROVE  SumOf(h, S) = h[b] + SumOf(h, S \ {b})
<1> DEFINE T == {s \in SUBSET S : \A a \in s : SumOf(h, s) = h[a] + SumOf(h, s \ {a})}
<1>1. ASSUME NEW s \in SUBSET S, \A r \in SUBSET s : r # s => r \in T
      PROVE  s \in T
  <2> SUFFICES ASSUME NEW a \in s PROVE SumOf(h, s) = h[a] + SumOf(h, s \ {a})
    OBVIOUS
  <2>1. \A r \in SUBSET s : IsFiniteSet(r) /\ SumOf(h, r) \in Int
    BY FS_Subset, SumIsInt
  <2>2. PICK x \in s : x = Pick(s)
    BY PickIn
  <2>3. SumOf(h, s) = h[x] + SumOf(h, s \ {x})
    BY <2>1, <2>2, SumUnfolds
  <2>4. CASE a = x
    BY <2>3, <2>4
  <2>5. CASE a # x
    <3>1. /\ s \ {x} \in SUBSET s /\ s \ {x} # s /\ a \in s \ {x}
          /\ s \ {a} \in SUBSET s /\ s \ {a} # s /\ x \in s \ {a}
      BY <2>5
    <3>2. SumOf(h, s \ {x}) = h[a] + SumOf(h, (s \ {x}) \ {a})
      BY <1>1, <3>1
    <3>3. SumOf(h, s \ {a}) = h[x] + SumOf(h, (s \ {a}) \ {x})
      BY <1>1, <3>1
    <3>4. PICK r \in SUBSET s : r = (s \ {x}) \ {a} /\ r = (s \ {a}) \ {x}
      OBVIOUS
    <3>5. SumOf(h, r) \in Int /\ h[a] \in Int /\ h[x] \in Int
      BY <2>1
    <3>6. SumOf(h, s \ {x}) = h[a] + SumOf(h, r) /\ SumOf(h, s \ {a}) = h[x] + SumOf(h, r)
      BY <3>2, <3>3, <3>4
    <3> QED BY <2>3, <3>5, <3>6
  <2> QED BY <2>4, <2>5
<1>2. SUBSET S \subseteq T
  <2> HIDE DEF T
  <2> QED BY <1>1, SubsetInduction
<1> QED BY <1>2

----------------------------------------------------------------------------
(* The bytes in use *)

\* The blocks that cur counts.
Uncounted == {block[t] : t \in {u \in Threads : pc[u] \in {"add", "free"}}}
Counted == Blocks \ Uncounted

AccountingInv == IsFiniteSet(Blocks) /\ Accounting

LEMMA AccountingIsSum == Accounting <=> cur = SumOf(header, Counted)
BY DEF Accounting, SumOf, Counted, Uncounted

LEMMA AccountingInitial == HeapInit => AccountingInv
<1> SUFFICES ASSUME HeapInit PROVE AccountingInv
  OBVIOUS
<1>1. Blocks = {} /\ Counted = {} /\ cur = 0
  BY DEF HeapInit, Blocks, Counted
<1>2. IsFiniteSet(Blocks)
  BY <1>1, FS_EmptySet
<1>3. SumOf(header, Counted) = 0
  BY <1>1, <1>2, SumUnfolds
<1> QED BY <1>1, <1>2, <1>3, AccountingIsSum DEF AccountingInv

\* A step that leaves the counted blocks as they are.
LEMMA CountedKept ==
  ASSUME AccountingInv, cur' = cur, Counted' = Counted, IsFiniteSet(Blocks)',
         \A a \in Counted : header'[a] = header[a]
  PROVE  AccountingInv'
<1>1. IsFiniteSet(Counted)
  BY FS_Subset DEF AccountingInv, Counted
<1>2. cur = SumOf(header, Counted)
  BY AccountingIsSum DEF AccountingInv
<1>3. SumOf(header', Counted) = SumOf(header, Counted)
  BY <1>1, SumDependsOn
<1>4. cur' = SumOf(header', Counted')
  BY <1>2, <1>3
<1>5. (Accounting <=> cur = SumOf(header, Counted))'
  BY AccountingIsSum, PTL
<1> QED BY <1>4, <1>5 DEF AccountingInv

LEMMA MallocCounts ==
  ASSUME HeapInv, AccountingInv, NEW t \in Threads, Malloc(t)
  PROVE  AccountingInv'
<1>1. PICK a \in Addresses \ Blocks, sz \in Sizes :
        /\ header' = [b \in Blocks \cup {a} |-> IF b = a THEN sz ELSE header[b]]
        /\ block' = [block EXCEPT ![t] = a]
  BY DEF Malloc
<1>2. /\ pc[t] = "idle" /\ pc' = [pc EXCEPT ![t] = "add"] /\ cur' = cur
      /\ pc \in [Threads -> {"idle", "add", "load", "raise", "free"}]
      /\ block \in [Threads -> Blocks \cup {None}]
  BY DEF Malloc, Goto, HeapInv, HeapTypeOK
<1>3. Blocks' = Blocks \cup {a} /\ \A b \in Blocks : header'[b] = header[b]
  BY <1>1 DEF Blocks
<1>4. Uncounted' = Uncounted \cup {a}
  BY <1>1, <1>2 DEF Uncounted
<1>5. Counted' = Counted
  BY <1>1, <1>3, <1>4 DEF Counted
<1>6. IsFiniteSet(Blocks)'
  BY <1>3, FS_AddElement DEF AccountingInv
<1> QED BY <1>2, <1>3, <1>5, <1>6, CountedKept DEF Counted

LEMMA FetchAddCounts ==
  ASSUME HeapInv, AccountingInv, NEW t \in Threads, FetchAdd(t)
  PROVE  AccountingInv'
<1> DEFINE b == block[t]
<1>1. /\ pc[t] = "add" /\ pc' = [pc EXCEPT ![t] = "load"]
      /\ cur' = cur + header[b] /\ UNCHANGED <<header, block>>
      /\ pc \in [Threads -> {"idle", "add", "load", "raise", "free"}]
  BY DEF FetchAdd, Goto, HeapInv, HeapTypeOK
<1>2. b \in Blocks /\ \A u \in Threads \ {t} : block[u] # b
  BY <1>1, NoneAssumption DEF HeapInv, HeapTypeOK, OneHand
<1>3. Uncounted' = Uncounted \ {b} /\ b \in Uncounted
  BY <1>1, <1>2 DEF Uncounted
<1>4. Blocks' = Blocks
  BY <1>1 DEF Blocks
<1>5. Counted' = Counted \cup {b} /\ b \notin Counted
  BY <1>2, <1>3, <1>4 DEF Counted
<1>6. IsFiniteSet(Counted') /\ \A a \in Counted' : header[a] \in Int
  BY <1>4, FS_Subset, SizesAreIntegers DEF Counted, HeapInv, HeapTypeOK, AccountingInv
<1>7. SumOf(header, Counted') = header[b] + SumOf(header, Counted' \ {b})
  BY <1>5, <1>6, SumWithout
<1>8. Counted' \ {b} = Counted
  BY <1>5
<1>9. cur = SumOf(header, Counted)
  BY AccountingIsSum DEF AccountingInv
<1>10. cur \in Int /\ header[b] \in Int
  BY <1>2, SizesAreIntegers DEF HeapInv, HeapTypeOK
<1>11. cur' = SumOf(header', Counted')
  <2>1. SumOf(header, Counted') = header[b] + cur
    BY <1>7, <1>8, <1>9
  <2>2. cur' = SumOf(header, Counted')
    <3> HIDE DEF b
    <3> QED BY <1>1, <1>10, <2>1
  <2> QED BY <1>1, <2>2
<1>12. (Accounting <=> cur = SumOf(header, Counted))'
  BY AccountingIsSum, PTL
<1> QED BY <1>4, <1>11, <1>12 DEF AccountingInv

\* The block that is deleted is counted: no thread has it.
LEMMA SubCounts ==
  ASSUME HeapInv, AccountingInv, NEW t \in Threads, Sub(t)
  PROVE  AccountingInv'
<1>1. PICK b \in Returned : /\ cur' = cur - header[b]
                            /\ block' = [block EXCEPT ![t] = b]
  BY DEF Sub
<1>2. /\ pc[t] = "idle" /\ pc' = [pc EXCEPT ![t] = "free"] /\ header' = header
      /\ pc \in [Threads -> {"idle", "add", "load", "raise", "free"}]
      /\ block \in [Threads -> Blocks \cup {None}]
  BY DEF Sub, Goto, HeapInv, HeapTypeOK
<1>3. b \in Blocks /\ \A u \in Threads : block[u] # b
  BY DEF Returned
<1>4. Uncounted' = Uncounted \cup {b} /\ b \notin Uncounted
  BY <1>1, <1>2, <1>3 DEF Uncounted
<1>5. Blocks' = Blocks
  BY <1>2 DEF Blocks
<1>6. Counted' = Counted \ {b} /\ b \in Counted
  BY <1>3, <1>4, <1>5 DEF Counted
<1>7. IsFiniteSet(Counted) /\ \A a \in Counted : header[a] \in Int
  BY FS_Subset, SizesAreIntegers DEF Counted, HeapInv, HeapTypeOK, AccountingInv
<1>8. SumOf(header, Counted) = header[b] + SumOf(header, Counted')
  BY <1>6, <1>7, SumWithout
<1>9. cur = SumOf(header, Counted) /\ cur \in Int /\ header[b] \in Int
  BY <1>6, <1>7, AccountingIsSum DEF AccountingInv, HeapInv, HeapTypeOK
<1>10. SumOf(header, Counted') \in Int
  <2>1. IsFiniteSet(Counted') /\ \A a \in Counted' : header[a] \in Int
    BY <1>6, <1>7, FS_RemoveElement
  <2> QED BY <2>1, SumIsInt
<1>11. cur' = SumOf(header', Counted')
  BY <1>1, <1>2, <1>8, <1>9, <1>10
<1>12. (Accounting <=> cur = SumOf(header, Counted))'
  BY AccountingIsSum, PTL
<1> QED BY <1>5, <1>11, <1>12 DEF AccountingInv

LEMMA FreeCounts ==
  ASSUME HeapInv, AccountingInv, NEW t \in Threads, Free(t)
  PROVE  AccountingInv'
<1> DEFINE b == block[t]
<1>1. /\ pc[t] = "free" /\ pc' = [pc EXCEPT ![t] = "idle"] /\ cur' = cur
      /\ block' = [block EXCEPT ![t] = None]
      /\ header' = [a \in Blocks \ {b} |-> header[a]]
      /\ pc \in [Threads -> {"idle", "add", "load", "raise", "free"}]
      /\ block \in [Threads -> Blocks \cup {None}]
  BY DEF Free, Leave, Goto, HeapInv, HeapTypeOK
<1>2. \A u \in Threads \ {t} : block[u] # b
  BY <1>1 DEF HeapInv, OneHand
<1>3. Uncounted' = Uncounted \ {b} /\ b \in Uncounted
  BY <1>1, <1>2 DEF Uncounted
<1>4. Blocks' = Blocks \ {b} /\ \A a \in Blocks \ {b} : header'[a] = header[a]
  BY <1>1 DEF Blocks
<1>5. Counted' = Counted /\ b \notin Counted
  BY <1>3, <1>4 DEF Counted
<1>6. IsFiniteSet(Blocks)'
  BY <1>4, FS_RemoveElement DEF AccountingInv
<1> QED BY <1>1, <1>4, <1>5, <1>6, CountedKept DEF Counted

\* The other steps of operator new do not touch a block or the count.
LEMMA PeakCounts ==
  ASSUME HeapInv, AccountingInv, NEW t \in Threads,
         LoadPeak(t) \/ NotLarger(t) \/ Raise(t) \/ RaiseFails(t)
  PROVE  AccountingInv'
<1>1. /\ UNCHANGED <<header, cur>>
      /\ pc[t] \in {"load", "raise"}
      /\ \E l \in {"idle", "load", "raise"} : pc' = [pc EXCEPT ![t] = l]
      /\ \A u \in Threads \ {t} : block'[u] = block[u]
      /\ pc \in [Threads -> {"idle", "add", "load", "raise", "free"}]
  BY DEF LoadPeak, NotLarger, Raise, RaiseFails, Leave, Goto, HeapInv, HeapTypeOK
<1>2. {u \in Threads : pc'[u] \in {"add", "free"}} = {u \in Threads : pc[u] \in {"add", "free"}}
      /\ t \notin {u \in Threads : pc[u] \in {"add", "free"}}
  BY <1>1
<1>3. Uncounted' = Uncounted
  BY <1>1, <1>2 DEF Uncounted
<1>4. Blocks' = Blocks /\ Counted' = Counted
  BY <1>1, <1>3 DEF Blocks, Counted
<1> QED BY <1>1, <1>4, CountedKept DEF AccountingInv

LEMMA AccountingStep ==
  HeapInv /\ AccountingInv /\ [HeapNext]_heapVars => AccountingInv'
<1> SUFFICES ASSUME HeapInv, AccountingInv, [HeapNext]_heapVars PROVE AccountingInv'
  OBVIOUS
<1>1. CASE UNCHANGED heapVars
  <2>1. UNCHANGED <<header, cur, pc, block>>
    BY <1>1 DEF heapVars
  <2>2. Blocks' = Blocks /\ Counted' = Counted
    BY <2>1 DEF Blocks, Counted, Uncounted
  <2> QED BY <2>1, <2>2, CountedKept DEF AccountingInv
<1>2. ASSUME NEW t \in Threads, New(t) \/ Delete(t) PROVE AccountingInv'
  BY <1>2, MallocCounts, FetchAddCounts, SubCounts, FreeCounts, PeakCounts DEF New, Delete
<1> QED BY <1>1, <1>2 DEF HeapNext

----------------------------------------------------------------------------
(* The program *)

\* A step of the program is a step of one part and none of the other, so it
\* keeps the invariants of both.
THEOREM InvariantsHold == Spec => [](HeapInv /\ RssInv)
<1>1. Init => HeapInv /\ RssInv
  BY HeapInitial, RssInitial DEF Init
<1>2. [Next]_vars => [HeapNext]_heapVars /\ [RssNext]_rssVars
  BY DEF Next, vars
<1> QED
  BY <1>1, <1>2, HeapStep, RssStep, PTL DEF Spec

\* The peak misses nothing that is not on its way, and invents nothing.
THEOREM PeakIsMaxHolds == Spec => []PeakIsMax
BY InvariantsHold, PTL DEF HeapInv

\* What peak_bytes returns is the largest sample, or the one that the thread
\* is about to store is larger than all before.
THEOREM PeakIsLargestSampleHolds == Spec => []PeakIsLargestSample
BY InvariantsHold, PTL DEF RssInv

LEMMA AccountingInvHolds == Spec => []AccountingInv
<1>1. Init => AccountingInv
  BY AccountingInitial DEF Init
<1>2. HeapInv /\ AccountingInv /\ [Next]_vars => AccountingInv'
  <2>1. [Next]_vars => [HeapNext]_heapVars
    BY DEF Next, vars
  <2> QED BY <2>1, AccountingStep
<1> QED BY <1>1, <1>2, InvariantsHold, PTL DEF Spec

\* g_cur_heap is the sum of the sizes of the blocks that are counted, however
\* many threads allocate and free them.
THEOREM AccountingHolds == Spec => []Accounting
<1>1. AccountingInv => Accounting
  BY DEF AccountingInv
<1> QED BY <1>1, AccountingInvHolds, PTL

\* So g_cur_heap, which is unsigned, never wraps below zero.
THEOREM CurIsNeverNegative == Spec => [](cur >= 0)
<1>1. HeapInv /\ AccountingInv => cur >= 0
  <2> SUFFICES ASSUME HeapInv, AccountingInv PROVE cur >= 0
    OBVIOUS
  <2>1. IsFiniteSet(Counted) /\ \A a \in Counted : header[a] \in Nat
    BY FS_Subset, SizesAssumption DEF Counted, HeapInv, HeapTypeOK, AccountingInv
  <2>2. SumOf(header, Counted) \in Nat
    BY <2>1, SumIsNat
  <2> QED BY <2>2, AccountingIsSum DEF AccountingInv
<1> QED BY <1>1, AccountingInvHolds, InvariantsHold, PTL

=============================================================================
