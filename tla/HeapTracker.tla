---------------------------- MODULE HeapTracker ----------------------------
(***************************************************************************)
(* The live-heap tracker of peak_mem.hpp: operator new and operator delete *)
(* keep the number of bytes in use and the largest number there ever was,  *)
(* in two relaxed atomics that every thread of the program shares.         *)
(*                                                                         *)
(* A relaxed load may return an old value.  What coherence leaves of that  *)
(* is modelled: peaks is the set of values g_peak_heap has held, and a     *)
(* thread never reads one older than the last it read, which is prev[t].   *)
(* (The code only ever stores a larger value, so older is smaller.)  A     *)
(* read-modify-write acts on the latest value, as the standard requires.   *)
(***************************************************************************)
EXTENDS Integers

CONSTANTS
  Threads,     \* the threads of the program
  Addresses,   \* where malloc can put a block
  Sizes,       \* the sizes that are asked for
  None         \* no address

ASSUMPTION SizesAssumption == Sizes \subseteq Nat
ASSUMPTION NoneAssumption == None \notin Addresses

VARIABLES
  header,      \* the blocks malloc has handed out, with the size written there
  cur,         \* g_cur_heap
  peak,        \* g_peak_heap
  peaks,       \* the values g_peak_heap has held
  pc,          \* where each thread is in operator new or operator delete
  block,       \* the raw block it works on
  now,         \* its local cur: the bytes in use just after its own fetch_add
  prev,        \* its local prev, kept between calls as the last value it read
  top          \* the largest value cur has ever had (no variable of the code)

heapVars == <<header, cur, peak, peaks, pc, block, now, prev, top>>

Blocks == DOMAIN header

HeapInit ==
  /\ header = [a \in {} |-> 0]
  /\ cur = 0 /\ peak = 0 /\ peaks = {0} /\ top = 0
  /\ pc = [t \in Threads |-> "idle"]
  /\ block = [t \in Threads |-> None]
  /\ now = [t \in Threads |-> 0]
  /\ prev = [t \in Threads |-> 0]

Goto(t, l) == pc' = [pc EXCEPT ![t] = l]

\* Thread t leaves the operator it was in, and forgets its locals.
Leave(t) ==
  /\ Goto(t, "idle")
  /\ block' = [block EXCEPT ![t] = None]
  /\ now' = [now EXCEPT ![t] = 0]

(***************************************************************************)
(* operator new.  When malloc finds nothing the call throws and nothing    *)
(* has changed: that is a stuttering step.                                 *)
(***************************************************************************)
Malloc(t) ==
  /\ pc[t] = "idle"
  /\ \E a \in Addresses \ Blocks, sz \in Sizes :
       /\ header' = [b \in Blocks \cup {a} |-> IF b = a THEN sz ELSE header[b]]
       /\ block' = [block EXCEPT ![t] = a]
  /\ Goto(t, "add")
  /\ UNCHANGED <<cur, peak, peaks, now, prev, top>>

FetchAdd(t) ==
  /\ pc[t] = "add"
  /\ cur' = cur + header[block[t]]
  /\ now' = [now EXCEPT ![t] = cur']
  /\ top' = IF cur' > top THEN cur' ELSE top
  /\ Goto(t, "load")
  /\ UNCHANGED <<header, peak, peaks, block, prev>>

\* Any value that t may still read, the latest or an older one.
ReadPeak(t) == \E p \in peaks : p >= prev[t] /\ prev' = [prev EXCEPT ![t] = p]

LoadPeak(t) ==
  /\ pc[t] = "load"
  /\ ReadPeak(t)
  /\ Goto(t, "raise")
  /\ UNCHANGED <<header, cur, peak, peaks, block, now, top>>

\* The peak that was read is no smaller: the loop ends.
NotLarger(t) ==
  /\ pc[t] = "raise" /\ now[t] <= prev[t]
  /\ Leave(t)
  /\ UNCHANGED <<header, cur, peak, peaks, prev, top>>

\* Mutant: a store in place of the exchange.
RaiseBlind(t) ==
  /\ pc[t] = "raise" /\ now[t] > prev[t]
  /\ peak' = now[t] /\ peaks' = peaks \cup {now[t]}
  /\ prev' = [prev EXCEPT ![t] = now[t]]
  /\ Leave(t)
  /\ UNCHANGED <<header, cur, top>>

\* The exchange succeeds: it found the value that was read.
Raise(t) ==
  /\ pc[t] = "raise" /\ now[t] > prev[t]
  /\ peak = prev[t]
  /\ peak' = now[t] /\ peaks' = peaks \cup {now[t]}
  /\ prev' = [prev EXCEPT ![t] = now[t]]
  /\ Leave(t)
  /\ UNCHANGED <<header, cur, top>>

\* It fails, because the value differs or for no reason at all (it is the
\* weak one), and has read the peak again.
RaiseFails(t) ==
  /\ pc[t] = "raise" /\ now[t] > prev[t]
  /\ ReadPeak(t)
  /\ UNCHANGED <<header, cur, peak, peaks, pc, block, now, top>>

New(t) ==
  \/ Malloc(t) \/ FetchAdd(t) \/ LoadPeak(t)
  \/ NotLarger(t) \/ Raise(t) \/ RaiseFails(t)

(***************************************************************************)
(* operator delete, of a block that new has returned, by any thread of the *)
(* program, once.                                                          *)
(***************************************************************************)
Returned == {a \in Blocks : \A t \in Threads : block[t] # a}

Sub(t) ==
  /\ pc[t] = "idle"
  /\ \E a \in Returned :
       /\ cur' = cur - header[a]
       /\ block' = [block EXCEPT ![t] = a]
  /\ Goto(t, "free")
  /\ UNCHANGED <<header, peak, peaks, now, prev, top>>

Free(t) ==
  /\ pc[t] = "free"
  /\ header' = [a \in Blocks \ {block[t]} |-> header[a]]
  /\ Leave(t)
  /\ UNCHANGED <<cur, peak, peaks, prev, top>>

\* Mutant: the block is given back first and the count lowered afterwards.
DeleteFreeFirst(t) ==
  \/ /\ pc[t] = "idle"
     /\ \E a \in Returned :
          /\ header' = [b \in Blocks \ {a} |-> header[b]]
          /\ now' = [now EXCEPT ![t] = header[a]]
     /\ Goto(t, "free")
     /\ UNCHANGED <<cur, peak, peaks, block, prev, top>>
  \/ /\ pc[t] = "free"
     /\ cur' = cur - now[t]
     /\ Leave(t)
     /\ UNCHANGED <<header, peak, peaks, prev, top>>

Delete(t) == Sub(t) \/ Free(t)

HeapNext == \E t \in Threads : New(t) \/ Delete(t)

HeapSpec == HeapInit /\ [][HeapNext]_heapVars

(***************************************************************************)
(* Properties                                                              *)
(***************************************************************************)

\* The threads between their fetch_add and the end of add.
Adding == {t \in Threads : pc[t] \in {"load", "raise"}}

HeapTypeOK ==
  /\ Blocks \subseteq Addresses
  /\ \A a \in Blocks : header[a] \in Sizes
  /\ cur \in Int /\ peak \in Int /\ top \in Int /\ peaks \subseteq Int
  /\ pc \in [Threads -> {"idle", "add", "load", "raise", "free"}]
  /\ block \in [Threads -> Blocks \cup {None}]
  /\ now \in [Threads -> Int] /\ prev \in [Threads -> Int]

\* However the threads that allocate at once get in each other's way, the
\* peak is never more than was in use at some moment, and what it misses is
\* on its way: the largest number of bytes there ever was is the peak, or a
\* thread that has seen it is still inside add.  So the peak is exact when
\* nobody is inside add, whatever stale values were read.
PeakIsMax ==
  /\ peak <= top
  /\ peak = top \/ \E t \in Adding : now[t] = top

\* A thread that is inside new or delete has a block that no other thread has.
OneHand ==
  \A t \in Threads :
    /\ pc[t] = "idle" <=> block[t] = None
    /\ \A u \in Threads \ {t} : block[t] = block[u] => block[t] = None

\* Why PeakIsMax lasts: nobody has read a value above the peak, or counted
\* more bytes than the top.
HeapInv ==
  /\ HeapTypeOK
  /\ OneHand
  /\ PeakIsMax
  /\ \A p \in peaks : p <= peak
  /\ \A t \in Threads : prev[t] <= peak
  /\ \A t \in Adding : now[t] <= top

=============================================================================
