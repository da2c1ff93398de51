----------------------------- MODULE RssPoller -----------------------------
(***************************************************************************)
(* RssPoller (peak_mem.hpp): an object with a thread of its own that       *)
(* samples the size of the working set, keeps the largest sample, and ends *)
(* when the destructor tells it to, which waits for it.                    *)
(***************************************************************************)
EXTENDS Naturals

CONSTANT MaxRss      \* bound: the working set is 0..MaxRss

ASSUME MaxRssAssumption == MaxRss \in Nat

VARIABLES
  poller,    \* the thread: "check", "sample", "store", "sleep" or "ended"
  owner,     \* the owner of the object: "alive", "joining" or "gone"
  stop,      \* stop_
  sample,    \* its local cur: a sample that is to be stored, or 0
  peak_rss,  \* peak_rss_
  largest    \* the largest sample so far (no variable of the code)

rssVars == <<poller, owner, stop, sample, peak_rss, largest>>

\* The constructor has started the thread.
RssInit ==
  /\ poller = "check" /\ owner = "alive" /\ stop = FALSE
  /\ sample = 0 /\ peak_rss = 0 /\ largest = 0

\* The loads of stop_ are relaxed: one that comes after the store may still
\* return FALSE, although not for ever.
NotStopped ==
  /\ poller = "check" /\ poller' = "sample"
  /\ UNCHANGED <<owner, stop, sample, peak_rss, largest>>

Stopped ==
  /\ poller = "check" /\ stop /\ poller' = "ended"
  /\ UNCHANGED <<owner, stop, sample, peak_rss, largest>>

\* Mutant: every sample is stored.
SampleStored ==
  /\ poller = "sample" /\ poller' = "store"
  /\ sample' \in 0..MaxRss
  /\ largest' = IF sample' > largest THEN sample' ELSE largest
  /\ UNCHANGED <<owner, stop, peak_rss>>

\* GetProcessMemoryInfo fills pmc.  Nobody else writes peak_rss_, so the
\* thread reads what it wrote last.
Sample ==
  /\ poller = "sample"
  /\ \E rss \in 0..MaxRss :
       /\ largest' = IF rss > largest THEN rss ELSE largest
       /\ IF rss > peak_rss THEN poller' = "store" /\ sample' = rss
                            ELSE poller' = "sleep" /\ UNCHANGED sample
  /\ UNCHANGED <<owner, stop, peak_rss>>

SampleFails ==
  /\ poller = "sample" /\ poller' = "sleep"
  /\ UNCHANGED <<owner, stop, sample, peak_rss, largest>>

Store ==
  /\ poller = "store" /\ poller' = "sleep"
  /\ peak_rss' = sample /\ sample' = 0
  /\ UNCHANGED <<owner, stop, largest>>

Sleep ==
  /\ poller = "sleep" /\ poller' = "check"
  /\ UNCHANGED <<owner, stop, sample, peak_rss, largest>>

\* Mutant: ~RssPoller waits for a thread that nobody has told to stop.
DestroySilent ==
  /\ owner = "alive" /\ owner' = "joining"
  /\ UNCHANGED <<poller, stop, sample, peak_rss, largest>>

\* ~RssPoller: the store, then the join.
Destroy ==
  /\ owner = "alive" /\ owner' = "joining"
  /\ stop' = TRUE
  /\ UNCHANGED <<poller, sample, peak_rss, largest>>

Join ==
  /\ owner = "joining" /\ poller = "ended" /\ owner' = "gone"
  /\ UNCHANGED <<poller, stop, sample, peak_rss, largest>>

PollerStep == NotStopped \/ Stopped \/ Sample \/ SampleFails \/ Store \/ Sleep

RssNext == PollerStep \/ Destroy \/ Join

\* The thread is scheduled, sees a store after a finite time, and join
\* returns once the thread has ended.  Nobody has to destroy the object.
RssFairness ==
  WF_rssVars(PollerStep) /\ SF_rssVars(Stopped) /\ WF_rssVars(Join)

(***************************************************************************)
(* Properties                                                              *)
(***************************************************************************)

\* What peak_bytes reads is the largest sample there was, except for the one
\* the thread is about to store, and is never a size that was not sampled.
PeakIsLargestSample ==
  IF poller = "store" THEN sample = largest /\ peak_rss < largest
                      ELSE peak_rss = largest

\* The destructor returns: its relaxed store reaches a thread that polls,
\* samples or sleeps.
DestructorReturns == owner = "joining" ~> owner = "gone"

=============================================================================
