------------------------------ MODULE PeakMem ------------------------------
(***************************************************************************)
(* A program that includes peak_mem.hpp: its threads allocate and free     *)
(* while an RssPoller runs beside them.  The two parts share no variable.  *)
(***************************************************************************)
EXTENDS HeapTracker, RssPoller, FiniteSetsExt

vars == <<heapVars, rssVars>>

Init == HeapInit /\ RssInit

Next ==
  \/ HeapNext /\ UNCHANGED rssVars
  \/ RssNext /\ UNCHANGED heapVars

\* The heap's threads may stop anywhere; nothing is assumed of them.
Spec == Init /\ [][Next]_vars /\ RssFairness

\* g_cur_heap is what the blocks that are counted amount to: those handed
\* out, but for the ones whose add is still to come or whose sub has been.
\* So it never wraps below zero, whatever thread deletes a block, and is
\* never more than malloc has really handed out.
Accounting ==
  LET Uncounted == {block[t] : t \in {u \in Threads : pc[u] \in {"add", "free"}}}
  IN  cur = MapThenSumSet(LAMBDA a : header[a], Blocks \ Uncounted)

=============================================================================
