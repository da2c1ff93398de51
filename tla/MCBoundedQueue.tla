--------------------------- MODULE MCBoundedQueue ---------------------------
(***************************************************************************)
(* BoundedQueue under the workload of the concurrent tests                 *)
(* (test_bounded_queue.cpp): producers and consumers that make as many     *)
(* calls of deq as of enq, and are joined.                                 *)
(***************************************************************************)
EXTENDS BoundedQueue

CONSTANTS Producers,    \* the threads that enqueue; the others dequeue
          Twice,        \* the threads that make two calls; the others make one
          MaxSpurious   \* bound: the spurious wakeups of a behaviour

VARIABLES calls,        \* calls[t]: the number of calls t has still to make
          spurious      \* the number of spurious wakeups so far

\* Each producer enqueues a value of its own.
OwnValue == CHOOSE f \in [Producers -> Values] :
              \A p, q \in Producers : f[p] = f[q] => p = q

work == <<calls, spurious>>

WorkInit == /\ Init
            /\ calls = [t \in Threads |-> IF t \in Twice THEN 2 ELSE 1]
            /\ spurious = 0

WorkBegin(t) == /\ calls[t] > 0
                /\ calls' = [calls EXCEPT ![t] = @ - 1]
                /\ IF t \in Producers
                   THEN EnqBegin(t) /\ val'[t] = OwnValue[t]
                   ELSE DeqBegin(t)
                /\ UNCHANGED spurious

WorkStep(t) == Step(t) /\ UNCHANGED work

WorkSpurious(t) == /\ spurious < MaxSpurious
                   /\ spurious' = spurious + 1
                   /\ SpuriousWakeup(t)
                   /\ UNCHANGED calls

AllReturned == \A t \in Threads : pc[t] = "idle" /\ calls[t] = 0

\* The threads have joined.
Joined == AllReturned /\ UNCHANGED <<vars, work>>

WorkNext == \/ Joined
            \/ \E t \in Threads : WorkBegin(t) \/ WorkStep(t) \/ WorkSpurious(t)

\* The scheduler runs every thread that can run.  No wakeup need be spurious.
WorkSpec == /\ WorkInit
            /\ [][WorkNext]_<<vars, work>>
            /\ \A t \in Threads : WF_<<vars, work>>(WorkBegin(t) \/ WorkStep(t))

\* With as many dequeues as enqueues every call returns: no thread waits for
\* ever on a condition variable or a mutex.
Termination == <>AllReturned

=============================================================================
