------------------------------ MODULE FifoQueue ------------------------------
(***************************************************************************)
(* The promise of a concurrent first-in first-out queue: every call takes  *)
(* effect at one instant between its invocation and its return.            *)
(*                                                                         *)
(* A call is visible through phase and data: its invocation, the instant   *)
(* at which it takes effect, and its return are steps of their own.  A     *)
(* dequeue may report "empty" only if the queue was empty at some instant  *)
(* of the call (SeeEmpty).  Forget lets an implementation drop such an     *)
(* observation and try again; the drop promises nothing to the caller.     *)
(***************************************************************************)
EXTENDS Sequences

CONSTANTS Threads,   \* the callers
          Values,    \* the values that can be enqueued
          NoValue    \* what data[t] holds when the call of t has no value yet

VARIABLES queue,     \* the values enqueued and not dequeued, oldest first
          phase,     \* how far the call of each thread has come
          data       \* the argument of an enqueue, the result of a dequeue

vars == <<queue, phase, data>>

Phases == {"idle", "enq", "enqDone", "deq", "deqDone", "deqEmpty"}

Init == /\ queue = <<>>
        /\ phase = [t \in Threads |-> "idle"]
        /\ data = [t \in Threads |-> NoValue]

\* The call of t moves on from phase "from" to phase "to".
Move(t, from, to) == /\ phase[t] = from
                     /\ phase' = [phase EXCEPT ![t] = to]

BeginEnq(t) == /\ Move(t, "idle", "enq")
               /\ \E v \in Values : data' = [data EXCEPT ![t] = v]
               /\ UNCHANGED queue

TakeEffectEnq(t) == /\ Move(t, "enq", "enqDone")
                    /\ queue' = Append(queue, data[t])
                    /\ UNCHANGED data

EndEnq(t) == /\ Move(t, "enqDone", "idle")
             /\ data' = [data EXCEPT ![t] = NoValue]
             /\ UNCHANGED queue

BeginDeq(t) == /\ Move(t, "idle", "deq")
               /\ UNCHANGED <<queue, data>>

TakeEffectDeq(t) == /\ Move(t, "deq", "deqDone")
                    /\ queue # <<>>
                    /\ data' = [data EXCEPT ![t] = Head(queue)]
                    /\ queue' = Tail(queue)

EndDeq(t) == /\ Move(t, "deqDone", "idle")
             /\ data' = [data EXCEPT ![t] = NoValue]
             /\ UNCHANGED queue

SeeEmpty(t) == /\ Move(t, "deq", "deqEmpty")
               /\ queue = <<>>
               /\ UNCHANGED <<queue, data>>

Forget(t) == /\ Move(t, "deqEmpty", "deq")
             /\ UNCHANGED <<queue, data>>

EndDeqEmpty(t) == /\ Move(t, "deqEmpty", "idle")
                  /\ UNCHANGED <<queue, data>>

Next == \E t \in Threads :
           \/ BeginEnq(t) \/ TakeEffectEnq(t) \/ EndEnq(t)
           \/ BeginDeq(t) \/ TakeEffectDeq(t) \/ EndDeq(t)
           \/ SeeEmpty(t) \/ Forget(t) \/ EndDeqEmpty(t)

Spec == Init /\ [][Next]_vars

=============================================================================
