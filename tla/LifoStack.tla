------------------------------ MODULE LifoStack ------------------------------
(***************************************************************************)
(* The promise of a concurrent last-in first-out stack: every call takes   *)
(* effect at one instant between its invocation and its return.  Two calls *)
(* may take effect at the same instant if they are a push and a pop that   *)
(* takes what is being pushed: that is the push followed by the pop.       *)
(***************************************************************************)
EXTENDS Sequences

CONSTANTS Threads,   \* the callers
          Values,    \* the values that can be pushed
          NoValue    \* what data[t] holds when the call of t has no value yet

VARIABLES stack,     \* the values in the stack, the top first
          phase,     \* how far the call of each thread has come
          data       \* the argument of a push, the result of a pop

vars == <<stack, phase, data>>

Init == /\ stack = <<>>
        /\ phase = [t \in Threads |-> "idle"]
        /\ data = [t \in Threads |-> NoValue]

\* The call of t moves on from phase "from" to phase "to".
Move(t, from, to) == /\ phase[t] = from
                     /\ phase' = [phase EXCEPT ![t] = to]

BeginPush(t) == /\ Move(t, "idle", "push")
                /\ \E v \in Values : data' = [data EXCEPT ![t] = v]
                /\ UNCHANGED stack

Push(t) == /\ Move(t, "push", "pushDone")
           /\ stack' = <<data[t]>> \o stack
           /\ UNCHANGED data

BeginPop(t) == /\ Move(t, "idle", "pop")
               /\ UNCHANGED <<stack, data>>

Pop(t) == /\ Move(t, "pop", "popDone")
          /\ stack # <<>>
          /\ data' = [data EXCEPT ![t] = Head(stack)]
          /\ stack' = Tail(stack)

\* The push of t and the pop of u.
PushAndPop(t, u) ==
  /\ phase[t] = "push" /\ phase[u] = "pop"
  /\ phase' = [phase EXCEPT ![t] = "pushDone", ![u] = "popDone"]
  /\ data' = [data EXCEPT ![u] = data[t]]
  /\ UNCHANGED stack

PopEmpty(t) == /\ Move(t, "pop", "popEmpty")
               /\ stack = <<>>
               /\ UNCHANGED <<stack, data>>

End(t) == /\ \E p \in {"pushDone", "popDone", "popEmpty"} : Move(t, p, "idle")
          /\ data' = [data EXCEPT ![t] = NoValue]
          /\ UNCHANGED stack

Next == \E t \in Threads : \/ BeginPush(t) \/ Push(t)
                           \/ BeginPop(t) \/ Pop(t) \/ PopEmpty(t)
                           \/ \E u \in Threads : PushAndPop(t, u)
                           \/ End(t)

Spec == Init /\ [][Next]_vars

=============================================================================
