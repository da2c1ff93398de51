------------------------------ MODULE SetObject ------------------------------
(***************************************************************************)
(* The promise of a concurrent set: every call of add, remove and contains *)
(* takes effect at one instant between its invocation and its return, and  *)
(* returns what the set says at that instant.                              *)
(***************************************************************************)
CONSTANTS Threads,   \* the callers
          Values,    \* the values that can be in the set
          NoValue    \* what arg[t] holds when t is not in a call

VARIABLES set,       \* the values in the set
          phase,     \* "idle", "called" or "done", for each thread
          op,        \* the function each thread has called
          arg,       \* and its argument
          result     \* what the call of each thread returns, once it is done

vars == <<set, phase, op, arg, result>>

Init == /\ set = {}
        /\ phase = [t \in Threads |-> "idle"]
        /\ op = [t \in Threads |-> "contains"]
        /\ arg = [t \in Threads |-> NoValue]
        /\ result = [t \in Threads |-> FALSE]

Call(t) == /\ phase[t] = "idle"
           /\ phase' = [phase EXCEPT ![t] = "called"]
           /\ \E o \in {"add", "remove", "contains"}, v \in Values :
                /\ op' = [op EXCEPT ![t] = o]
                /\ arg' = [arg EXCEPT ![t] = v]
           /\ UNCHANGED <<set, result>>

\* add returns whether the value was absent, the other two whether it was
\* present.
TakeEffect(t) ==
  /\ phase[t] = "called"
  /\ phase' = [phase EXCEPT ![t] = "done"]
  /\ set' = CASE op[t] = "add"      -> set \cup {arg[t]}
              [] op[t] = "remove"   -> set \ {arg[t]}
              [] op[t] = "contains" -> set
  /\ result' = [result EXCEPT ![t] = (op[t] = "add") # (arg[t] \in set)]
  /\ UNCHANGED <<op, arg>>

Return(t) == /\ phase[t] = "done"
             /\ phase' = [phase EXCEPT ![t] = "idle"]
             /\ op' = [op EXCEPT ![t] = "contains"]
             /\ arg' = [arg EXCEPT ![t] = NoValue]
             /\ result' = [result EXCEPT ![t] = FALSE]
             /\ UNCHANGED set

Next == \E t \in Threads : Call(t) \/ TakeEffect(t) \/ Return(t)

Spec == Init /\ [][Next]_vars

=============================================================================
