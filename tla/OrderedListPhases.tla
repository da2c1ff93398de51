-------------------------- MODULE OrderedListPhases --------------------------
(***************************************************************************)
(* OrderedList used in two phases: threads add values, all of them return, *)
(* and then threads remove values; contains is called all along.           *)
(***************************************************************************)
EXTENDS OrderedList

VARIABLE phase        \* "fill", then "drain"

Allowed == IF phase = "fill" THEN {"add", "contains"} ELSE {"remove", "contains"}

PhasesInit == Init /\ phase = "fill"

StartDrain == /\ phase = "fill"
              /\ \A t \in Threads : op[t] # "add"
              /\ phase' = "drain"
              /\ UNCHANGED vars

PhasesNext == \/ StartDrain
              \/ /\ \E t \in Threads :
                      \/ \E o \in Allowed, v \in Values : Call(t, o, v)
                      \/ Step(t)
                 /\ UNCHANGED phase

PhasesSpec == PhasesInit /\ [][PhasesNext]_<<vars, phase>>

\* As long as no add overlaps or follows a remove, the list is linearizable:
\* it implements the set.
ImplementsSet == Set!Spec

=============================================================================
