---------------------------- MODULE MCOrderedList ----------------------------
(***************************************************************************)
(* Instances of OrderedList for TLC.                                       *)
(***************************************************************************)
EXTENDS OrderedList, TLC

CONSTANT Survivors   \* the threads that are never stopped for good

\* Threads and addresses are interchangeable.
Symmetry == Permutations(Threads) \cup Permutations(Nodes)

\* A thread outside Survivors may stop anywhere, for ever; a survivor that
\* is inside a call goes on.  Nobody has to start a call.
SurvivorSpec == Spec /\ \A t \in Survivors : WF_vars(Step(t))

\* Lock-freedom: a thread that stops in the middle of a call holds nobody up.
NonBlocking == \A t \in Survivors : pc[t] # "idle" ~> pc[t] = "idle"

=============================================================================
