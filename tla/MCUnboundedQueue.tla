-------------------------- MODULE MCUnboundedQueue --------------------------
(***************************************************************************)
(* Instances of UnboundedQueue for TLC.                                    *)
(***************************************************************************)
EXTENDS UnboundedQueue, FiniteSets

CONSTANT Survivors   \* the threads that are never stopped for good

\* Nodes is 1 .. N.  An address tells nothing, since none is used twice, and
\* the queue never looks at a value: so addresses are handed out in ascending
\* order, and every enqueue has a value of its own, the address of its node.
NumberedInit == Init /\ head = 1

NumberedEnq(t) ==
  /\ EnqBegin(t)
  /\ heap' = heap \cup {Cardinality(heap) + 1}
  /\ new_node'[t] = value'[new_node'[t]]

NumberedNext == \E t \in Threads : NumberedEnq(t) \/ DeqBegin(t) \/ Step(t)

\* A thread outside Survivors may stop anywhere, for ever; a survivor that
\* is inside a call goes on.  Nobody has to start a call.
SurvivorSpec == /\ NumberedInit
                /\ [][NumberedNext]_vars
                /\ \A t \in Survivors : WF_vars(Step(t))

\* Lock-freedom.  A thread that stops in the middle of a call holds nobody
\* up: every call of a surviving thread returns.  (The finite set Nodes
\* bounds the number of enqueues that can get in its way.)
NonBlocking == \A t \in Survivors : pc[t] # "idle" ~> pc[t] = "idle"

=============================================================================
