------------------------- MODULE MCLockFreeExchanger -------------------------
(***************************************************************************)
(* Instances of LockFreeExchanger for TLC.                                 *)
(***************************************************************************)
EXTENDS LockFreeExchanger

CONSTANT Survivors   \* the threads that are never stopped for good

\* A thread outside Survivors may stop anywhere, for ever; a survivor that is
\* inside a call goes on, and its clock too.
SurvivorSpec == Spec /\ \A t \in Survivors : /\ WF_vars(Step(t))
                                             /\ WF_vars(Tick(t))

\* No call lasts for ever: a thread that stops anywhere in the exchange, its
\* slot taken or not, keeps nobody else from coming back.
VisitReturns == \A t \in Survivors : xpc[t] # "idle" ~> xpc[t] = "idle"

=============================================================================
