------------------------- MODULE MCEliminationStack -------------------------
(***************************************************************************)
(* Instances of EliminationStack for TLC.                                  *)
(***************************************************************************)
EXTENDS EliminationStack

CONSTANT Survivors   \* the threads that are never stopped for good

\* The code never looks at a value but to tell it from the token of a pop, so
\* it is enough that different nodes carry different values: each address has
\* a value of its own.
ValueOf == CHOOSE f \in [Nodes -> Values] :
             \A m, n \in Nodes : f[m] = f[n] => m = n

OwnValues == \A n \in heap' \ heap : value'[n] = ValueOf[n]

\* A thread outside Survivors may stop anywhere, for ever; a survivor that
\* is inside a call goes on.  Nobody has to start a call.
SurvivorSpec == /\ Init /\ [][Next /\ OwnValues]_vars
                /\ \A t \in Survivors : WF_vars(Step(t))

\* Lock-freedom: a thread that stops in the middle of a call, even after an
\* exchange it does not know of yet, holds nobody up.
NonBlocking == \A t \in Survivors : pc[t] # "idle" ~> pc[t] = "idle"

=============================================================================
