----------------------------- MODULE BreadthFirst -----------------------------
(***************************************************************************)
(* The promise of a breadth-first search: the observer is called once for  *)
(* each vertex that can be reached, the nearer ones first.  An             *)
(* implementation may observe any number of vertices in one step.          *)
(***************************************************************************)
EXTENDS Naturals, SequencesExt

CONSTANTS Vertices,   \* the vertices of the graph
          start       \* where the search starts

VARIABLES row,        \* row[v]: the vertices that edges of v lead to
          observed    \* the vertices observed, in order

vars == <<row, observed>>

\* Ball[k]: the vertices at most k edges away from start.
Ball == LET ball[k \in 0 .. Cardinality(Vertices)] ==
              IF k = 0 THEN {start}
              ELSE ball[k - 1] \cup UNION {Range(row[v]) : v \in ball[k - 1]}
        IN ball

Reachable == Ball[Cardinality(Vertices)]

\* Nobody is observed twice, nobody who cannot be reached, and nobody who is
\* more than k edges away before all those who are not.
InOrder(s) == /\ IsInjective(s)
              /\ Range(s) \subseteq Reachable
              /\ LET ball == Ball
                 IN \A n \in DOMAIN s, k \in DOMAIN ball :
                      s[n] \notin ball[k] => ball[k] \subseteq Range(SubSeq(s, 1, n - 1))

\* The search is over.
Complete == Range(observed) = Reachable

Init == observed = <<>>

\* A search of some graph begins.
Begin == /\ observed = <<>> \/ Complete
         /\ observed' = <<start>>

Observe == /\ observed # <<>>
           /\ IsStrictPrefix(observed, observed')
           /\ InOrder(observed')
           /\ UNCHANGED row

\* The program ends.
End == observed' = <<>>

Spec == Init /\ [][Begin \/ Observe \/ End]_vars

=============================================================================
