--------------------------- MODULE MCBenchmarkGraph ---------------------------
(***************************************************************************)
(* Instances of BenchmarkGraph for TLC.                                    *)
(***************************************************************************)
EXTENDS BenchmarkGraph

\* Graphs of five vertices in layers: the start leads to some of 1, 2 and 3,
\* those to 4, which several of them may find in the same round, and back to 1,
\* and 4 back to the start and by two edges to 2.  There are loops too.
LayeredGraphs ==
  {[v \in Vertices |-> IF v = 0 THEN first ELSE IF v = 4 THEN <<2, 0, 2>> ELSE next[v]] :
     first \in {<<3, 1, 2>>, <<3, 2>>, <<0, 1>>},
     next \in {n \in [1 .. 3 -> {<<>>, <<4>>, <<4, 1>>}] : n[2] = <<4>> \/ n[3] = n[2]}}

=============================================================================
