----------------------------- MODULE GraphEdgeList -----------------------------
(***************************************************************************)
(* GraphEdgeList (graphs/graph_edge_list.hpp): a list of pairs.  A vertex  *)
(* is in the graph as long as some pair names it; add_vertex makes a pair  *)
(* whose second half is no vertex.                                         *)
(***************************************************************************)
EXTENDS GraphRows

CONSTANT max   \* std::numeric_limits<T>::max(), which no vertex may be

VARIABLE edges   \* edges_

Init == edges = <<>>

vertices == UNION {{e[1]} \cup ({e[2]} \ {max}) : e \in Range(edges)}
size == Cardinality(vertices)

adjacent(x, y) == <<x, y>> \in Range(edges)

neighbors(x) ==
  LET out == Kept(edges, {i \in DOMAIN edges : edges[i][1] = x /\ edges[i][2] # max})
  IN [i \in DOMAIN out |-> out[i][2]]

add_edge(x, y) == edges' = Append(edges, <<x, y>>)

add_vertex(x) == add_edge(x, max)

\* Mutant: only the pairs that begin with x are erased.
remove_vertex_out(x) == edges' = Kept(edges, {i \in DOMAIN edges : edges[i][1] # x})

remove_vertex(x) == edges' = Kept(edges, {i \in DOMAIN edges : x \notin {edges[i][1], edges[i][2]}})

\* All edges from x to y.
remove_edge(x, y) == edges' = Kept(edges, {i \in DOMAIN edges : edges[i] # <<x, y>>})

=============================================================================
