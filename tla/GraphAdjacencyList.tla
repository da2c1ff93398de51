-------------------------- MODULE GraphAdjacencyList --------------------------
(***************************************************************************)
(* GraphAdjacencyList (graphs/graph_adjacency_list.hpp): a map from every  *)
(* vertex to the vertices its edges lead to.                               *)
(***************************************************************************)
EXTENDS GraphRows

VARIABLE adj_list   \* adj_list_: a function from its keys to rows

Init == adj_list = <<>>

vertices == DOMAIN adj_list
size == Cardinality(vertices)

\* A vertex that is not in the graph has no neighbours.
neighbors(x) == IF x \in vertices THEN adj_list[x] ELSE <<>>

adjacent(x, y) == y \in Range(neighbors(x))

count_edges == SumFunction([x \in vertices |-> Len(adj_list[x])])

\* adj_list_[x] = row: makes the entry if there is none.
With(x, row) == [v \in vertices \cup {x} |-> IF v = x THEN row ELSE adj_list[v]]

\* std::erase of x.
Without(row, x) == Kept(row, {i \in DOMAIN row : row[i] # x})

\* The row of a vertex that is there already is emptied.
add_vertex(x) == adj_list' = With(x, <<>>)

\* Mutant: the edges that lead to x stay.
remove_vertex_only(x) == adj_list' = Restrict(adj_list, vertices \ {x})

remove_vertex(x) == adj_list' = [v \in vertices \ {x} |-> Without(adj_list[v], x)]

\* Both ends are made if need be.
add_edge(x, y) ==
  LET added == With(x, Append(neighbors(x), y))
  IN adj_list' = [v \in DOMAIN added \cup {y} |->
                    IF v \in DOMAIN added THEN added[v] ELSE <<>>]

\* All edges from x to y.  operator[] makes x if it is not there.
remove_edge(x, y) == adj_list' = With(x, Without(neighbors(x), y))

=============================================================================
