--------------------------- MODULE GraphContainers ---------------------------
(***************************************************************************)
(* The three graph containers side by side, as the tests use them: the     *)
(* same calls in the same order on a GraphAdjacencyList, a GraphEdgeList   *)
(* and a GraphCSR, and the searches over each of them.                     *)
(***************************************************************************)
EXTENDS GraphArrays

CONSTANTS T,          \* the values a vertex can have
          max,        \* the largest value of their type, which is none of them
          MaxEdges,   \* bound on the edges of the graph
          MaxCopies,  \* bound on the edges from one vertex to another
          AlwaysInPlace  \* call remove_vertex of GraphCSR for any vertex

ASSUME TAssumption == T \subseteq Int /\ max \in Int \ T
ASSUME BoundsAssumption == MaxEdges \in Nat /\ MaxCopies \in Nat /\ AlwaysInPlace \in BOOLEAN

VARIABLES adj_list, edges

containers == <<adj_list, edges, csr>>

Adj == INSTANCE GraphAdjacencyList
EdgeList == INSTANCE GraphEdgeList
Algo == INSTANCE GraphSearch

ContainersInit == Adj!Init /\ EdgeList!Init /\ CSR!Init

----------------------------------------------------------------------------
(* Calls that mean the same to all three: the lists make the ends of a new *)
(* edge and GraphCSR does not, and a second add_vertex empties a row in the *)
(* one and makes a second entry in the other.                              *)

add_vertex(x) == /\ x \notin Adj!vertices
                 /\ Adj!add_vertex(x) /\ EdgeList!add_vertex(x) /\ CSR!add_vertex(x)

\* No row but the one of x leads to x or to a vertex behind x.
NothingBehind(x) == \A p \in CSR!Positions \ {CSR!value_index(x)} :
                      \A q \in Range(CSR!Row(p)) : q < CSR!value_index(x)

\* Where entries of other rows would have to move, a new GraphCSR is made.
remove_vertex(x) ==
  /\ Adj!remove_vertex(x)
  /\ EdgeList!remove_vertex(x)
  /\ IF AlwaysInPlace \/ NothingBehind(x) THEN CSR!remove_vertex(x)
     ELSE CSR!Construct(adj_list')

add_edge(x, y) ==
  /\ {x, y} \subseteq Adj!vertices
  /\ Len(column_indices) < MaxEdges
  /\ Copies(Adj!neighbors(x), y) < MaxCopies
  /\ Adj!add_edge(x, y) /\ EdgeList!add_edge(x, y) /\ CSR!add_edge(x, y)

remove_edge(x, y) ==
  /\ x \in Adj!vertices
  /\ Adj!remove_edge(x, y) /\ EdgeList!remove_edge(x, y) /\ CSR!remove_edge(x, y)

ContainersNext == \/ \E x \in T : add_vertex(x) \/ remove_vertex(x)
                  \/ \E x, y \in T : add_edge(x, y) \/ remove_edge(x, y)

ContainersSpec == ContainersInit /\ [][ContainersNext]_containers

----------------------------------------------------------------------------
(* Properties *)

\* How many times y is among the neighbors of x.
Edges(neighbors(_)) ==
  LET row == [x \in T |-> neighbors(x)]
  IN [p \in T \X T |-> Copies(row[p[1]], p[2])]

AdjGraph == INSTANCE MultiGraph WITH
  RemovesAll <- TRUE, vertices <- Adj!vertices, edges <- Edges(Adj!neighbors)
EdgeListGraph == INSTANCE MultiGraph WITH
  RemovesAll <- TRUE, vertices <- EdgeList!vertices, edges <- Edges(EdgeList!neighbors)
CSRGraph == INSTANCE MultiGraph WITH
  RemovesAll <- FALSE, vertices <- CSR!vertices, edges <- Edges(CSR!neighbors)

\* What the queries of each container tell of its graph changes as that of a
\* multigraph: a call moves, loses and makes no other vertex or edge.  A new
\* GraphCSR has the graph of the adjacency list it is made from.
AdjImplements == AdjGraph!Spec
EdgeListImplements == EdgeListGraph!Spec

SameGraph == CSRGraph!vars = AdjGraph!vars
CSRImplements == CSRGraph!Init /\ [][CSRGraph!Next \/ SameGraph']_(CSRGraph!vars)

\* The arrays keep their shape, whatever is inserted and erased in the middle.
Shape == CSR!Shape

\* adjacent of GraphCSR is true if and only if there is an edge, here told by
\* the adjacency list, which has seen the same calls.
AdjacentMeansEdge == \A x, y \in T : CSR!adjacent(x, y) <=> Adj!adjacent(x, y)

\* The vertices at most k edges away from x.
Ball(row, x) ==
  LET ball[k \in 0 .. Cardinality(T)] ==
        IF k = 0 THEN {x} ELSE ball[k - 1] \cup UNION {Range(row[v]) : v \in ball[k - 1]}
  IN ball

\* A search has come to its end and met every vertex that can be reached once.
Traverses(s, ball) == /\ s.to_visit = <<>>
                      /\ IsInjective(s.observed)
                      /\ Range(s.observed) = ball[Cardinality(T)]

\* It has met the nearer ones first.
NearestFirst(s, ball) ==
  \A n \in DOMAIN s.observed, k \in DOMAIN ball :
    s.observed[n] \notin ball[k] => ball[k] \subseteq Range(SubSeq(s.observed, 1, n - 1))

\* dfs and bfs over each container, and the bfs of GraphCSR: from every vertex
\* they meet once what can be reached from it, bfs the nearer ones first.
SearchesComplete ==
  LET rows == [adj |-> [v \in T |-> Adj!neighbors(v)],
               list |-> [v \in T |-> EdgeList!neighbors(v)],
               csr |-> [v \in T |-> CSR!neighbors(v)]]
  IN \A x \in Adj!vertices, g \in DOMAIN rows :
       LET ball == Ball(rows[g], x)
           breadth_first == {Algo!bfs(rows[g], x)} \cup IF g = "csr" THEN {CSR!bfs(x)} ELSE {}
       IN /\ \A s \in breadth_first \cup {Algo!dfs(rows[g], x)} : Traverses(s, ball)
          /\ \A s \in breadth_first : NearestFirst(s, ball)

=============================================================================
