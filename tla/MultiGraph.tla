------------------------------ MODULE MultiGraph ------------------------------
(***************************************************************************)
(* The promise of the interface that the three graph containers share, for *)
(* the calls that mean the same to all of them: a set of vertices and, for *)
(* every two of them, the number of edges from the first to the second.    *)
(***************************************************************************)
EXTENDS Naturals

CONSTANTS T,          \* the values a vertex can have
          RemovesAll  \* remove_edge removes all edges from x to y, not one

VARIABLES vertices,   \* the vertices
          edges       \* edges[x, y]: how many edges lead from x to y

vars == <<vertices, edges>>

Init == /\ vertices = {}
        /\ edges = [p \in T \X T |-> 0]

AddVertex(x) == /\ x \notin vertices
                /\ vertices' = vertices \cup {x}
                /\ UNCHANGED edges

\* With the vertex go the edges at it, and no others.
RemoveVertex(x) == /\ x \in vertices
                   /\ vertices' = vertices \ {x}
                   /\ \A p \in T \X T :
                        edges'[p] = IF x \in {p[1], p[2]} THEN 0 ELSE edges[p]

\* The edges from x to y become n, everything else stays.
SetEdge(x, y, n) == /\ UNCHANGED vertices
                    /\ edges'[x, y] = n
                    /\ \A p \in T \X T : p # <<x, y>> => edges'[p] = edges[p]

AddEdge(x, y) == /\ {x, y} \subseteq vertices
                 /\ SetEdge(x, y, edges[x, y] + 1)

RemoveEdge(x, y) == /\ edges[x, y] > 0
                    /\ SetEdge(x, y, IF RemovesAll THEN 0 ELSE edges[x, y] - 1)

Next == \/ \E x \in T : AddVertex(x) \/ RemoveVertex(x)
        \/ \E x, y \in T : AddEdge(x, y) \/ RemoveEdge(x, y)

Spec == Init /\ [][Next]_vars

=============================================================================
