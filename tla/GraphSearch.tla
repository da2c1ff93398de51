----------------------------- MODULE GraphSearch -----------------------------
(***************************************************************************)
(* The searches by one thread: dfs and bfs (graphs/garph_algo.hpp).  The   *)
(* graph does not change during a call, so that a call is a function of    *)
(* what neighbors returns.                                                 *)
(***************************************************************************)
EXTENDS Naturals, Sequences, FiniteSets

\* The variables of a search and, as observed, the calls of the observer.
Begin(start) == [visited |-> {start}, to_visit |-> <<start>>, observed |-> <<>>]

\* Mutant: a vertex is marked when it is observed.
DiscoverLate(s, row) ==
  [visited |-> s.visited \cup {s.observed[Len(s.observed)]},
   to_visit |-> s.to_visit \o SelectSeq(row, LAMBDA n : n \notin s.visited),
   observed |-> s.observed]

\* The loop over a row: what is not marked is marked and pushed.
Discover(s, row) ==
  LET after[n \in 0 .. Len(row)] ==
        IF n = 0 THEN s
        ELSE LET r == after[n - 1]
             IN IF row[n] \in r.visited THEN r
                ELSE [r EXCEPT !.visited = @ \cup {row[n]},
                               !.to_visit = Append(@, row[n])]
  IN after[Len(row)]

\* One round of the outer loop with a queue.
FromQueue(s, row) ==
  LET current == Head(s.to_visit)
  IN Discover([s EXCEPT !.to_visit = Tail(@), !.observed = Append(@, current)],
              row[current])

\* One round with a stack.
FromStack(s, row) ==
  LET last == Len(s.to_visit)
      current == s.to_visit[last]
  IN Discover([s EXCEPT !.to_visit = SubSeq(@, 1, last - 1),
                        !.observed = Append(@, current)], row[current])

\* The outer loop.  Every round has to observe another vertex: no more of them
\* are counted than there are vertices.
Rounds(Round(_, _), row, start) ==
  LET after[n \in 0 .. Cardinality(DOMAIN row)] ==
        IF n = 0 THEN Begin(start)
        ELSE LET s == after[n - 1] IN IF s.to_visit = <<>> THEN s ELSE Round(s, row)
  IN after[Cardinality(DOMAIN row)]

\* row[v] is what neighbors(v) returns.
bfs(row, start) == Rounds(FromQueue, row, start)
dfs(row, start) == Rounds(FromStack, row, start)

=============================================================================
