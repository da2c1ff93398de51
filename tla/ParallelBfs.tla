----------------------------- MODULE ParallelBfs -----------------------------
(***************************************************************************)
(* GraphCSR::bfs_threads, bfs_threads_v2 and bfs_threads_v3                *)
(* (graphs/graph_compressed_sparse_row.hpp): threads look at the entries   *)
(* of the rows of the vertices to visit, meet at a barrier, and the        *)
(* completion function of the barrier makes the next list.                 *)
(*                                                                         *)
(* A vertex is its position in the CSR arrays, and the start is one of     *)
(* them.  The bits of visited are a set: they are read and written one at  *)
(* a time.  The last arrival at the barrier runs the completion function   *)
(* while everybody else waits: one step.                                   *)
(***************************************************************************)
EXTENDS Integers, SequencesExt, FiniteSetsExt

CONSTANTS num_threads,  \* the constant of the same name, 4 in the code
          Vertices,     \* positions in values_
          start         \* pos, the position of the start

ASSUME ThreadsAssumption == num_threads \in Nat \ {0}
ASSUME StartAssumption == start \in Vertices
ASSUME VerticesAssumption == IsFiniteSet(Vertices)

Threads == 0 .. num_threads - 1

VARIABLES
  version,      \* which of the three functions has been called
  row,          \* the rows of column_indices_
  visited,      \* visited
  to_visit,     \* to_visit
  next_visit,   \* next_visit[t]
  pc,           \* the next step of each thread; "exit" also if there is none
  i, j,         \* the indices of the two loops of each thread
  my_end,       \* my_end; in v3 the size of to_visit
  observed      \* history: the calls of the observer

vars == <<version, row, visited, to_visit, next_visit, pc, i, j, my_end, observed>>
loop == <<i, j, my_end>>

NoLoop == [t \in Threads |-> 0]
NoVisits == [t \in Threads |-> <<>>]
AllThreads(at) == [t \in Threads |-> at]
NoRows == [v \in Vertices |-> <<>>]

\* No search has been made.
Init == /\ version = 1
        /\ row = NoRows
        /\ visited = {} /\ to_visit = <<>> /\ observed = <<>>
        /\ next_visit = NoVisits
        /\ pc = AllThreads("exit")
        /\ i = NoLoop /\ j = NoLoop /\ my_end = NoLoop

\* The destructors of the threads have joined them.
Joined == \A t \in Threads : pc[t] = "exit"

\* Version v is called for a graph with the rows g, and makes its threads.
Call(v, g) == /\ Joined
              /\ version' = v
              /\ row' = g
              /\ visited' = {start} /\ to_visit' = <<start>> /\ observed' = <<start>>
              /\ next_visit' = NoVisits
              /\ pc' = AllThreads("test")
              /\ i' = NoLoop /\ j' = NoLoop /\ my_end' = NoLoop

\* The program ends, or is killed, and a new process has made no search.
Forget == /\ version' = 1
          /\ row' = NoRows
          /\ visited' = {} /\ to_visit' = <<>> /\ observed' = <<>>
          /\ next_visit' = NoVisits
          /\ pc' = AllThreads("exit")
          /\ i' = NoLoop /\ j' = NoLoop /\ my_end' = NoLoop

----------------------------------------------------------------------------
(* The share of a thread *)

thread_share == Len(to_visit) \div num_threads

\* Mutant: what is left over by the division is left out.
ContiguousEndEven(t) == (t + 1) * thread_share

\* bfs_threads and v2: the list is cut into pieces, the last one takes what is
\* left over.
ContiguousEnd(t) ==
  IF t = num_threads - 1 THEN Len(to_visit) ELSE (t + 1) * thread_share

\* v3: every thread takes the vertices of its residue.
Stride(t) == IF version = 3 THEN num_threads ELSE 1
FirstIndex(t) == IF version = 3 THEN t ELSE t * thread_share
EndIndex(t) == IF version = 3 THEN Len(to_visit) ELSE ContiguousEnd(t)

----------------------------------------------------------------------------
\* The head of the loop of a thread.
Test(t) ==
  /\ pc[t] = "test"
  /\ IF to_visit = <<>>
     THEN /\ pc' = [pc EXCEPT ![t] = "exit"]
          /\ UNCHANGED loop
     ELSE /\ pc' = [pc EXCEPT ![t] = "scan"]
          /\ i' = [i EXCEPT ![t] = FirstIndex(t)]
          /\ j' = [j EXCEPT ![t] = 0]
          /\ my_end' = [my_end EXCEPT ![t] = EndIndex(t)]
  /\ UNCHANGED <<version, row, visited, to_visit, next_visit, observed>>

Scanning(t) == pc[t] = "scan" /\ i[t] < my_end[t]

\* The row of the vertex t is at.
CurrentRow(t) == row[to_visit[i[t] + 1]]

\* fetch_or in bfs_threads; v2 and v3 leave the bits to the barrier.
Mark(n) == visited' = IF version = 1 THEN visited \cup {n} ELSE visited

\* One entry of the row: a vertex that is not marked goes into the list of t.
Look(t) ==
  /\ Scanning(t)
  /\ j[t] < Len(CurrentRow(t))
  /\ LET n == CurrentRow(t)[j[t] + 1]
     IN /\ next_visit' = IF n \in visited THEN next_visit
                         ELSE [next_visit EXCEPT ![t] = Append(@, n)]
        /\ Mark(n)
  /\ j' = [j EXCEPT ![t] = @ + 1]
  /\ UNCHANGED <<version, row, to_visit, pc, i, my_end, observed>>

EndOfRow(t) == /\ Scanning(t)
               /\ j[t] = Len(CurrentRow(t))
               /\ i' = [i EXCEPT ![t] = @ + Stride(t)]
               /\ j' = [j EXCEPT ![t] = 0]
               /\ UNCHANGED <<version, row, visited, to_visit, next_visit, pc,
                              my_end, observed>>

----------------------------------------------------------------------------
(* The barrier *)

\* The lists of all threads, one after the other.
Merged == FoldLeft(LAMBDA s, t : s \o next_visit[t], <<>>,
                   [k \in 1 .. num_threads |-> k - 1])

\* Mutant: v2 and v3 do not look at the bits again when they merge.
FreshAll == Merged

\* sync_func: in v2 and v3 several threads may have found the same vertex, or
\* one thread twice; only the first one counts.
Fresh == IF version = 1 THEN Merged
         ELSE FoldLeft(LAMBDA s, n : IF n \in visited \cup Range(s) THEN s
                                     ELSE Append(s, n), <<>>, Merged)

\* Mutant: the barrier is made for one thread less.
LastToArriveEarly(t) ==
  Cardinality({u \in Threads \ {t} : pc[u] = "wait"}) >= num_threads - 2

\* Everybody else is at the barrier.
LastToArrive(t) == \A u \in Threads \ {t} : pc[u] = "wait"

\* barrier.arrive_and_wait()
Arrive(t) == /\ pc[t] = "scan" /\ ~Scanning(t)
             /\ ~LastToArrive(t)
             /\ pc' = [pc EXCEPT ![t] = "wait"]
             /\ UNCHANGED <<version, row, visited, to_visit, next_visit, loop,
                            observed>>

\* The last one runs sync_func, and then everybody goes on.
ArriveLast(t) == /\ pc[t] = "scan" /\ ~Scanning(t)
                 /\ LastToArrive(t)
                 /\ to_visit' = Fresh
                 /\ visited' = visited \cup Range(Fresh)
                 /\ observed' = observed \o Fresh
                 /\ next_visit' = NoVisits
                 /\ pc' = [u \in Threads |-> IF u = t \/ pc[u] = "wait" THEN "test"
                                             ELSE pc[u]]
                 /\ UNCHANGED <<version, row, loop>>

----------------------------------------------------------------------------
Step(t) == Test(t) \/ Look(t) \/ EndOfRow(t) \/ Arrive(t) \/ ArriveLast(t)

Next == \/ \E v \in 1 .. 3, g \in [Vertices -> Seq(Vertices)] : Call(v, g)
        \/ Forget
        \/ \E t \in Threads : Step(t)

Spec == Init /\ [][Next]_vars

----------------------------------------------------------------------------
(* Properties *)

\* The list is not replaced under a thread that is still reading it: the share
\* of a thread that scans or waits is its share of the list as it is, and
\* nobody goes to the next round or leaves while somebody is in this one.
SharesAreCurrent ==
  \A t \in Threads : pc[t] \in {"scan", "wait"} =>
    /\ my_end[t] = EndIndex(t)
    /\ \A u \in Threads : pc[u] # "exit"

Search == INSTANCE BreadthFirst

\* Whatever the threads find first, the observer sees a breadth-first search:
\* no vertex twice, none before a nearer one.
ImplementsBreadthFirst == Search!Spec

=============================================================================
