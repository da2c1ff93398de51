---------------------------- MODULE BenchmarkGraph ----------------------------
(***************************************************************************)
(* main (graphs/benchmark_graph.cpp): load the graph from a file, or build *)
(* it and save it for the next time; then search it.  The program may be   *)
(* run again and again, and killed before it searches, also while it is    *)
(* writing the file.                                                       *)
(*                                                                         *)
(* The vertices are 0, 1, ... , which are their own positions.             *)
(***************************************************************************)
EXTENDS ParallelBfs, GraphArrays

CONSTANTS Graphs,     \* what add_random_edges may build: adjacency lists
          Versions,   \* the versions of the threaded search that are called
          Cuts,       \* the places where the writing of the file may end early
          Garbage,    \* what an uninitialised size may be
          NoFile

ASSUME GraphsAssumption ==
  /\ Vertices = 0 .. Cardinality(Vertices) - 1
  /\ Versions \subseteq 1 .. 3
  /\ Graphs \subseteq [Vertices -> Seq(Vertices)]
  /\ Garbage \subseteq Nat /\ Cuts \subseteq Nat

VARIABLES main,   \* what main is about to do
          graph,  \* the graph add_random_edges builds, the same every time
          file,   \* the words of graph_csr.bin
          loaded_cut  \* history: this run has loaded a file that was cut

allVars == <<main, graph, file, loaded_cut, csr, vars>>

Goto(from, to) == main = from /\ main' = to

BenchmarkInit == /\ main = "load"
                 /\ graph \in Graphs
                 /\ file = NoFile
                 /\ loaded_cut = FALSE
                 /\ CSR!Init
                 /\ Init

\* Every row of a vertex lies within column_indices_ and holds positions, and
\* start is found: nothing is read out of bounds.
WellFormed == /\ CSR!Has(start) /\ CSR!Positions = Vertices
              /\ Len(row_ptrs) = CSR!size + 1
              /\ \A p \in Vertices : /\ CSR!RowBegin(p) <= CSR!RowEnd(p)
                                     /\ CSR!RowEnd(p) <= Len(column_indices)
              /\ CSR!EntriesInRange

\* The file is there in full, or not at all.
Intact == file \in {NoFile, CSR!Words(CSR!FromAdjacencyList(graph))}

Load == /\ main = "load"
        /\ IF file = NoFile
           THEN main' = "build" /\ UNCHANGED csr
           ELSE /\ \E garbage \in Garbage : CSR!load_from_file(file, garbage)
                /\ main' = IF WellFormed' THEN "search" ELSE "undefined"
        /\ loaded_cut' = ~Intact
        /\ UNCHANGED <<graph, file, vars>>

Build == /\ Goto("build", "save")
         /\ CSR!Construct(graph)
         /\ UNCHANGED <<graph, file, loaded_cut, vars>>

\* The arrays as save_to_file would write them.
InMemory == CSR!Words([row_ptrs |-> row_ptrs, values |-> values,
                       column_indices |-> column_indices])

\* The file is opened for writing, which empties it, or cannot be opened.  An
\* error while it is written is not noticed.
Written == {InMemory} \cup {SubSeq(InMemory, 1, n) : n \in {n \in Cuts : n < Len(InMemory)}}

Save == /\ Goto("save", "search")
        /\ file' \in {file} \cup Written
        /\ UNCHANGED <<graph, loaded_cut, csr, vars>>

CallSearch == /\ Goto("search", "join")
              /\ \E v \in Versions : Call(v, [p \in Vertices |-> CSR!Row(p)])
              /\ UNCHANGED <<graph, file, loaded_cut, csr>>

SearchStep(t) == Step(t) /\ UNCHANGED <<main, graph, file, loaded_cut, csr>>

Join == /\ Goto("join", "done")
        /\ Joined
        /\ UNCHANGED <<graph, file, loaded_cut, csr, vars>>

\* The program has ended, or is killed, and is run again with the file as it is.
Run == /\ main # "join"
       /\ main' = "load"
       /\ file' \in IF main = "save" THEN {file} \cup Written ELSE {file}
       /\ loaded_cut' = FALSE
       /\ row_ptrs' = <<0>> /\ column_indices' = <<>> /\ values' = <<>>
       /\ Forget
       /\ UNCHANGED graph

BenchmarkNext == \/ Load \/ Build \/ Save \/ CallSearch \/ Join \/ Run
                 \/ \E t \in Threads : SearchStep(t)

\* A thread that can run does, and main goes on when they have ended.
BenchmarkSpec == /\ BenchmarkInit /\ [][BenchmarkNext]_allVars
                 /\ WF_allVars(Join)
                 /\ \A t \in Threads : WF_allVars(SearchStep(t))

----------------------------------------------------------------------------
(* Properties *)

\* The graph in the arrays is the one that add_random_edges builds.
IsBuiltGraph ==
  /\ CSR!vertices = DOMAIN graph
  /\ \A v, y \in Vertices : Copies(CSR!neighbors(v), y) = Copies(graph[v], y)

\* It is what is searched, and searching it is defined, in every run that builds
\* the graph itself, also if it then fails to save it, and in every run that loads
\* what an earlier run has written in full.
BuiltUnlessCut ==
  ~loaded_cut => /\ main # "undefined"
                 /\ main \in {"search", "join", "done"} => IsBuiltGraph

\* Wherever the file ends, and whether this run has written it or read it, every
\* word that is in the file is at its place in the arrays.
KeepsTheFile ==
  main \in {"search", "join", "done", "undefined"} /\ file # NoFile =>
    CSR!IsPrefix(file, InMemory)

\* What is searched is the graph that was built, unless the run has loaded a file
\* that was cut, of which load_from_file does not tell: then it is the graph as far
\* as it was written, and only what is missing is made up.
SearchesTheBuiltGraph == BuiltUnlessCut /\ KeepsTheFile

\* Every search comes to its end, and every vertex that can be reached has been
\* observed then.
SearchEnds == main = "join" ~> main = "done" /\ Search!Complete

=============================================================================
