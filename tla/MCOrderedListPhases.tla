------------------------ MODULE MCOrderedListPhases ------------------------
(***************************************************************************)
(* Instances of OrderedListPhases for TLC.                                 *)
(***************************************************************************)
EXTENDS OrderedListPhases, TLC

\* Threads and addresses are interchangeable.
Symmetry == Permutations(Threads) \cup Permutations(Nodes)

=============================================================================
