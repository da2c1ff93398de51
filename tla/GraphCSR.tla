------------------------------- MODULE GraphCSR -------------------------------
(***************************************************************************)
(* GraphCSR (graphs/graph_compressed_sparse_row.hpp): the vertices in an   *)
(* array, the rows of all of them one after the other in a second one, and *)
(* where each row begins in a third.  An edge is kept as the position of   *)
(* the vertex it leads to.                                                 *)
(*                                                                         *)
(* Positions count from 0, as in the code; position p is index p + 1 of a  *)
(* sequence.  The arrays are far from the limits of their type S.          *)
(***************************************************************************)
EXTENDS GraphRows, SequencesExt

VARIABLES row_ptrs,         \* row_ptrs_
          column_indices,   \* column_indices_
          values            \* values_

csr == <<row_ptrs, column_indices, values>>

Init == /\ row_ptrs = <<0>>
        /\ column_indices = <<>>
        /\ values = <<>>

size == Len(values)
Positions == 0 .. size - 1

\* The first position that holds x, or size().
value_index(x) == IF \E p \in Positions : values[p + 1] = x
                  THEN CHOOSE p \in Positions :
                         values[p + 1] = x /\ \A q \in 0 .. p - 1 : values[q + 1] # x
                  ELSE size

Has(x) == value_index(x) # size

\* row_begin_end: the row of position p is what lies between the two.
RowBegin(p) == row_ptrs[p + 1]
RowEnd(p) == row_ptrs[p + 2]
Row(p) == SubSeq(column_indices, RowBegin(p) + 1, RowEnd(p))

\* std::lower_bound in the row of p, as an offset from RowBegin(p): rows are
\* sorted, so the entries below y are the first ones.
lower_bound(p, y) == Cardinality({i \in DOMAIN Row(p) : Row(p)[i] < y})

----------------------------------------------------------------------------
(* Queries *)

vertices == Range(values)

adjacent(x, y) == Has(x) /\ Has(y) /\ Contains(Row(value_index(x)), value_index(y))

neighbors(x) == LET p == value_index(x)
                    row == IF p = size THEN <<>> ELSE Row(p)
                IN [i \in DOMAIN row |-> values[row[i] + 1]]

Search == INSTANCE GraphSearch

\* bfs and bfs_bitmask, which differ in the container of the marks only: a
\* search over positions.  The start is in the graph.
bfs(start) ==
  LET s == Search!bfs([p \in Positions |-> Row(p)], value_index(start))
  IN [s EXCEPT !.observed = [n \in DOMAIN @ |-> values[@[n] + 1]]]

----------------------------------------------------------------------------
(* Updates *)

\* A second entry for a vertex that is there already is not prevented.
add_vertex(x) == /\ values' = Append(values, x)
                 /\ row_ptrs' = Append(row_ptrs, Last(row_ptrs))
                 /\ UNCHANGED column_indices

\* The beginnings of all rows behind the row of p move by d.
Shifted(p, d) == [i \in DOMAIN row_ptrs |-> IF i > p + 1 THEN row_ptrs[i] + d
                                            ELSE row_ptrs[i]]

\* The row and the entry of x go.  Entries of other rows stay as they are, so
\* they must not be positions at or behind the one of x.
remove_vertex(x) ==
  LET p == value_index(x)
  IN IF ~Has(x) THEN UNCHANGED csr
     ELSE /\ column_indices' = SubSeq(column_indices, 1, RowBegin(p))
                               \o SubSeq(column_indices, RowEnd(p) + 1, Len(column_indices))
          /\ row_ptrs' = RemoveAt(Shifted(p, RowBegin(p) - RowEnd(p)), p + 1)
          /\ values' = RemoveAt(values, p + 1)

\* Mutant: only the beginning of the next row moves.
add_edge_one_row(x, y) ==
  LET p == value_index(x) q == value_index(y)
  IN IF ~(Has(x) /\ Has(y)) THEN UNCHANGED csr
     ELSE /\ column_indices' = InsertAt(column_indices, RowBegin(p) + lower_bound(p, q) + 1, q)
          /\ row_ptrs' = [row_ptrs EXCEPT ![p + 2] = @ + 1]
          /\ UNCHANGED values

\* An edge of an absent vertex is not added.
add_edge(x, y) ==
  LET p == value_index(x) q == value_index(y)
  IN IF ~(Has(x) /\ Has(y)) THEN UNCHANGED csr
     ELSE /\ column_indices' = InsertAt(column_indices, RowBegin(p) + lower_bound(p, q) + 1, q)
          /\ row_ptrs' = Shifted(p, 1)
          /\ UNCHANGED values

\* One of the edges from x to y, if there is one.
remove_edge(x, y) ==
  LET p == value_index(x) q == value_index(y)
  IN IF ~adjacent(x, y) THEN UNCHANGED csr
     ELSE /\ column_indices' = RemoveAt(column_indices, RowBegin(p) + lower_bound(p, q) + 1)
          /\ row_ptrs' = Shifted(p, -1)
          /\ UNCHANGED values

----------------------------------------------------------------------------
(* Conversion and files *)

\* Mutant: a second edge to a vertex is left out.
RowOfUnique(adj_list, ver_src, x) ==
  [k \in 1 .. Cardinality(Range(adj_list[x])) |->
     SelectInSeq(ver_src, LAMBDA v : v = Ascending(Range(adj_list[x]))[k]) - 1]

\* The row of x as positions in ver_src, in ascending order.
RowOf(adj_list, ver_src, x) ==
  LET ns == Sorted(adj_list[x])
  IN [k \in DOMAIN ns |-> SelectInSeq(ver_src, LAMBDA v : v = ns[k]) - 1]

\* The constructor from an adjacency list: vertices() is in ascending order.
FromAdjacencyList(adj_list) ==
  LET ver_src == Ascending(DOMAIN adj_list)
      joining == Joining([n \in DOMAIN ver_src |-> RowOf(adj_list, ver_src, ver_src[n])])
  IN [row_ptrs |-> [n \in 1 .. Len(ver_src) + 1 |-> Len(joining[n - 1])],
      column_indices |-> joining[Len(ver_src)],
      values |-> ver_src]

Construct(adj_list) == LET g == FromAdjacencyList(adj_list)
                       IN /\ row_ptrs' = g.row_ptrs
                          /\ column_indices' = g.column_indices
                          /\ values' = g.values

\* What save_to_file writes, word by word: three sizes and the arrays.
Words(g) == <<Len(g.values), Len(g.row_ptrs), Len(g.column_indices)>>
            \o g.values \o g.row_ptrs \o g.column_indices

\* Reads n words behind the first k.  A short file leaves the rest of the
\* resized array as it is.
Read(old, file, k, n) ==
  [i \in 1 .. n |-> CASE k + i <= Len(file) -> file[k + i]
                      [] k + i > Len(file) /\ i <= Len(old) -> old[i]
                      [] OTHER -> 0]

\* Mutant: the two arrays of positions are read in the wrong order.
load_from_file_swapped(file, garbage) ==
  LET sizes == [i \in 1 .. 3 |-> IF i <= Len(file) THEN file[i] ELSE garbage]
  IN /\ values' = Read(values, file, 3, sizes[1])
     /\ column_indices' = Read(column_indices, file, 3 + sizes[1], sizes[3])
     /\ row_ptrs' = Read(row_ptrs, file, 3 + sizes[1] + sizes[3], sizes[2])

\* load_from_file: sizes that could not be read are uninitialised variables,
\* which hold some garbage.  A short file is not noticed.
load_from_file(file, garbage) ==
  LET sizes == [i \in 1 .. 3 |-> IF i <= Len(file) THEN file[i] ELSE garbage]
  IN /\ values' = Read(values, file, 3, sizes[1])
     /\ row_ptrs' = Read(row_ptrs, file, 3 + sizes[1], sizes[2])
     /\ column_indices' = Read(column_indices, file, 3 + sizes[1] + sizes[2], sizes[3])

----------------------------------------------------------------------------
(* Properties *)

\* The rows tile column_indices_: they begin at 0, follow one another without
\* gap or overlap and end with the array, whatever has been inserted in front
\* of them or removed, and each of them is sorted, which the binary searches
\* rely on.
RowsTile ==
  /\ Len(row_ptrs) = size + 1
  /\ row_ptrs[1] = 0 /\ Last(row_ptrs) = Len(column_indices)
  /\ \A i, j \in DOMAIN row_ptrs : i <= j => row_ptrs[i] <= row_ptrs[j]

RowsSorted == \A p \in Positions : IsSorted(Row(p), <=)

Shape == RowsTile /\ RowsSorted

\* Every entry of a row is the position of a vertex.
EntriesInRange == \A p \in Positions : Range(Row(p)) \subseteq Positions

=============================================================================
