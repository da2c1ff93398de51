------------------------------- MODULE GraphRows -------------------------------
(***************************************************************************)
(* What the standard library does to the row of a vertex, and to a list of *)
(* edges, for the three graph containers: sequences of which some elements *)
(* are taken out, and which are put in order.                              *)
(***************************************************************************)
EXTENDS Integers, Sequences, FiniteSets, Functions

\* How many times y is in row.
Copies(row, y) == Cardinality({i \in DOMAIN row : row[i] = y})

\* std::sort: the place of an element is the number of those that are less, and
\* of the equal ones up to it.
Sorted(s) ==
  LET place == [i \in DOMAIN s |->
                  Cardinality({j \in DOMAIN s : s[j] < s[i] \/ (s[j] = s[i] /\ j <= i)})]
  IN [k \in DOMAIN s |-> s[CHOOSE i \in DOMAIN s : place[i] = k]]

\* A std::set from its begin() to its end().
Ascending(S) ==
  [k \in 1 .. Cardinality(S) |-> CHOOSE x \in S : Cardinality({y \in S : y <= x}) = k]

\* What std::erase and std::remove_if leave: the elements of s at the positions
\* in I, in the order they have.
Kept(s, I) ==
  [k \in 1 .. Cardinality(I) |-> s[CHOOSE i \in I : Cardinality(I \cap (1 .. i)) = k]]

\* The first n rows one after the other.
Joining(rows) ==
  LET joining[n \in 0 .. Len(rows)] ==
        IF n = 0 THEN <<>> ELSE joining[n - 1] \o rows[n]
  IN joining

=============================================================================
