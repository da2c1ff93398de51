------------------------------ MODULE GraphArrays ------------------------------
(***************************************************************************)
(* A GraphCSR as part of a larger system.                                  *)
(***************************************************************************)
EXTENDS GraphRows

VARIABLES row_ptrs, column_indices, values   \* the members of the GraphCSR

csr == <<row_ptrs, column_indices, values>>

CSR == INSTANCE GraphCSR

=============================================================================
