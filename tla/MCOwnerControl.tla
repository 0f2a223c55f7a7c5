---------------------------- MODULE MCOwnerControl ----------------------------
(* Small instances of OwnerControl for TLC. *)
EXTENDS OwnerControl, TLC

Interchangeable == Permutations(Operations) \cup Permutations(Requests)

\* Every record has the largest size.
Sizes == [r \in Record |-> 1]
=============================================================================
