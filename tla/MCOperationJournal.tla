------------------------- MODULE MCOperationJournal -------------------------
(* Small instances of OperationJournal for TLC. *)
EXTENDS OperationJournal, TLC

\* Identities are interchangeable: no definition tells them apart.
Interchangeable ==
  Permutations(Operations) \cup Permutations(Processes)
    \cup Permutations(Requests)

\* Small records and records of the largest size, so that either limit of the
\* journal can be the one that binds.
Sizes ==
  [r \in Record |->
     IF r \in WorkIntent \/ (r \in ControlIntent /\ ~Bypasses(r)) THEN 3 ELSE 1]
=============================================================================
