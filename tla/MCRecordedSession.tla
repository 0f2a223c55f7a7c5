-------------------------- MODULE MCRecordedSession --------------------------
(* Small instances of RecordedSession for TLC. *)
EXTENDS RecordedSession, TLC

Interchangeable == Permutations(Operations) \cup Permutations(Runs)
                     \cup Permutations(CallIds)

\* Tool call identities are pairs of a run and a call.
CallPairs == Runs \X CallIds

\* Every record has the largest size.
Sizes == [r \in Record |-> 1]
=============================================================================
