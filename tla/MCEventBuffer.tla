---------------------------- MODULE MCEventBuffer ----------------------------
(* A short and a long text. *)
EXTENDS EventBuffer, TLC

CONSTANTS short, long

MCSize == short :> 1 @@ long :> 2

Interchangeable == Permutations(Readers)
=============================================================================
