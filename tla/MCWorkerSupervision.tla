------------------------- MODULE MCWorkerSupervision -------------------------
(* Two requests: one is served or waits while the other is sent. *)
EXTENDS WorkerSupervision
=============================================================================
