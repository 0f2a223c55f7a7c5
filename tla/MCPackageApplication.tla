------------------------- MODULE MCPackageApplication -------------------------
(* Two repositories and two packages in two versions. *)
EXTENDS PackageApplication

CONSTANTS t1, t2, p, q
=============================================================================
