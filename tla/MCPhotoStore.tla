---------------------------- MODULE MCPhotoStore ----------------------------
(***************************************************************************)
(* Two photos, one of them imported; two requests, a queue worker and an   *)
(* export.                                                                 *)
(***************************************************************************)
EXTENDS PhotoStore, TLC

CONSTANTS p1, p2, k1, k2, k3, r1, r2, w1, x1

MCSymmetry == Permutations({k1, k2, k3}) \cup Permutations({r1, r2})
=============================================================================
