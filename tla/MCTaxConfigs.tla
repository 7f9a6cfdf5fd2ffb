---------------------------- MODULE MCTaxConfigs ----------------------------
(* Two cells, two values of everything that is agreed on, two requests. *)
EXTENDS TaxConfigs, TLC

CONSTANTS c1, c2, r1, r2, d, e

MCSymmetry == Permutations({c1, c2}) \cup Permutations({r1, r2})
=============================================================================
