------------------------------ MODULE MCFloors ------------------------------
(***************************************************************************)
(* Two usages on the ground floor, a vacant part, and corrections that     *)
(* re-segment a row, exchange the list, clear it, or only set the use.     *)
(***************************************************************************)
EXTENDS Floors, TLC

CONSTANTS r1, r2

Ground == [position |-> "GROUND", usage |-> "RESIDENTIAL"]
Shop == [position |-> "GROUND", usage |-> "COMMERCIAL"]

Correcting(u, p, list) == [use |-> u, plot |-> p, floors |-> list]
Entry(id, seg, area) == [id |-> id, seg |-> seg, area |-> area]
MCCorrections ==
    { Correcting(Keep, Keep, <<Entry(1, Shop, 2)>>),
      Correcting("BUILT", 2, <<Entry(None, Shop, 0), Entry(1, Ground, 2)>>),
      Correcting("OPEN_LAND", Keep, <<>>),
      Correcting("OPEN_LAND", Keep, Keep) }
MCPlots == {2, None}
MCSymmetry == Permutations({r1, r2})
=============================================================================
