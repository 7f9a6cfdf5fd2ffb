---------------------------- MODULE MCSurveyRaces ----------------------------
(***************************************************************************)
(* One survey whose Property ID is upgraded by a read while another        *)
(* request of its creator edits it.                                        *)
(***************************************************************************)
EXTENDS SurveyPlatform, TLC

CONSTANTS s1, r1, r2, uField, w1, w2, p1, u1, y1, t1

MCRoleOf == [u \in {uField} |-> "SURVEYOR"]

MCFormatted == [p \in {p1} |-> p]

\* A temporary Property ID, and a parcel already.
MCNewSurveys == {[pid |-> t1, parcel |-> p1, ward |-> w, wardNo |-> None, ulb |-> None,
                  year |-> y1] : w \in {w1, w2}}

\* Edits of the ward.
MCPatches == {[ward |-> w, wardNo |-> Keep, ulb |-> Keep, parcel |-> Keep, year |-> Keep] :
                w \in {w1, w2}}

MCOps == {"create", "update", "ensure"}

MCSymmetry == Permutations({r1, r2})
=============================================================================
