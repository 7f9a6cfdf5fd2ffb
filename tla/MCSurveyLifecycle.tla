-------------------------- MODULE MCSurveyLifecycle --------------------------
(***************************************************************************)
(* The life cycle of one survey under two concurrent requests.  The ward,  *)
(* parcel and year of the survey do not matter here, so one of each; the   *)
(* three users hold the roles that can do different things.                *)
(***************************************************************************)
EXTENDS SurveyPlatform, TLC

CONSTANTS s1, r1, r2, uField, uQc, uAdmin, w1, p1, u1, y1, t1

MCRoleOf == [u \in {uField, uQc, uAdmin} |->
                CASE u = uField -> "FIELD_SUPERVISOR"
                  [] u = uQc -> "QC_SUPERVISOR"
                  [] OTHER -> "ADMIN"]

MCFormatted == [p \in {p1} |-> p]
MCNewSurveys == {[pid |-> t1, parcel |-> None, ward |-> w1, wardNo |-> None, ulb |-> None,
                  year |-> y1]}

\* An edit that leaves the identity alone, and one of the columns beside it.
MCPatches ==
    {[ward |-> Keep, wardNo |-> Keep, ulb |-> Keep, parcel |-> Keep, year |-> Keep],
     [ward |-> Keep, wardNo |-> w1, ulb |-> u1, parcel |-> Keep, year |-> Keep]}

MCOps == {"create", "update", "submit", "approve", "reject", "reopen", "delete",
          "restore", "assign", "child", "qcReopen", "qcDelete"}

MCSymmetry == Permutations({r1, r2})
=============================================================================
