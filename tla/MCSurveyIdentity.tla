-------------------------- MODULE MCSurveyIdentity ---------------------------
(***************************************************************************)
(* The identity of two surveys over two wards, their Zero Ward and one     *)
(* canonical parcel, which may be written with a digit too many.  One      *)
(* administrator may run every handler, so that roles do not multiply the  *)
(* states.                                                                 *)
(***************************************************************************)
EXTENDS SurveyPlatform, TLC

CONSTANTS s1, s2, r1, uAdmin, w1, w2, p1, long1, u1, y1, t1

MCRoleOf == [u \in {uAdmin} |-> "ADMIN"]

\* Parcel "123456": the formula keeps the last five digits.
MCFormatted == [p \in {p1, long1} |-> p1]

\* The mobile client sends a temporary Property ID and a ward, the new-survey page
\* any text: here the ID of the parcel in the ward next door.
NewSurvey(pid, parcel, ward) ==
    [pid |-> pid, parcel |-> parcel, ward |-> ward, wardNo |-> None, ulb |-> None,
     year |-> y1]

MCNewSurveys ==
    {NewSurvey(t1, p, w) : p \in {None, p1}, w \in {w1, w2}}
    \cup {NewSurvey(PropertyId(u1, w2, p1), p1, w1), NewSurvey(PropertyId(u1, w1, p1), p1, w2)}

Edit(ward, parcel) ==
    [ward |-> ward, wardNo |-> Keep, ulb |-> Keep, parcel |-> parcel, year |-> Keep]

\* Edits of the ward, or of the parcel; a quarantine moves surveys into the Zero
\* Ward and a correction back.
MCPatches == {Edit(w, Keep) : w \in {w1, w2}} \cup {Edit(Keep, long1)}

MCOps == {"create", "update", "ensure", "submit",
          "child", "quarantine", "correct"}

\* What it takes to approve one survey and swap it with a quarantined one.
MCSwapOps == {"create", "update", "submit", "approve", "qcReopen", "child", "quarantine",
               "correct"}

MCSymmetry == Permutations({s1, s2}) \cup Permutations({w1, w2})
=============================================================================
