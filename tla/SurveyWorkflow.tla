--------------------------- MODULE SurveyWorkflow ---------------------------
(***************************************************************************)
(* What the survey life cycle promises, with no requests, no roles and no  *)
(* races: every survey moves along one legal edge at a time, its QC verdict*)
(* and its open remarks move with it, and a deleted survey stands still    *)
(* until it is recovered.                                                  *)
(***************************************************************************)
CONSTANTS Surveys

VARIABLES stage,    \* ABSENT or the survey status
          verdict,  \* the QC verdict
          deleted,  \* soft-deleted
          remarks   \* QC remarks are waiting for the surveyor

wvars == <<stage, verdict, deleted, remarks>>

Move(s, from, to) ==
    /\ stage[s] \in from /\ ~deleted[s]
    /\ stage' = [stage EXCEPT ![s] = to]
    /\ UNCHANGED deleted

Judge(s, v) == verdict' = [verdict EXCEPT ![s] = v]

WInit ==
    /\ stage = [s \in Surveys |-> "ABSENT"]
    /\ verdict = [s \in Surveys |-> "PENDING"]
    /\ deleted = [s \in Surveys |-> FALSE]
    /\ remarks = [s \in Surveys |-> FALSE]

Open(s) == Move(s, {"ABSENT"}, "DRAFT") /\ UNCHANGED <<verdict, remarks>>

Start(s) == Move(s, {"DRAFT"}, "IN_PROGRESS") /\ UNCHANGED <<verdict, remarks>>

\* Handing a survey in settles every remark made on it.
Submit(s) ==
    /\ Move(s, {"DRAFT", "IN_PROGRESS", "REOPENED"}, "SUBMITTED")
    /\ Judge(s, "PENDING")
    /\ remarks' = [remarks EXCEPT ![s] = FALSE]

Approve(s) ==
    Move(s, {"SUBMITTED"}, "APPROVED") /\ Judge(s, "APPROVED") /\ UNCHANGED remarks

Return(s) ==
    /\ Move(s, {"SUBMITTED"}, "REJECTED")
    /\ Judge(s, "REJECTED")
    /\ \E b \in BOOLEAN : remarks' = [remarks EXCEPT ![s] = b]

Rework(s) == Move(s, {"REJECTED"}, "REOPENED") /\ UNCHANGED <<verdict, remarks>>

Recall(s) ==
    Move(s, {"APPROVED"}, "SUBMITTED") /\ Judge(s, "PENDING") /\ UNCHANGED remarks

Discard(s) ==
    /\ stage[s] # "ABSENT"
    /\ deleted' = [deleted EXCEPT ![s] = TRUE]
    /\ UNCHANGED <<stage, verdict, remarks>>

Recover(s) ==
    /\ stage[s] # "ABSENT"
    /\ deleted' = [deleted EXCEPT ![s] = FALSE]
    /\ UNCHANGED <<stage, verdict, remarks>>

WNext ==
    \E s \in Surveys :
        \/ Open(s) \/ Start(s) \/ Submit(s) \/ Approve(s) \/ Return(s)
        \/ Rework(s) \/ Recall(s) \/ Discard(s) \/ Recover(s)

WSpec == WInit /\ [][WNext]_wvars
=============================================================================
