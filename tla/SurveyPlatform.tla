--------------------------- MODULE SurveyPlatform ---------------------------
(***************************************************************************)
(* The survey and QC modules over one survey table: the specification and  *)
(* its properties.                                                         *)
(***************************************************************************)
EXTENDS QcService

Init ==
    /\ row = [s \in Surveys |-> [status |-> "ABSENT", qc |-> "PENDING", deleted |-> FALSE,
                                 creator |-> None, assignee |-> None, complete |-> FALSE]]
    /\ ident = [s \in Surveys |-> NoIdentity]
    /\ open = [s \in Surveys |-> FALSE]
    /\ req = [r \in Requests |-> NoRequest]
    /\ plan = [r \in Requests |-> NoPlan]

Next ==
    \/ SurveysNext
    \/ QcNext
    \/ \E r \in Requests : Abandon(r)

Spec == Init /\ [][Next]_vars

\* Request r ends in this step, with its transaction or without.
Commits(r, op) == Committing(r, op) /\ req'[r] = NoRequest

-----------------------------------------------------------------------------
(* The life cycle                                                           *)

VerdictOf(status) ==
    IF status = "APPROVED" THEN "APPROVED"
    ELSE IF status \in {"REJECTED", "REOPENED"} THEN "REJECTED" ELSE "PENDING"

\* The two status columns, written by different handlers, agree: the QC verdict
\* of a survey is the one its status implies (submit, approve, reject, reopen,
\* qc.reopened), whatever the interleaving.  The dashboards rely on it when they
\* sort a survey into one bucket.
StatusQcCoherent == \A s \in Surveys : row[s].qc = VerdictOf(row[s].status)

\* An unresolved QC remark belongs to a survey that was returned: submit resolves
\* what reject wrote, although it decides to on the status it read before.
OpenRemarksOnlyWhileReturned ==
    \A s \in Surveys : open[s] => row[s].status \in {"REJECTED", "REOPENED"}

Workflow == INSTANCE SurveyWorkflow
    WITH stage <- [s \in Surveys |-> row[s].status],
         verdict <- [s \in Surveys |-> row[s].qc],
         deleted <- [s \in Surveys |-> row[s].deleted],
         remarks <- open

\* The handlers, reads and commits interleaved, implement the atomic workflow: no
\* commit takes a survey along an edge the workflow does not have, settles remarks
\* it should keep, or moves a deleted survey.
WorkflowSpec == Workflow!WSpec

\* What a handler in flight still knows of its checks, the strengthening that makes
\* the life-cycle properties inductive: a submission read an editable status, an
\* assignment names a user, a quarantine leaves the indexed columns alone.
PendingOK(q, p) ==
    /\ q.op = "submit" => q.from \in Editable
    /\ q.op = "assign" => q.arg \in Users
    /\ q.op = "child" => q.arg \in BOOLEAN
    /\ q.op = "quarantine" => {"pid", "year"} \cap DOMAIN p.data = {}

Pending == \A r \in Requests : PendingOK(req[r], plan[r])

-----------------------------------------------------------------------------
(* Identity                                                                 *)

\* No two active surveys share a Property ID in one assessment year: what the index
\* of 20260801140000_survey_active_identity_unique gives, a part of IInv that the
\* checks of the handlers rely on.
UniqueActiveIdentity ==
    \A s, t \in Surveys :
        Active(s) /\ Active(t) /\ ident[s].pid = ident[t].pid
            /\ ident[s].year = ident[t].year => s = t

\* A Property ID of the formula encodes the ward and the parcel of its row: in a
\* geographic ward, when the parcel is one the two derivations agree on.
Aligned(i) ==
    i.ward \in Wards /\ i.parcel \in Canonical /\ IsNewPropertyIdFormat(i.pid)
        => \E u \in UlbCodes : i.pid = PropertyId(u, i.ward, i.parcel)

Place(i) == <<i.pid, i.parcel, i.ward>>

KeepsAligned(s) ==
    Aligned(ident'[s]) \/ \E t \in Surveys : Place(ident'[s]) = Place(ident[t])

\* Whatever a client created, a step that writes Property ID, ward or parcel of a
\* survey leaves them aligned: update, correct, ensureFormulaPropertyId, quarantine
\* and restore, one request at a time (qc.repository: denormalized fields "must not
\* encode a different ward into Property ID").  The exception is the peer of a swap,
\* which gets the three together as they stood in the row of the corrected survey.
AlignmentKept ==
    [][\A s \in Surveys : row[s].status # "ABSENT" => KeepsAligned(s)]_vars

\* What the checks of a handler accept, the unique index accepts: without a
\* concurrent request no update, correction or three-statement swap is refused.
ChecksSuffice ==
    \A r \in Requests :
        /\ Committing(r, "update") =>
            IndexAccepts(row, AfterOwn(plan[r], req[r].id, ident))
        /\ Committing(r, "correct") => CorrectAccepted(plan[r], req[r].id)

\* Message of qc.repository.ts: "Approved surveys cannot be moved to Zero Ward".
ApprovedStaysOutOfZeroWard ==
    [][\A s \in Surveys :
        Active(s) /\ row[s].status = "APPROVED" /\ ident[s].ward # ZeroWard
        => ident'[s].ward # ZeroWard]_vars

\* The inductive invariant of SurveyPlatformProofs.
IInv ==
    /\ TypeOK
    /\ Pending
    /\ StatusQcCoherent
    /\ OpenRemarksOnlyWhileReturned
    /\ UniqueActiveIdentity

-----------------------------------------------------------------------------
(* Checks made on a row that was read earlier                               *)

\* Messages of softDelete: "Approved surveys cannot be soft-deleted", "Submitted
\* surveys cannot be deleted from the Survey Module".
SurveyModuleSparesReview ==
    [][\A r \in Requests :
        Commits(r, "delete") /\ row' # row
        => row[req[r].id].status \notin {"SUBMITTED", "APPROVED"}]_vars

\* Comment of ensureFormulaPropertyId: "Skips already-valid formula IDs".
UpgradeSparesFormulaIds ==
    [][\A r \in Requests :
        Commits(r, "ensure") /\ ident' # ident
        => ~IsNewPropertyIdFormat(ident[req[r].id].pid)]_vars
=============================================================================
