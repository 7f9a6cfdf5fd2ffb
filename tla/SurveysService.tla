--------------------------- MODULE SurveysService ---------------------------
(***************************************************************************)
(* The handlers of the survey module (apps/api/src/surveys): who may do    *)
(* what, on which status, and in which transactions.  Each is a Begin      *)
(* action, the read with its checks, and a commit; the bulk endpoints are  *)
(* loops over these handlers and add no step of their own.                 *)
(***************************************************************************)
EXTENDS SurveysRepository

Editable == {"DRAFT", "IN_PROGRESS", "REOPENED"}

\* ROLE_PERMISSIONS of the rbac catalogue, the survey permissions.
RolePermissions ==
    [SURVEYOR |-> {"create", "update", "submit"},
     FIELD_SUPERVISOR |-> {"create", "update", "submit", "assign", "reject"},
     QC_SUPERVISOR |-> {"update", "approve", "reject"},
     ADMIN |-> {"create", "update", "submit", "assign", "approve", "reject", "delete"},
     DEPT_CLERK |-> {"update"},
     DEPT_OPERATOR |-> {"create", "submit"}]

Has(u, permission) == permission \in RolePermissions[RoleOf[u]]
IsAdmin(u) == RoleOf[u] = "ADMIN"
WorksOn(u, s) == u \in {row[s].creator, row[s].assignee}

-----------------------------------------------------------------------------
\* create: one transaction.  The client chooses every column; the creator is also
\* the assignee.
Create(r, u, s, dto) ==
    LET newRow == [status |-> "DRAFT", qc |-> "PENDING", deleted |-> FALSE,
                   creator |-> u, assignee |-> u, complete |-> FALSE]
        newIdent == [pid |-> dto.pid, parcel |-> dto.parcel, ulb |-> dto.ulb,
                     ward |-> dto.ward, wardNo |-> dto.wardNo, orig |-> None,
                     year |-> dto.year]
    IN
    /\ req[r] = NoRequest /\ "create" \in Ops /\ Has(u, "create")
    /\ row[s].status = "ABSENT"
    /\ row' = [row EXCEPT ![s] = newRow]
    /\ ident' = [ident EXCEPT ![s] = newIdent]
    /\ IndexAccepts(row', ident')
    /\ UNCHANGED <<open, req, plan>>

-----------------------------------------------------------------------------
(* update: the data of the row, then in a second transaction its promotion
   from DRAFT to IN_PROGRESS.                                               *)

\* The row the handler computes from the row it read and the patch.  A geographic
\* ward that is sent brings its number; otherwise ward number and ULB code are
\* written as sent, and the Property ID, when it can be derived, ignores both.
UpdatePlan(old, patch) ==
    LET ward == Patched(patch, "ward", old.ward)
        wardNo == ResolvePropertyWardNumber(ward, old.orig, old.wardNo)
        parcel == Patched(patch, "parcel", old.parcel)
        derived == CanonicalFieldPropertyId(StoredUlbCode(old), wardNo, parcel)
        geographic == patch.ward \in Wards
        cols == {c \in {"ward", "wardNo", "ulb", "parcel", "year"} : patch[c] # Keep}
                \cup (IF derived # None THEN {"pid"} ELSE {})
                \cup (IF geographic THEN {"wardNo"} ELSE {})
    IN  Data(cols, [pid |-> derived, parcel |-> parcel, ulb |-> patch.ulb,
                    ward |-> ward, wardNo |-> IF geographic THEN ward ELSE patch.wardNo,
                    year |-> Patched(patch, "year", old.year)])

BeginUpdate(r, u, s, patch) ==
    LET data == UpdatePlan(ident[s], patch)
        next == Written(ident[s], data)
    IN
    /\ Active(s) /\ row[s].status \in Editable
    /\ Has(u, "update") /\ WorksOn(u, s)
    /\ \/ next.pid = ident[s].pid /\ next.year = ident[s].year
       \/ Conflicts(next.pid, next.year, s) = {}
    /\ Begin(r, "update", s, None)
    /\ Plan(r, data, None, NoData)
    /\ UNCHANGED <<row, ident, open>>

CommitUpdate(r) ==
    LET s == req[r].id IN
    /\ Committing(r, "update")
    /\ ident' = [ident EXCEPT ![s] = Written(ident[s], plan[r].data)]
    /\ IndexAccepts(row, ident')
    /\ IF req[r].from = "DRAFT"
       THEN /\ req' = [req EXCEPT ![r].pc = "promote"]
            /\ plan' = [plan EXCEPT ![r] = NoPlan]
       ELSE Reply(r)
    /\ UNCHANGED <<row, open>>

PromoteUpdate(r) ==
    /\ req[r].pc = "promote"
    /\ TransitionStatus(r, "DRAFT", "IN_PROGRESS", row[req[r].id].qc, open[req[r].id])

-----------------------------------------------------------------------------
(* ensureFormulaPropertyId: a GET that replaces a stored Property ID which is
   not of the formula.                                                      *)

BeginEnsure(r, s) ==
    LET old == ident[s]
        wardNo == ResolvePropertyWardNumber(old.ward, old.orig, old.wardNo)
        derived == FormatPropertyId(StoredUlbCode(old), wardNo, old.parcel)
    IN
    /\ Active(s) /\ ~IsNewPropertyIdFormat(old.pid) /\ derived # None
    /\ Begin(r, "ensure", s, None)
    /\ Plan(r, [pid |-> derived], None, NoData)
    /\ UNCHANGED <<row, ident, open>>

CommitEnsure(r) ==
    LET s == req[r].id IN
    /\ Committing(r, "ensure")
    /\ ident' = [ident EXCEPT ![s] = Written(ident[s], plan[r].data)]
    /\ IndexAccepts(row, ident')
    /\ Reply(r)
    /\ UNCHANGED <<row, open>>

-----------------------------------------------------------------------------
(* Status transitions                                                       *)

BeginSubmit(r, u, s) ==
    /\ Active(s) /\ row[s].status \in Editable /\ row[s].complete
    /\ Has(u, "submit") /\ (IsAdmin(u) \/ WorksOn(u, s))
    /\ Begin(r, "submit", s, None)
    /\ UNCHANGED <<row, ident, open, plan>>

\* Mutant of CommitSubmit: remarks are resolved on the way from REJECTED only.
SubmitKeepingRemarks(r) ==
    /\ Committing(r, "submit")
    /\ TransitionStatus(r, req[r].from, "SUBMITTED", "PENDING",
                        open[req[r].id] /\ req[r].from # "REJECTED")

\* Open QC remarks are resolved when the status read was REOPENED.
CommitSubmit(r) ==
    /\ Committing(r, "submit")
    /\ TransitionStatus(r, req[r].from, "SUBMITTED", "PENDING",
                        open[req[r].id] /\ req[r].from # "REOPENED")

BeginApprove(r, u, s) ==
    /\ Active(s) /\ row[s].status = "SUBMITTED"
    /\ Has(u, "approve") /\ (row[s].creator # u \/ IsAdmin(u))
    /\ Begin(r, "approve", s, None)
    /\ UNCHANGED <<row, ident, open, plan>>

CommitApprove(r) ==
    /\ Committing(r, "approve")
    /\ TransitionStatus(r, "SUBMITTED", "APPROVED", "APPROVED", open[req[r].id])

\* `remarks`: whether the body yields remark rows (a blank one yields none).
BeginReject(r, u, s, remarks) ==
    /\ Active(s) /\ row[s].status = "SUBMITTED"
    /\ Has(u, "reject") /\ (row[s].creator # u \/ IsAdmin(u))
    /\ Begin(r, "reject", s, remarks)
    /\ UNCHANGED <<row, ident, open, plan>>

CommitReject(r) ==
    /\ Committing(r, "reject")
    /\ TransitionStatus(r, "SUBMITTED", "REJECTED", "REJECTED",
                        open[req[r].id] \/ req[r].arg = TRUE)

BeginReopen(r, u, s) ==
    /\ Active(s) /\ row[s].status = "REJECTED"
    /\ Has(u, "update")
    /\ Begin(r, "reopen", s, None)
    /\ UNCHANGED <<row, ident, open, plan>>

CommitReopen(r) ==
    /\ Committing(r, "reopen")
    /\ TransitionStatus(r, "REJECTED", "REOPENED", row[req[r].id].qc, open[req[r].id])

-----------------------------------------------------------------------------
(* Deletion and restoration.  The write is by id alone.                     *)

BeginSoftDelete(r, u, s) ==
    /\ Active(s) /\ row[s].status \notin {"APPROVED", "SUBMITTED"}
    /\ Has(u, "delete")
    /\ Begin(r, "delete", s, None)
    /\ UNCHANGED <<row, ident, open, plan>>

CommitDelete(r, op) ==
    /\ Committing(r, op)
    /\ row' = [row EXCEPT ![req[r].id].deleted = TRUE]
    /\ Reply(r)
    /\ UNCHANGED <<ident, open>>

BeginRestore(r, u, s) ==
    /\ row[s].status # "ABSENT" /\ row[s].deleted
    /\ Has(u, "delete")
    /\ Begin(r, "restore", s, None)
    /\ Plan(r, Data({"pid", "year"}, ident[s]), None, NoData)
    /\ UNCHANGED <<row, ident, open>>

\* A survey whose identity was taken meanwhile comes back under a temporary one.
CommitRestore(r) ==
    LET s == req[r].id
        taken == Conflicts(plan[r].data["pid"], plan[r].data["year"], s) # {}
    IN
    /\ Committing(r, "restore")
    /\ row' = [row EXCEPT ![s].deleted = FALSE]
    /\ ident' = [ident EXCEPT ![s].pid = IF taken THEN TempRestore(s) ELSE @]
    /\ IndexAccepts(row', ident')
    /\ Reply(r)
    /\ UNCHANGED open

-----------------------------------------------------------------------------
(* Assignment, and the child tables (floors, photos, co-owners) a complete
   survey needs.  Registry re-assignment of drafts commits like assign.     *)

BeginAssign(r, u, s, to) ==
    /\ Active(s) /\ row[s].status \in Editable
    /\ Has(u, "assign") /\ to # row[s].assignee
    /\ Begin(r, "assign", s, to)
    /\ UNCHANGED <<row, ident, open, plan>>

CommitAssign(r) ==
    /\ Committing(r, "assign")
    /\ row' = [row EXCEPT ![req[r].id].assignee = req[r].arg]
    /\ Reply(r)
    /\ UNCHANGED <<ident, open>>

\* assertEditableSurvey, then the write of the child table.
BeginChildEdit(r, u, s, complete) ==
    /\ Active(s) /\ row[s].status # "APPROVED" /\ Has(u, "update")
    /\ Has(u, "approve") \/ row[s].status \in Editable
    /\ complete # row[s].complete
    /\ Begin(r, "child", s, complete)
    /\ UNCHANGED <<row, ident, open, plan>>

CommitChildEdit(r) ==
    /\ Committing(r, "child")
    /\ row' = [row EXCEPT ![req[r].id].complete = req[r].arg]
    /\ Reply(r)
    /\ UNCHANGED <<ident, open>>

-----------------------------------------------------------------------------
SurveysNext ==
    \E r \in Requests :
        \/ \E s \in Surveys : BeginEnsure(r, s)
        \/ \E u \in Users, s \in Surveys :
            \/ \E dto \in NewSurveys : Create(r, u, s, dto)
            \/ \E patch \in Patches : BeginUpdate(r, u, s, patch)
            \/ BeginSubmit(r, u, s)
            \/ BeginApprove(r, u, s)
            \/ \E remarks \in BOOLEAN : BeginReject(r, u, s, remarks)
            \/ BeginReopen(r, u, s)
            \/ BeginSoftDelete(r, u, s)
            \/ BeginRestore(r, u, s)
            \/ \E to \in Users : BeginAssign(r, u, s, to)
            \/ \E complete \in ChildStates : BeginChildEdit(r, u, s, complete)
        \/ CommitUpdate(r)
        \/ PromoteUpdate(r)
        \/ CommitEnsure(r)
        \/ CommitSubmit(r)
        \/ CommitApprove(r)
        \/ CommitReject(r)
        \/ CommitReopen(r)
        \/ CommitDelete(r, "delete")
        \/ CommitRestore(r)
        \/ CommitAssign(r)
        \/ CommitChildEdit(r)
=============================================================================
