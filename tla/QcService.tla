------------------------------ MODULE QcService ------------------------------
(***************************************************************************)
(* The handlers of the QC module (apps/api/src/qc).  Approve, reject and   *)
(* the reopening of a returned survey are the survey module's own; the     *)
(* rest, below, are open to survey:approve and act on surveys under review.*)
(***************************************************************************)
EXTENDS SurveysService

-----------------------------------------------------------------------------
\* qcReopen: an approved survey goes back to review.
BeginQcReopen(r, u, s) ==
    /\ Active(s) /\ row[s].status = "APPROVED"
    /\ Has(u, "approve")
    /\ Begin(r, "qcReopen", s, None)
    /\ UNCHANGED <<row, ident, open, plan>>

\* Mutant of CommitQcReopen: the verdict is left standing.
QcReopenKeepingVerdict(r) ==
    /\ Committing(r, "qcReopen")
    /\ TransitionStatus(r, "APPROVED", "SUBMITTED", "APPROVED", open[req[r].id])

CommitQcReopen(r) ==
    /\ Committing(r, "qcReopen")
    /\ TransitionStatus(r, "APPROVED", "SUBMITTED", "PENDING", open[req[r].id])

\* Mutant of BeginQcDelete: the 404 of a survey that is not there is missing.
QcDeleteUnchecked(r, u, s) ==
    /\ Has(u, "approve") /\ Has(u, "delete")
    /\ Begin(r, "qcDelete", s, None)
    /\ UNCHANGED <<row, ident, open, plan>>

\* qcSoftDelete: any status; the commit is CommitDelete.
BeginQcDelete(r, u, s) ==
    /\ Active(s) /\ Has(u, "approve") /\ Has(u, "delete")
    /\ Begin(r, "qcDelete", s, None)
    /\ UNCHANGED <<row, ident, open, plan>>

-----------------------------------------------------------------------------
\* quarantineToZeroWard: the first ward a survey left is kept.
QuarantinePlan(old) ==
    [ward |-> ZeroWard, orig |-> IF old.orig # None THEN old.orig ELSE old.ward]

BeginQuarantine(r, u, s) ==
    /\ Active(s) /\ row[s].status # "APPROVED" /\ ident[s].ward # ZeroWard
    /\ Has(u, "approve")
    /\ Begin(r, "quarantine", s, None)
    /\ Plan(r, QuarantinePlan(ident[s]), None, NoData)
    /\ UNCHANGED <<row, ident, open>>

CommitQuarantine(r) ==
    LET s == req[r].id IN
    /\ Committing(r, "quarantine")
    /\ ident' = [ident EXCEPT ![s] = Written(ident[s], plan[r].data)]
    /\ Reply(r)
    /\ UNCHANGED <<row, open>>

-----------------------------------------------------------------------------
(* qcCorrectSurvey: an edit of a survey under review.  When it claims the
   Property ID of another active survey of the year, the two exchange theirs. *)

\* Mutant of CorrectPlan: the Property ID is derived from the ward the survey is
\* leaving, not from the one it is moved to.
CorrectPlanOldWard(old, patch) ==
    LET wardNo == ResolvePropertyWardNumber(old.ward, old.orig, old.wardNo)
        derived == FormatPropertyId(UlbCode, wardNo, Patched(patch, "parcel", old.parcel))
        pid == IF patch.ward = ZeroWard \/ derived = None THEN old.pid ELSE derived
        cols == {c \in {"ward", "parcel", "year"} : patch[c] # Keep}
                \cup (IF pid # old.pid THEN {"pid"} ELSE {})
    IN  Data(cols, [pid |-> pid, ward |-> patch.ward, parcel |-> patch.parcel,
                    year |-> patch.year])

CorrectPlan(old, patch) ==
    LET ward == Patched(patch, "ward", old.ward)
        toZero == ward = ZeroWard
        wardNo == IF patch.ward \in Wards THEN patch.ward
                  ELSE ResolvePropertyWardNumber(old.ward, old.orig, old.wardNo)
        parcel == Patched(patch, "parcel", old.parcel)
        stored == IF parcel \in Parcels THEN Padded[parcel] ELSE parcel
        derived == FormatPropertyId(UlbCode, wardNo, parcel)
        pid == IF toZero \/ derived = None THEN old.pid ELSE derived
        geo == patch.ward # Keep
        cols == {c \in {"ward", "parcel", "year"} : patch[c] # Keep}
                \cup (IF pid # old.pid THEN {"pid"} ELSE {})
                \cup (IF geo /\ toZero /\ old.orig = None /\ old.ward # ZeroWard
                      THEN {"orig"} ELSE {})
                \cup (IF ~toZero /\ (geo \/ wardNo # old.wardNo)
                      THEN {"wardNo"} ELSE {})
                \cup (IF geo \/ old.ulb # UlbCode THEN {"ulb"} ELSE {})
    IN  Data(cols, [pid |-> pid, parcel |-> stored, ulb |-> UlbCode, ward |-> ward,
                    wardNo |-> wardNo, orig |-> old.ward,
                    year |-> Patched(patch, "year", old.year)])

\* What the peer of a swap gets: everything but originalWardId.
SwappedColumns == {"pid", "parcel", "ulb", "ward", "wardNo", "year"}

BeginCorrect(r, u, s, patch) ==
    LET old == ident[s]
        data == CorrectPlan(old, patch)
        next == Written(old, data)
        changed == next.pid # old.pid \/ next.year # old.year
        conflicts == IF changed THEN Conflicts(next.pid, next.year, s) ELSE {}
    IN
    /\ Active(s) /\ row[s].status = "SUBMITTED" /\ row[s].qc = "PENDING"
    /\ Has(u, "approve") /\ patch.wardNo = Keep /\ patch.ulb = Keep
    /\ Begin(r, "correct", s, None)
    /\ IF conflicts = {}
       THEN Plan(r, data, None, NoData)
       ELSE /\ next.year = old.year /\ next.pid # old.pid
            /\ \E t \in conflicts : Plan(r, data, t, Data(SwappedColumns, old))
    /\ UNCHANGED <<row, ident, open>>

\* Mutant of AfterPark: the peer keeps its Property ID while the survey takes it.
UnparkedPeer(p, idn) == idn

\* The rows after each statement of the transaction: the peer parked under a
\* temporary Property ID, the survey written, the peer given the survey's old row.
AfterPark(p, idn) ==
    IF p.peer = None THEN idn ELSE [idn EXCEPT ![p.peer].pid = TempSwap(p.peer)]
AfterOwn(p, s, idn) == [idn EXCEPT ![s] = Written(idn[s], p.data)]
AfterSwap(p, idn) ==
    IF p.peer = None THEN idn
    ELSE [idn EXCEPT ![p.peer] = Written(idn[p.peer], p.theirs)]

CorrectAccepted(p, s) ==
    LET parked == AfterPark(p, ident)
        own == AfterOwn(p, s, parked)
    IN  /\ IndexAccepts(row, parked)
        /\ IndexAccepts(row, own)
        /\ IndexAccepts(row, AfterSwap(p, own))

CommitCorrect(r) ==
    LET s == req[r].id
        p == plan[r]
    IN
    /\ Committing(r, "correct")
    /\ CorrectAccepted(p, s)
    /\ ident' = AfterSwap(p, AfterOwn(p, s, AfterPark(p, ident)))
    /\ Reply(r)
    /\ UNCHANGED <<row, open>>

-----------------------------------------------------------------------------
QcNext ==
    \E r \in Requests :
        \/ \E u \in Users, s \in Surveys :
            \/ BeginQcReopen(r, u, s)
            \/ BeginQcDelete(r, u, s)
            \/ BeginQuarantine(r, u, s)
            \/ \E patch \in Patches : BeginCorrect(r, u, s, patch)
        \/ CommitQcReopen(r)
        \/ CommitDelete(r, "qcDelete")
        \/ CommitQuarantine(r)
        \/ CommitCorrect(r)
=============================================================================
