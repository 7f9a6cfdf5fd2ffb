-------------------------- MODULE SurveysRepository --------------------------
(***************************************************************************)
(* The survey table and the statements that write it                       *)
(* (apps/api/src/surveys/surveys.repository.ts, packages/validation and    *)
(* packages/database).  A handler of the API reads a row, decides, and     *)
(* commits later; what it read and what it means to write live in `req`    *)
(* and `plan` until then.  One step of this specification is one           *)
(* transaction (or one read), which is what Read Committed gives the code. *)
(***************************************************************************)
EXTENDS Naturals, FiniteSets

CONSTANTS
    Surveys,     \* survey ids; a survey is ABSENT until it is created
    Users,       \* signed-in users
    RoleOf,      \* the one active role of each user
    Requests,    \* request slots: how many handlers may run at a time
    Wards,       \* geographic wards of the one ULB of the model
    ZeroWard,    \* its quarantine ward
    UlbCodes,    \* codes that ulbCode, a column a client may write, takes
    UlbCode,     \* the code of the ULB itself
    Parcels,     \* parcel, unit and use, as stored: any text
    Formatted,   \* what formatPropertyId makes of a parcel: digits cut and padded
    Padded,      \* the parcel a correction stores for one it was sent: padParcelNo
    Years,       \* assessment years
    ClientPids,  \* Property IDs of clients that are not of the formula
    NewSurveys,  \* what a client may create a survey with
    Patches,     \* the identity edits a client may send
    Ops,         \* the handlers the instance exercises
    ChildStates, \* whether an edit of the child tables completes a survey or not
    Keep,        \* "undefined" in a patch: the column is not sent
    None         \* SQL NULL, and "nothing" elsewhere

Statuses == {"DRAFT", "IN_PROGRESS", "SUBMITTED", "APPROVED", "REJECTED", "REOPENED"}
QcStatuses == {"PENDING", "APPROVED", "REJECTED"}
Roles == {"SURVEYOR", "FIELD_SUPERVISOR", "QC_SUPERVISOR", "ADMIN", "DEPT_CLERK",
          "DEPT_OPERATOR"}
OpNames == {"create", "update", "ensure", "submit", "approve", "reject", "reopen",
            "delete", "restore", "assign", "child", "qcReopen", "qcDelete",
            "quarantine", "correct"}

\* UpdateSurveyDto and, without ward number and ULB code, QcSurveyCorrectionDto:
\* the identity part.  A cleared parcel is sent as null; an absent field is Keep.
PatchDto == [ward : Wards \cup {ZeroWard, Keep}, wardNo : Wards \cup {ZeroWard, Keep},
             ulb : UlbCodes \cup {Keep}, parcel : Parcels \cup {None, Keep},
             year : Years \cup {Keep}]

\* Parcel and unit are taken up to the leading zeros of their five and three digits;
\* the canonical ones have no more digits than that and nothing else.
Canonical == {p \in Parcels : Formatted[p] = p}

\* formatPropertyId; a ward stands for its number here and below.
PropertyId(u, w, p) == <<u, w, p>>
FormulaPids == {PropertyId(u, w, p) : u \in UlbCodes, w \in Wards, p \in Canonical}

\* CreateSurveyDto, the identity part: a client may send an ID of the formula too.
CreateDto == [pid : ClientPids \cup FormulaPids, parcel : Parcels \cup {None},
              ward : Wards \cup {ZeroWard}, wardNo : Wards \cup {ZeroWard, None},
              ulb : UlbCodes \cup {None}, year : Years]

ASSUME RolesAssumption == RoleOf \in [Users -> Roles]
ASSUME SentinelAssumption ==
    /\ None \notin Surveys \cup Users \cup Wards \cup Parcels \cup Years \cup ClientPids
                   \cup UlbCodes \cup OpNames
    /\ Keep \notin Wards \cup Parcels \cup Years \cup UlbCodes \cup {None, ZeroWard}
    /\ ZeroWard \notin Wards \cup {None}
ASSUME InputAssumption == /\ Patches \subseteq PatchDto /\ NewSurveys \subseteq CreateDto
                          /\ Ops \subseteq OpNames /\ ChildStates \subseteq BOOLEAN
ASSUME ParcelAssumption ==
    /\ UlbCode \in UlbCodes
    /\ Formatted \in [Parcels -> Parcels \cup {None}]
    /\ Padded \in [Parcels -> Parcels]
    /\ \A p \in Parcels : /\ Formatted[p] # None => Formatted[p] \in Canonical
                          /\ Formatted[Padded[p]] = Formatted[p]

VARIABLES
    row,    \* row[s]: life-cycle columns of survey s
    ident,  \* ident[s]: identity columns of survey s
    open,   \* open[s]: survey s has QC remarks with resolvedAt null
    req,    \* req[r]: the handler in slot r and what it read
    plan    \* plan[r]: the identity columns it is going to write

vars == <<row, ident, open, req, plan>>

-----------------------------------------------------------------------------
(* Property IDs and wards                                                   *)

TempRestore(s) == <<"TEMP-RESTORE", s>>          \* allocateTempPropertyId
TempSwap(s) == <<"TEMP-SWAP", s>>

Pids == FormulaPids \cup ClientPids \cup {None}
        \cup {TempRestore(s) : s \in Surveys} \cup {TempSwap(s) : s \in Surveys}

IsNewPropertyIdFormat(pid) == pid \in FormulaPids

\* A Property ID is not NULL, and no client sends one that the server draws.
ASSUME PidAssumption ==
    /\ None \notin FormulaPids \cup {TempSwap(s) : s \in Surveys}
    /\ \A s \in Surveys : {TempSwap(s), TempRestore(s)} \cap (ClientPids \cup FormulaPids) = {}

\* The ward number that belongs in a Property ID: Zero Ward's own never does.
ResolvePropertyWardNumber(ward, orig, stored) ==
    IF ward # ZeroWard THEN ward
    ELSE IF orig # None THEN orig
    ELSE IF stored # ZeroWard THEN stored ELSE None

\* The two derivations of a Property ID, None when a part is missing: the lenient one
\* cuts and pads what it is given, the one of update rejects what is not canonical.
FormatPropertyId(ulb, wardNo, parcel) ==
    IF wardNo = None \/ parcel = None THEN None
    ELSE IF Formatted[parcel] = None THEN None
    ELSE PropertyId(ulb, wardNo, Formatted[parcel])

CanonicalFieldPropertyId(ulb, wardNo, parcel) ==
    IF parcel \in Canonical THEN FormatPropertyId(ulb, wardNo, parcel) ELSE None

Identity == [pid : Pids, parcel : Parcels \cup {None}, ulb : UlbCodes \cup {None},
             ward : Wards \cup {ZeroWard, None}, wardNo : Wards \cup {ZeroWard, None},
             orig : Wards \cup {None}, year : Years \cup {None}]
Columns == {"pid", "parcel", "ulb", "ward", "wardNo", "orig", "year"}

NoIdentity == [pid |-> None, parcel |-> None, ulb |-> None, ward |-> None,
               wardNo |-> None, orig |-> None, year |-> None]

\* survey.ulbCode || ulb.code
StoredUlbCode(i) == IF i.ulb # None THEN i.ulb ELSE UlbCode

Or(d, c, old) == IF c \in DOMAIN d THEN d[c] ELSE old

\* A row after an UPDATE that sets only the columns in the domain of d.
Written(old, d) ==
    [pid |-> Or(d, "pid", old.pid), parcel |-> Or(d, "parcel", old.parcel),
     ulb |-> Or(d, "ulb", old.ulb), ward |-> Or(d, "ward", old.ward),
     wardNo |-> Or(d, "wardNo", old.wardNo), orig |-> Or(d, "orig", old.orig),
     year |-> Or(d, "year", old.year)]

NoData == [c \in {} |-> None]
Data(cols, v) == [c \in cols |-> v[c]]
Patched(patch, c, old) == IF patch[c] = Keep THEN old ELSE patch[c]

-----------------------------------------------------------------------------
(* Rows                                                                     *)

Active(s) == row[s].status # "ABSENT" /\ ~row[s].deleted      \* findById finds it

\* findActiveSurveyIdentityConflict
Conflicts(pid, year, s) ==
    {t \in Surveys \ {s} : Active(t) /\ ident[t].pid = pid /\ ident[t].year = year}

\* The partial unique index on (ulbId, propertyId, assessmentYear) where
\* deletedAt is null, which a statement that leaves rows rw and idn must satisfy.
IndexAccepts(rw, idn) ==
    \A s, t \in Surveys :
        /\ s # t
        /\ rw[s].status # "ABSENT" /\ ~rw[s].deleted
        /\ rw[t].status # "ABSENT" /\ ~rw[t].deleted
        => <<idn[s].pid, idn[s].year>> # <<idn[t].pid, idn[t].year>>

-----------------------------------------------------------------------------
(* Requests                                                                 *)

NoRequest == [pc |-> "idle", op |-> None, id |-> None, from |-> None, arg |-> None]
NoPlan == [data |-> NoData, peer |-> None, theirs |-> NoData]

\* The read that starts a handler: `from` is the status it saw.
Begin(r, op, s, arg) ==
    /\ req[r] = NoRequest /\ op \in Ops
    /\ req' = [req EXCEPT ![r] = [pc |-> "commit", op |-> op, id |-> s,
                                  from |-> row[s].status, arg |-> arg]]

Plan(r, data, peer, theirs) ==
    plan' = [plan EXCEPT ![r] = [data |-> data, peer |-> peer, theirs |-> theirs]]

Committing(r, op) == req[r].pc = "commit" /\ req[r].op = op

Reply(r) ==
    /\ req' = [req EXCEPT ![r] = NoRequest]
    /\ plan' = [plan EXCEPT ![r] = NoPlan]

\* A refused transaction (unique conflict, status no longer the expected one) or
\* a process that dies before it commits: nothing of the transaction remains.
Abandon(r) ==
    /\ req[r].pc # "idle"
    /\ Reply(r)
    /\ UNCHANGED <<row, ident, open>>

\* Mutant of TransitionStatus: the update is by id, without the status it read.
TransitionById(r, from, to, qc, remarks) ==
    LET s == req[r].id IN
    /\ Active(s)
    /\ row' = [row EXCEPT ![s].status = to, ![s].qc = qc]
    /\ open' = [open EXCEPT ![s] = remarks]
    /\ Reply(r)
    /\ UNCHANGED ident

\* transitionStatus: compare-and-set on (id, not deleted, status), with the QC
\* remarks in the same transaction.
TransitionStatus(r, from, to, qc, remarks) ==
    LET s == req[r].id IN
    /\ Active(s) /\ row[s].status = from
    /\ row' = [row EXCEPT ![s].status = to, ![s].qc = qc]
    /\ open' = [open EXCEPT ![s] = remarks]
    /\ Reply(r)
    /\ UNCHANGED ident

-----------------------------------------------------------------------------
RowType == [status : Statuses \cup {"ABSENT"}, qc : QcStatuses, deleted : BOOLEAN,
            creator : Users \cup {None}, assignee : Users \cup {None},
            complete : BOOLEAN]

RequestType == [pc : {"idle", "commit", "promote"}, op : OpNames \cup {None},
                id : Surveys \cup {None}, from : Statuses \cup {None},
                arg : Users \cup BOOLEAN \cup {None}]

DataOK(d) ==
    /\ DOMAIN d \subseteq Columns
    /\ "pid" \in DOMAIN d => d["pid"] \in Pids
    /\ "parcel" \in DOMAIN d => d["parcel"] \in Parcels \cup {None}
    /\ "ward" \in DOMAIN d => d["ward"] \in Wards \cup {ZeroWard, None}
    /\ "ulb" \in DOMAIN d => d["ulb"] \in UlbCodes \cup {None}
    /\ "wardNo" \in DOMAIN d => d["wardNo"] \in Wards \cup {ZeroWard, None}
    /\ "orig" \in DOMAIN d => d["orig"] \in Wards \cup {None}
    /\ "year" \in DOMAIN d => d["year"] \in Years \cup {None}

\* Type invariant: the tables and the requests in flight are well formed; a
\* request that is not idle names a survey that exists, and only one that exists
\* was ever deleted.
TypeOK ==
    /\ row \in [Surveys -> RowType]
    /\ \A s \in Surveys : row[s].status = "ABSENT" => ~row[s].deleted
    /\ ident \in [Surveys -> Identity]
    /\ open \in [Surveys -> BOOLEAN]
    /\ req \in [Requests -> RequestType]
    /\ DOMAIN plan = Requests
    /\ \A r \in Requests :
        /\ req[r].pc # "idle" => req[r].id \in Surveys /\ row[req[r].id].status # "ABSENT"
        /\ DataOK(plan[r].data) /\ DataOK(plan[r].theirs)
        /\ plan[r].peer \in Surveys \cup {None}
=============================================================================
