------------------------ MODULE SurveyPlatformProofs ------------------------
(***************************************************************************)
(* Theorems about SurveyPlatform for every set of surveys, users, requests *)
(* and identities: IInv is inductive, so every state satisfies it, and the *)
(* handlers implement SurveyWorkflow.                                      *)
(***************************************************************************)
EXTENDS SurveyPlatform, TLAPS

-----------------------------------------------------------------------------
(* Data: what the plans write has the types of the columns.                 *)

LEMMA WrittenType ==
    ASSUME NEW old \in Identity, NEW d, DataOK(d)
    PROVE  Written(old, d) \in Identity
BY DEF Identity, DataOK, Written, Or

LEMMA PidsType == /\ None \in Pids
                  /\ \A u \in UlbCodes, w \in Wards, p \in Canonical :
                       PropertyId(u, w, p) \in Pids
                  /\ \A s \in Surveys : TempRestore(s) \in Pids /\ TempSwap(s) \in Pids
BY DEF Pids, FormulaPids

LEMMA RekeyType ==
    ASSUME NEW idn \in [Surveys -> Identity], NEW s \in Surveys, NEW pid \in Pids
    PROVE  [idn EXCEPT ![s].pid = pid] \in [Surveys -> Identity]
<1>1. [idn[s] EXCEPT !.pid = pid] \in Identity
    BY DEF Identity
<1> QED BY <1>1

LEMMA DerivedType ==
    ASSUME NEW u \in UlbCodes, NEW w \in Wards \cup {None, ZeroWard},
           NEW p \in Parcels \cup {None}, w # ZeroWard
    PROVE  /\ FormatPropertyId(u, w, p) \in Pids
           /\ CanonicalFieldPropertyId(u, w, p) \in Pids
<1>1. FormatPropertyId(u, w, p) \in Pids
    <2>1. CASE w = None \/ p = None
        BY <2>1, PidsType DEF FormatPropertyId
    <2>2. CASE w # None /\ p # None
        <3>1. p \in Parcels /\ w \in Wards
            BY <2>2
        <3>2. Formatted[p] # None => Formatted[p] \in Canonical
            BY <3>1, ParcelAssumption
        <3>3. Formatted[p] # None => PropertyId(u, w, Formatted[p]) \in Pids
            BY <3>1, <3>2, PidsType
        <3> QED BY <2>2, <3>3, PidsType DEF FormatPropertyId
    <2> QED BY <2>1, <2>2
<1> QED BY <1>1, PidsType DEF CanonicalFieldPropertyId

LEMMA StoredUlbType ==
    ASSUME NEW old \in Identity
    PROVE  StoredUlbCode(old) \in UlbCodes
BY ParcelAssumption DEF StoredUlbCode, Identity

LEMMA ResolvedType ==
    ASSUME NEW w \in Wards \cup {ZeroWard, None}, NEW o \in Wards \cup {None},
           NEW n \in Wards \cup {ZeroWard, None}
    PROVE  /\ ResolvePropertyWardNumber(w, o, n) \in Wards \cup {None}
           /\ ResolvePropertyWardNumber(w, o, n) # ZeroWard
BY SentinelAssumption DEF ResolvePropertyWardNumber

LEMMA DataType ==
    ASSUME NEW cols \in SUBSET Columns, NEW v,
           "pid" \in cols => v["pid"] \in Pids,
           "parcel" \in cols => v["parcel"] \in Parcels \cup {None},
           "ward" \in cols => v["ward"] \in Wards \cup {ZeroWard, None},
           "ulb" \in cols => v["ulb"] \in UlbCodes \cup {None},
           "wardNo" \in cols => v["wardNo"] \in Wards \cup {ZeroWard, None},
           "orig" \in cols => v["orig"] \in Wards \cup {None},
           "year" \in cols => v["year"] \in Years \cup {None}
    PROVE  DataOK(Data(cols, v)) /\ DOMAIN Data(cols, v) = cols
BY DEF DataOK, Data

LEMMA NoDataType == DataOK(NoData)
BY DEF DataOK, NoData

LEMMA UpdatePlanType ==
    ASSUME NEW old \in Identity, NEW patch \in Patches
    PROVE  DataOK(UpdatePlan(old, patch))
<1> DEFINE ward == Patched(patch, "ward", old.ward)
           wardNo == ResolvePropertyWardNumber(ward, old.orig, old.wardNo)
           parcel == Patched(patch, "parcel", old.parcel)
           derived == CanonicalFieldPropertyId(StoredUlbCode(old), wardNo, parcel)
           year == Patched(patch, "year", old.year)
           geographic == patch.ward \in Wards
           number == IF geographic THEN ward ELSE patch.wardNo
           v == [pid |-> derived, parcel |-> parcel, ulb |-> patch.ulb, ward |-> ward,
                 wardNo |-> number, year |-> year]
           cols == {c \in {"ward", "wardNo", "ulb", "parcel", "year"} : patch[c] # Keep}
                   \cup (IF derived # None THEN {"pid"} ELSE {})
                   \cup (IF geographic THEN {"wardNo"} ELSE {})
<1>1. patch \in PatchDto
    BY InputAssumption
<1>2. /\ ward \in Wards \cup {ZeroWard, None}
      /\ parcel \in Parcels \cup {None}
      /\ year \in Years \cup {None}
    BY <1>1 DEF PatchDto, Identity, Patched
<1>3. wardNo \in Wards \cup {None} /\ wardNo # ZeroWard
    <2> HIDE DEF ward
    <2> QED BY <1>2, ResolvedType DEF Identity
<1>4. derived \in Pids
    <2> HIDE DEF wardNo, parcel
    <2> QED BY <1>2, <1>3, DerivedType, StoredUlbType
<1>5. /\ "wardNo" \in cols => number \in Wards \cup {ZeroWard}
      /\ "ulb" \in cols => patch.ulb \in UlbCodes
    BY <1>1, SentinelAssumption DEF Patched, PatchDto
<1>6. cols \in SUBSET Columns
    BY DEF Columns
<1>7. DataOK(Data(cols, v))
    <2> HIDE DEF ward, wardNo, parcel, derived, year, number
    <2>1. /\ v["pid"] = derived /\ v["parcel"] = parcel /\ v["ward"] = ward
          /\ v["ulb"] = patch.ulb /\ v["wardNo"] = number /\ v["year"] = year
        OBVIOUS
    <2>2. "orig" \notin cols
        OBVIOUS
    <2> HIDE DEF v, cols
    <2> QED BY <1>2, <1>4, <1>5, <1>6, <2>1, <2>2, DataType
<1> QED BY <1>7 DEF UpdatePlan

LEMMA CorrectPlanType ==
    ASSUME NEW old \in Identity, NEW patch \in Patches
    PROVE  DataOK(CorrectPlan(old, patch))
<1> DEFINE ward == Patched(patch, "ward", old.ward)
           toZero == ward = ZeroWard
           resolved == ResolvePropertyWardNumber(old.ward, old.orig, old.wardNo)
           wardNo == IF patch.ward \in Wards THEN patch.ward ELSE resolved
           parcel == Patched(patch, "parcel", old.parcel)
           stored == IF parcel \in Parcels THEN Padded[parcel] ELSE parcel
           derived == FormatPropertyId(UlbCode, wardNo, parcel)
           pid == IF toZero \/ derived = None THEN old.pid ELSE derived
           geo == patch.ward # Keep
           year == Patched(patch, "year", old.year)
           v == [pid |-> pid, parcel |-> stored, ulb |-> UlbCode, ward |-> ward,
                 wardNo |-> wardNo, orig |-> old.ward, year |-> year]
           cols == {c \in {"ward", "parcel", "year"} : patch[c] # Keep}
                   \cup (IF pid # old.pid THEN {"pid"} ELSE {})
                   \cup (IF geo /\ toZero /\ old.orig = None /\ old.ward # ZeroWard
                         THEN {"orig"} ELSE {})
                   \cup (IF ~toZero /\ (geo \/ wardNo # old.wardNo)
                         THEN {"wardNo"} ELSE {})
                   \cup (IF geo \/ old.ulb # UlbCode THEN {"ulb"} ELSE {})
<1>1. patch \in PatchDto
    BY InputAssumption
<1>2. /\ ward \in Wards \cup {ZeroWard, None}
      /\ parcel \in Parcels \cup {None}
      /\ year \in Years \cup {None}
    BY <1>1 DEF PatchDto, Identity, Patched
<1>2a. stored \in Parcels \cup {None}
    <2> HIDE DEF parcel
    <2> QED BY <1>2, ParcelAssumption
<1>3. resolved \in Wards \cup {None}
    BY ResolvedType DEF Identity
<1>4. wardNo \in Wards \cup {None} /\ wardNo # ZeroWard
    <2> HIDE DEF resolved
    <2> QED BY <1>3, SentinelAssumption
<1>5. pid \in Pids
    <2>1. derived \in Pids
        <3> HIDE DEF wardNo, parcel
        <3> QED BY <1>2, <1>4, DerivedType, ParcelAssumption
    <2> HIDE DEF derived, toZero
    <2> QED BY <2>1 DEF Identity
<1>6. cols \in SUBSET Columns
    BY DEF Columns
<1>7. "orig" \in cols => old.ward \in Wards \cup {None}
    BY DEF Identity
<1>8. DataOK(Data(cols, v))
    <2> HIDE DEF ward, wardNo, stored, pid, year
    <2>1. /\ v["pid"] = pid /\ v["parcel"] = stored /\ v["ulb"] = UlbCode
          /\ v["ward"] = ward /\ v["wardNo"] = wardNo /\ v["orig"] = old.ward
          /\ v["year"] = year
        OBVIOUS
    <2> HIDE DEF v, cols
    <2> QED BY <1>2, <1>2a, <1>4, <1>5, <1>6, <1>7, <2>1, DataType, ParcelAssumption
<1> QED BY <1>8 DEF CorrectPlan

LEMMA SwappedType ==
    ASSUME NEW old \in Identity
    PROVE  DataOK(Data(SwappedColumns, old))
<1>1. SwappedColumns \in SUBSET Columns /\ "orig" \notin SwappedColumns
    BY DEF SwappedColumns, Columns
<1>2. /\ old["pid"] \in Pids /\ old["parcel"] \in Parcels \cup {None}
      /\ old["ulb"] \in UlbCodes \cup {None}
      /\ old["ward"] \in Wards \cup {ZeroWard, None}
      /\ old["wardNo"] \in Wards \cup {ZeroWard, None} /\ old["year"] \in Years \cup {None}
    BY DEF Identity
<1> QED BY <1>1, <1>2, DataType

LEMMA QuarantinePlanType ==
    ASSUME NEW old \in Identity, old.ward # ZeroWard
    PROVE  /\ DataOK(QuarantinePlan(old))
           /\ {"pid", "year"} \cap DOMAIN QuarantinePlan(old) = {}
BY DEF Identity, DataOK, QuarantinePlan, Columns

LEMMA EnsurePlanType ==
    ASSUME NEW old \in Identity,
           NEW wardNo, wardNo = ResolvePropertyWardNumber(old.ward, old.orig, old.wardNo),
           NEW d, d = FormatPropertyId(StoredUlbCode(old), wardNo, old.parcel)
    PROVE  DataOK([pid |-> d])
<1>1. wardNo \in Wards \cup {None} /\ wardNo # ZeroWard
    BY ResolvedType DEF Identity
<1>2. StoredUlbCode(old) \in UlbCodes /\ old.parcel \in Parcels \cup {None}
    BY StoredUlbType DEF Identity
<1>3. d \in Pids
    BY <1>1, <1>2, DerivedType
<1> QED BY <1>3 DEF DataOK, Columns

LEMMA RestorePlanType ==
    ASSUME NEW old \in Identity
    PROVE  DataOK(Data({"pid", "year"}, old))
<1>1. {"pid", "year"} \in SUBSET Columns
    BY DEF Columns
<1>2. old["pid"] \in Pids /\ old["year"] \in Years \cup {None}
    BY DEF Identity
<1> QED BY <1>1, <1>2, DataType

-----------------------------------------------------------------------------
(* Requests: a handler that begins or ends leaves the requests well formed. *)

\* What TypeOK and Pending say of the request tables.
RequestsOK ==
    /\ req \in [Requests -> RequestType]
    /\ DOMAIN plan = Requests
    /\ \A r \in Requests :
        /\ req[r].pc # "idle" => req[r].id \in Surveys /\ row[req[r].id].status # "ABSENT"
        /\ DataOK(plan[r].data) /\ DataOK(plan[r].theirs)
        /\ plan[r].peer \in Surveys \cup {None}
        /\ PendingOK(req[r], plan[r])

\* No survey ceases to exist.
KeepsRows == \A s \in Surveys : row[s].status # "ABSENT" => row'[s].status # "ABSENT"

LEMMA IdleType ==
    /\ NoRequest \in RequestType /\ NoRequest.pc = "idle"
    /\ DataOK(NoPlan.data) /\ DataOK(NoPlan.theirs) /\ NoPlan.peer = None
    /\ PendingOK(NoRequest, NoPlan)
<1>1. NoRequest \in RequestType /\ NoRequest.pc = "idle"
    BY DEF NoRequest, RequestType
<1>2. DataOK(NoPlan.data) /\ DataOK(NoPlan.theirs) /\ NoPlan.peer = None
    BY NoDataType DEF NoPlan
<1>3. PendingOK(NoRequest, NoPlan)
    BY SentinelAssumption DEF PendingOK, NoRequest, OpNames
<1> QED BY <1>1, <1>2, <1>3

LEMMA UnchangedRequests ==
    ASSUME RequestsOK, KeepsRows, UNCHANGED <<req, plan>>
    PROVE  RequestsOK'
BY DEF RequestsOK, KeepsRows

LEMMA ReplyRequests ==
    ASSUME NEW r \in Requests, RequestsOK, KeepsRows, Reply(r)
    PROVE  RequestsOK'
<1>1. req' \in [Requests -> RequestType] /\ DOMAIN plan' = Requests
    BY IdleType DEF RequestsOK, Reply
<1>2. ASSUME NEW q \in Requests
      PROVE  /\ req'[q].pc # "idle" => req'[q].id \in Surveys
                                       /\ row'[req'[q].id].status # "ABSENT"
             /\ DataOK(plan'[q].data) /\ DataOK(plan'[q].theirs)
             /\ plan'[q].peer \in Surveys \cup {None}
             /\ PendingOK(req'[q], plan'[q])
    <2>1. CASE q = r
        <3>1. req'[q] = NoRequest /\ plan'[q] = NoPlan
            BY <2>1 DEF RequestsOK, Reply
        <3> QED BY <3>1, IdleType
    <2>2. CASE q # r
        <3>1. req'[q] = req[q] /\ plan'[q] = plan[q]
            BY <2>2 DEF RequestsOK, Reply
        <3> QED BY <3>1 DEF RequestsOK, KeepsRows
    <2> QED BY <2>1, <2>2
<1> QED BY <1>1, <1>2 DEF RequestsOK

LEMMA BeginRequests ==
    ASSUME NEW r \in Requests, NEW op \in OpNames, NEW s \in Surveys,
           NEW arg \in Users \cup BOOLEAN \cup {None},
           TypeOK, RequestsOK, Begin(r, op, s, arg), row[s].status # "ABSENT",
           KeepsRows,
           op = "submit" => row[s].status \in Editable,
           op = "assign" => arg \in Users,
           op = "child" => arg \in BOOLEAN,
           op = "quarantine" => {"pid", "year"} \cap DOMAIN plan'[r].data = {},
           \/ plan' = plan
           \/ \E data, peer, theirs :
                /\ Plan(r, data, peer, theirs)
                /\ DataOK(data) /\ DataOK(theirs) /\ peer \in Surveys \cup {None}
    PROVE  RequestsOK'
<1> DEFINE new == [pc |-> "commit", op |-> op, id |-> s, from |-> row[s].status,
                   arg |-> arg]
<1>1. row[s].status \in Statuses
    BY DEF TypeOK, RowType
<1>2. new \in RequestType
    BY <1>1 DEF RequestType
<1>3. req' = [req EXCEPT ![r] = new]
    BY DEF Begin
<1>4. req' \in [Requests -> RequestType]
    BY <1>2, <1>3 DEF RequestsOK
<1>5. DOMAIN plan' = Requests /\ \A q \in Requests \ {r} : plan'[q] = plan[q]
    BY DEF RequestsOK, Plan
<1>6. DataOK(plan'[r].data) /\ DataOK(plan'[r].theirs) /\ plan'[r].peer \in Surveys \cup {None}
    <2>1. CASE plan' = plan
        BY <2>1 DEF RequestsOK
    <2>2. CASE \E data, peer, theirs :
                /\ Plan(r, data, peer, theirs)
                /\ DataOK(data) /\ DataOK(theirs) /\ peer \in Surveys \cup {None}
        <3>1. PICK data, peer, theirs :
                /\ Plan(r, data, peer, theirs)
                /\ DataOK(data) /\ DataOK(theirs) /\ peer \in Surveys \cup {None}
            BY <2>2
        <3>2. plan'[r] = [data |-> data, peer |-> peer, theirs |-> theirs]
            BY <3>1 DEF Plan, RequestsOK
        <3>3. plan'[r].data = data /\ plan'[r].peer = peer /\ plan'[r].theirs = theirs
            BY <3>2
        <3> QED BY <3>1, <3>3
    <2> QED BY <2>1, <2>2
<1>7. PendingOK(req'[r], plan'[r])
    <2>1. req'[r] = new
        BY <1>3 DEF RequestsOK
    <2> QED BY <2>1 DEF PendingOK
<1>8. ASSUME NEW q \in Requests
      PROVE  /\ req'[q].pc # "idle" => req'[q].id \in Surveys
                                       /\ row'[req'[q].id].status # "ABSENT"
             /\ DataOK(plan'[q].data) /\ DataOK(plan'[q].theirs)
             /\ plan'[q].peer \in Surveys \cup {None}
             /\ PendingOK(req'[q], plan'[q])
    <2>1. CASE q = r
        <3>1. req'[q] = new
            BY <2>1, <1>3 DEF RequestsOK
        <3>2. req'[q].id = s
            BY <3>1
        <3> QED BY <2>1, <3>2, <1>6, <1>7 DEF KeepsRows
    <2>2. CASE q # r
        <3>1. req'[q] = req[q] /\ plan'[q] = plan[q]
            BY <2>2, <1>3, <1>5 DEF RequestsOK
        <3> QED BY <3>1 DEF RequestsOK, KeepsRows
    <2> QED BY <2>1, <2>2
<1> QED BY <1>4, <1>5, <1>8 DEF RequestsOK

-----------------------------------------------------------------------------
(* Tables: how each kind of statement preserves the invariant.              *)

NoGhost == \A s \in Surveys : row[s].status = "ABSENT" => ~row[s].deleted

LEMMA TypeSplit == (TypeOK /\ Pending) <=> /\ row \in [Surveys -> RowType]
                                           /\ NoGhost
                                           /\ ident \in [Surveys -> Identity]
                                           /\ open \in [Surveys -> BOOLEAN]
                                           /\ RequestsOK
BY DEF TypeOK, Pending, RequestsOK, NoGhost

LEMMA TypeSplitNext == (TypeOK /\ Pending)' <=> /\ row' \in [Surveys -> RowType]
                                                /\ NoGhost'
                                                /\ ident' \in [Surveys -> Identity]
                                                /\ open' \in [Surveys -> BOOLEAN]
                                                /\ RequestsOK'
BY DEF TypeOK, Pending, RequestsOK, NoGhost

\* A row of any table is changed without touching its life cycle.
LEMMA SameStage ==
    ASSUME IInv, UNCHANGED open, RequestsOK',
           row' \in [Surveys -> RowType], ident' \in [Surveys -> Identity], NoGhost',
           \A s \in Surveys : row'[s].status = row[s].status /\ row'[s].qc = row[s].qc,
           UniqueActiveIdentity'
    PROVE  IInv'
<1>1. (TypeOK /\ Pending)'
    BY TypeSplitNext DEF IInv, TypeOK
<1>2. StatusQcCoherent'
    BY DEF IInv, StatusQcCoherent
<1>3. OpenRemarksOnlyWhileReturned'
    BY DEF IInv, OpenRemarksOnlyWhileReturned
<1> QED BY <1>1, <1>2, <1>3 DEF IInv

LEMMA IndexUnique ==
    ASSUME IndexAccepts(row', ident')
    PROVE  UniqueActiveIdentity'
BY DEF IndexAccepts, UniqueActiveIdentity, Active

LEMMA QuietStep ==
    ASSUME IInv, UNCHANGED <<row, ident, open>>, RequestsOK'
    PROVE  IInv'
<1>1. UniqueActiveIdentity'
    BY DEF IInv, UniqueActiveIdentity, Active
<1> QED BY <1>1, SameStage DEF IInv, TypeOK, NoGhost

LEMMA TransitionStep ==
    ASSUME IInv, NEW r \in Requests, req[r].pc # "idle",
           NEW from, NEW to \in Statuses, NEW qc, NEW remarks \in BOOLEAN,
           qc = VerdictOf(to), remarks => to \in {"REJECTED", "REOPENED"},
           TransitionStatus(r, from, to, qc, remarks)
    PROVE  IInv'
<1> DEFINE s == req[r].id
<1>1. s \in Surveys
    BY DEF IInv, TypeOK
<1>2. /\ row' = [row EXCEPT ![s].status = to, ![s].qc = qc]
      /\ open' = [open EXCEPT ![s] = remarks]
      /\ ident' = ident /\ Reply(r)
    BY DEF TransitionStatus
<1>3. /\ \A t \in Surveys \ {s} : row'[t] = row[t] /\ open'[t] = open[t]
      /\ row'[s].status = to /\ row'[s].qc = qc /\ row'[s].deleted = row[s].deleted
      /\ open'[s] = remarks
    BY <1>1, <1>2 DEF IInv, TypeOK, RowType
<1>4. KeepsRows
    BY <1>3 DEF KeepsRows, Statuses
<1>5. RequestsOK'
    BY <1>2, <1>4, ReplyRequests, TypeSplit DEF IInv
<1>6. (TypeOK /\ Pending)'
    <2>1. qc \in QcStatuses
        BY DEF VerdictOf, QcStatuses
    <2>2. row' \in [Surveys -> RowType]
        <3>1. row \in [Surveys -> RowType] /\ row[s] \in RowType
            BY <1>1 DEF IInv, TypeOK
        <3>2. PICK new : new = [row[s] EXCEPT !.status = to, !.qc = qc]
            OBVIOUS
        <3>3. new \in RowType
            BY <2>1, <3>1, <3>2 DEF RowType
        <3>4. row' = [row EXCEPT ![s] = new]
            BY <1>2, <3>2
        <3> QED BY <3>1, <3>3, <3>4
    <2>3. open' \in [Surveys -> BOOLEAN]
        BY <1>1, <1>2 DEF IInv, TypeOK
    <2>4. NoGhost'
        BY <1>3 DEF Statuses, NoGhost, IInv, TypeOK
    <2> QED BY <1>2, <1>5, <2>2, <2>3, <2>4, TypeSplitNext DEF IInv, TypeOK
<1>7. StatusQcCoherent'
    BY <1>3 DEF IInv, StatusQcCoherent
<1>8. OpenRemarksOnlyWhileReturned'
    BY <1>3 DEF IInv, OpenRemarksOnlyWhileReturned
<1>9. UniqueActiveIdentity'
    <2>1. row[s].status # "ABSENT"
        BY <1>1 DEF TransitionStatus, Active
    <2>2. \A t \in Surveys : Active(t)' => Active(t)
        BY <1>3, <2>1 DEF Active
    <2> QED BY <1>2, <2>2 DEF IInv, UniqueActiveIdentity
<1> QED BY <1>6, <1>7, <1>8, <1>9 DEF IInv

LEMMA IdentityStep ==
    ASSUME IInv, ident' \in [Surveys -> Identity], UNCHANGED <<row, open>>, RequestsOK',
           IndexAccepts(row, ident')
    PROVE  IInv'
<1>1. UniqueActiveIdentity'
    BY IndexUnique
<1> QED BY <1>1, SameStage DEF IInv, TypeOK, NoGhost

-----------------------------------------------------------------------------
(* Every handler begins without disturbing the invariant.                   *)

LEMMA PlainBegin ==
    ASSUME IInv, NEW r \in Requests, NEW s \in Surveys,
           NEW op \in OpNames \ {"quarantine"},
           NEW arg \in Users \cup BOOLEAN \cup {None},
           Active(s), Begin(r, op, s, arg), UNCHANGED <<row, ident, open, plan>>,
           op = "submit" => row[s].status \in Editable,
           op = "assign" => arg \in Users,
           op = "child" => arg \in BOOLEAN
    PROVE  IInv'
<1>1. KeepsRows /\ row[s].status # "ABSENT"
    BY DEF KeepsRows, Active
<1>2. RequestsOK'
    BY <1>1, TypeSplit, BeginRequests DEF IInv
<1> QED BY <1>2, QuietStep

LEMMA PlannedBegin ==
    ASSUME IInv, NEW r \in Requests, NEW s \in Surveys,
           NEW op \in OpNames \ {"submit", "assign", "child"},
           NEW data, NEW theirs, NEW peer \in Surveys \cup {None},
           row[s].status # "ABSENT", Begin(r, op, s, None), UNCHANGED <<row, ident, open>>,
           Plan(r, data, peer, theirs), DataOK(data), DataOK(theirs),
           op = "quarantine" => {"pid", "year"} \cap DOMAIN data = {}
    PROVE  IInv'
<1>1. KeepsRows
    BY DEF KeepsRows
<1>2. op = "quarantine" => {"pid", "year"} \cap DOMAIN plan'[r].data = {}
    <2>1. plan'[r] = [data |-> data, peer |-> peer, theirs |-> theirs]
        BY DEF Plan, IInv, TypeOK
    <2> QED BY <2>1
<1>3. \E d, t, th : Plan(r, d, t, th) /\ DataOK(d) /\ DataOK(th) /\ t \in Surveys \cup {None}
    OBVIOUS
<1>4. RequestsOK'
    BY <1>1, <1>2, <1>3, TypeSplit, BeginRequests DEF IInv
<1> QED BY <1>4, QuietStep

LEMMA EnsureBegin ==
    ASSUME IInv, NEW r \in Requests, NEW s \in Surveys, BeginEnsure(r, s)
    PROVE  IInv'
<1> DEFINE wardNo == ResolvePropertyWardNumber(ident[s].ward, ident[s].orig,
                                               ident[s].wardNo)
           d == FormatPropertyId(StoredUlbCode(ident[s]), wardNo, ident[s].parcel)
<1>1. ident[s] \in Identity /\ "ensure" \in OpNames
    BY DEF IInv, TypeOK, OpNames
<1>2. DataOK([pid |-> d]) /\ DataOK(NoData)
    BY <1>1, EnsurePlanType, NoDataType
<1>3. /\ row[s].status # "ABSENT" /\ Begin(r, "ensure", s, None)
      /\ Plan(r, [pid |-> d], None, NoData) /\ UNCHANGED <<row, ident, open>>
    BY DEF BeginEnsure, Active
<1> HIDE DEF d
<1> QED BY <1>1, <1>2, <1>3, PlannedBegin

\* A handler of the survey module that acts for a user reads its survey.
HandlerBegins(r, u, s) ==
    \/ \E patch \in Patches : BeginUpdate(r, u, s, patch)
    \/ BeginSubmit(r, u, s)
    \/ BeginApprove(r, u, s)
    \/ \E remarks \in BOOLEAN : BeginReject(r, u, s, remarks)
    \/ BeginReopen(r, u, s)
    \/ BeginSoftDelete(r, u, s)
    \/ BeginRestore(r, u, s)
    \/ \E to \in Users : BeginAssign(r, u, s, to)
    \/ \E complete \in ChildStates : BeginChildEdit(r, u, s, complete)

LEMMA SurveysBegin ==
    ASSUME IInv, NEW r \in Requests, NEW u \in Users, NEW s \in Surveys,
           HandlerBegins(r, u, s)
    PROVE  IInv'
<1>a. ident[s] \in Identity
    BY DEF IInv, TypeOK
<1>b. {"update", "ensure", "submit", "approve", "reject", "reopen", "delete", "restore",
       "assign", "child"} \subseteq OpNames
    BY DEF OpNames
<1>1. ASSUME NEW patch \in Patches, BeginUpdate(r, u, s, patch)
      PROVE  IInv'
    <2> DEFINE data == UpdatePlan(ident[s], patch)
    <2>1. DataOK(data) /\ DataOK(NoData)
        BY <1>a, UpdatePlanType, NoDataType
    <2>2. /\ row[s].status # "ABSENT" /\ Begin(r, "update", s, None)
          /\ Plan(r, data, None, NoData) /\ UNCHANGED <<row, ident, open>>
        BY <1>1 DEF BeginUpdate, Active
    <2> HIDE DEF data
    <2> QED BY <2>1, <2>2, <1>b, PlannedBegin
<1>2. CASE BeginSubmit(r, u, s)
    BY <1>2, <1>b, PlainBegin DEF BeginSubmit
<1>3. CASE BeginApprove(r, u, s)
    BY <1>3, <1>b, PlainBegin DEF BeginApprove
<1>4. ASSUME NEW remarks \in BOOLEAN, BeginReject(r, u, s, remarks)
      PROVE  IInv'
    BY <1>4, <1>b, PlainBegin DEF BeginReject
<1>5. CASE BeginReopen(r, u, s)
    BY <1>5, <1>b, PlainBegin DEF BeginReopen
<1>6. CASE BeginSoftDelete(r, u, s)
    BY <1>6, <1>b, PlainBegin DEF BeginSoftDelete
<1>7. ASSUME BeginRestore(r, u, s)
      PROVE  IInv'
    <2> DEFINE data == Data({"pid", "year"}, ident[s])
    <2>1. DataOK(data) /\ DataOK(NoData)
        BY <1>a, RestorePlanType, NoDataType
    <2>2. /\ row[s].status # "ABSENT" /\ Begin(r, "restore", s, None)
          /\ Plan(r, data, None, NoData) /\ UNCHANGED <<row, ident, open>>
        BY <1>7 DEF BeginRestore
    <2> HIDE DEF data
    <2> QED BY <2>1, <2>2, <1>b, PlannedBegin
<1>8. ASSUME NEW to \in Users, BeginAssign(r, u, s, to)
      PROVE  IInv'
    BY <1>8, <1>b, PlainBegin DEF BeginAssign
<1>9. ASSUME NEW complete \in ChildStates, BeginChildEdit(r, u, s, complete)
       PROVE  IInv'
    <2>1. complete \in BOOLEAN
        BY InputAssumption
    <2> QED BY <2>1, <1>9, <1>b, PlainBegin DEF BeginChildEdit
<1> QED BY <1>1, <1>2, <1>3, <1>4, <1>5, <1>6, <1>7, <1>8, <1>9 DEF HandlerBegins

LEMMA QcBegin ==
    ASSUME IInv, NEW r \in Requests, NEW u \in Users, NEW s \in Surveys,
           \/ BeginQcReopen(r, u, s)
           \/ BeginQcDelete(r, u, s)
           \/ BeginQuarantine(r, u, s)
           \/ \E patch \in Patches : BeginCorrect(r, u, s, patch)
    PROVE  IInv'
<1>a. ident[s] \in Identity
    BY DEF IInv, TypeOK
<1>b. {"qcReopen", "qcDelete", "quarantine", "correct"} \subseteq OpNames
    BY DEF OpNames
<1>1. CASE BeginQcReopen(r, u, s)
    BY <1>1, <1>b, PlainBegin DEF BeginQcReopen
<1>2. CASE BeginQcDelete(r, u, s)
    BY <1>2, <1>b, PlainBegin DEF BeginQcDelete
<1>3. CASE BeginQuarantine(r, u, s)
    <2> DEFINE data == QuarantinePlan(ident[s])
    <2>1. /\ DataOK(data) /\ DataOK(NoData)
          /\ {"pid", "year"} \cap DOMAIN data = {}
        BY <1>3, <1>a, QuarantinePlanType, NoDataType DEF BeginQuarantine
    <2>2. /\ row[s].status # "ABSENT" /\ Begin(r, "quarantine", s, None)
          /\ Plan(r, data, None, NoData) /\ UNCHANGED <<row, ident, open>>
        BY <1>3 DEF BeginQuarantine, Active
    <2> HIDE DEF data
    <2> QED BY <2>1, <2>2, <1>b, PlannedBegin
<1>4. ASSUME NEW patch \in Patches, BeginCorrect(r, u, s, patch)
      PROVE  IInv'
    <2> DEFINE data == CorrectPlan(ident[s], patch)
               theirs == Data(SwappedColumns, ident[s])
    <2>1. DataOK(data) /\ DataOK(theirs) /\ DataOK(NoData)
        BY <1>a, CorrectPlanType, SwappedType, NoDataType
    <2>2. /\ row[s].status # "ABSENT" /\ Begin(r, "correct", s, None)
          /\ UNCHANGED <<row, ident, open>>
        BY <1>4 DEF BeginCorrect, Active
    <2>3. \/ Plan(r, data, None, NoData)
          \/ \E t \in Surveys : Plan(r, data, t, theirs)
        BY <1>4 DEF BeginCorrect, Conflicts
    <2> HIDE DEF data, theirs
    <2>4. CASE Plan(r, data, None, NoData)
        BY <2>1, <2>2, <2>4, <1>b, PlannedBegin
    <2>5. ASSUME NEW t \in Surveys, Plan(r, data, t, theirs)
          PROVE  IInv'
        BY <2>1, <2>2, <2>5, <1>b, PlannedBegin
    <2> QED BY <2>3, <2>4, <2>5
<1> QED BY <1>1, <1>2, <1>3, <1>4

-----------------------------------------------------------------------------
(* Every handler ends without disturbing the invariant.                     *)

LEMMA CreateStep ==
    ASSUME IInv, NEW r \in Requests, NEW u \in Users, NEW s \in Surveys,
           NEW dto \in NewSurveys, Create(r, u, s, dto)
    PROVE  IInv'
<1> DEFINE newRow == [status |-> "DRAFT", qc |-> "PENDING", deleted |-> FALSE,
                      creator |-> u, assignee |-> u, complete |-> FALSE]
           newIdent == [pid |-> dto.pid, parcel |-> dto.parcel, ulb |-> dto.ulb,
                        ward |-> dto.ward, wardNo |-> dto.wardNo, orig |-> None,
                        year |-> dto.year]
<1>1. /\ row[s].status = "ABSENT" /\ IndexAccepts(row', ident')
      /\ row' = [row EXCEPT ![s] = newRow]
      /\ ident' = [ident EXCEPT ![s] = newIdent]
      /\ open' = open /\ req' = req /\ plan' = plan
    BY DEF Create
<1>2. newRow \in RowType /\ newRow.status = "DRAFT" /\ newRow.qc = "PENDING"
    BY DEF RowType, Statuses, QcStatuses
<1>3. newIdent \in Identity
    <2>1. dto \in CreateDto
        BY InputAssumption
    <2>2. dto.pid \in Pids
        BY <2>1 DEF CreateDto, Pids
    <2> QED BY <2>1, <2>2 DEF CreateDto, Identity
<1>4. row' \in [Surveys -> RowType] /\ ident' \in [Surveys -> Identity]
    BY <1>1, <1>2, <1>3 DEF IInv, TypeOK
<1>5. row'[s] = newRow /\ \A t \in Surveys \ {s} : row'[t] = row[t]
    BY <1>1 DEF IInv, TypeOK
<1>6. KeepsRows
    BY <1>2, <1>5 DEF KeepsRows
<1>7. (TypeOK /\ Pending)'
    <2>1. RequestsOK'
        BY <1>1, <1>6, UnchangedRequests, TypeSplit DEF IInv
    <2>2. NoGhost'
        BY <1>2, <1>5 DEF IInv, TypeOK, NoGhost
    <2> QED BY <1>1, <1>4, <2>1, <2>2, TypeSplitNext DEF IInv, TypeOK
<1>8. StatusQcCoherent'
    BY <1>2, <1>5 DEF IInv, StatusQcCoherent, VerdictOf
<1>9. OpenRemarksOnlyWhileReturned'
    BY <1>1, <1>5 DEF IInv, OpenRemarksOnlyWhileReturned
<1>10. UniqueActiveIdentity'
    BY <1>1, IndexUnique
<1> QED BY <1>7, <1>8, <1>9, <1>10 DEF IInv

LEMMA CommitFacts ==
    ASSUME IInv, NEW r \in Requests, req[r].pc # "idle"
    PROVE  /\ req[r].id \in Surveys /\ row[req[r].id].status # "ABSENT"
           /\ row[req[r].id] \in RowType
           /\ DataOK(plan[r].data) /\ DataOK(plan[r].theirs)
           /\ plan[r].peer \in Surveys \cup {None}
           /\ req[r] \in RequestType /\ PendingOK(req[r], plan[r])
BY DEF IInv, TypeOK, Pending

LEMMA TransitionCommits ==
    ASSUME IInv, NEW r \in Requests,
           \/ PromoteUpdate(r)
           \/ CommitSubmit(r)
           \/ CommitApprove(r)
           \/ CommitReject(r)
           \/ CommitReopen(r)
           \/ CommitQcReopen(r)
    PROVE  IInv'
<1> DEFINE s == req[r].id
<1>1. req[r].pc # "idle"
    BY DEF PromoteUpdate, CommitSubmit, CommitApprove, CommitReject, CommitReopen,
           CommitQcReopen, Committing
<1>2. s \in Surveys /\ PendingOK(req[r], plan[r])
    BY <1>1, CommitFacts
<1>3. /\ open[s] \in BOOLEAN /\ row[s].qc = VerdictOf(row[s].status)
      /\ open[s] => row[s].status \in {"REJECTED", "REOPENED"}
    BY <1>2 DEF IInv, TypeOK, StatusQcCoherent, OpenRemarksOnlyWhileReturned
<1>4. CASE PromoteUpdate(r)
    <2>1. TransitionStatus(r, "DRAFT", "IN_PROGRESS", row[s].qc, open[s])
        BY <1>4 DEF PromoteUpdate
    <2>2. row[s].status = "DRAFT"
        BY <2>1 DEF TransitionStatus
    <2> QED BY <1>1, <1>3, <2>1, <2>2, TransitionStep DEF VerdictOf, Statuses
<1>5. CASE CommitSubmit(r)
    <2> DEFINE remarks == open[s] /\ req[r].from # "REOPENED"
    <2>1. TransitionStatus(r, req[r].from, "SUBMITTED", "PENDING", remarks)
        BY <1>5 DEF CommitSubmit
    <2>2. row[s].status = req[r].from
        BY <2>1 DEF TransitionStatus
    <2>3. req[r].from \in Editable
        BY <1>2, <1>5 DEF PendingOK, CommitSubmit, Committing
    <2>4. remarks = FALSE
        BY <1>3, <2>2, <2>3 DEF Editable
    <2>5. TransitionStatus(r, req[r].from, "SUBMITTED", "PENDING", FALSE)
        BY <2>1, <2>4
    <2> QED BY <1>1, <2>5, TransitionStep DEF VerdictOf, Statuses
<1>6. CASE CommitApprove(r)
    <2>1. TransitionStatus(r, "SUBMITTED", "APPROVED", "APPROVED", open[s])
        BY <1>6 DEF CommitApprove
    <2>2. row[s].status = "SUBMITTED"
        BY <2>1 DEF TransitionStatus
    <2> QED BY <1>1, <1>3, <2>1, <2>2, TransitionStep DEF VerdictOf, Statuses
<1>7. CASE CommitReject(r)
    <2>1. TransitionStatus(r, "SUBMITTED", "REJECTED", "REJECTED",
                           open[s] \/ req[r].arg = TRUE)
        BY <1>7 DEF CommitReject
    <2> QED BY <1>1, <1>3, <2>1, TransitionStep DEF VerdictOf, Statuses
<1>8. CASE CommitReopen(r)
    <2>1. TransitionStatus(r, "REJECTED", "REOPENED", row[s].qc, open[s])
        BY <1>8 DEF CommitReopen
    <2>2. row[s].status = "REJECTED"
        BY <2>1 DEF TransitionStatus
    <2> QED BY <1>1, <1>3, <2>1, <2>2, TransitionStep DEF VerdictOf, Statuses
<1>9. CASE CommitQcReopen(r)
    <2>1. TransitionStatus(r, "APPROVED", "SUBMITTED", "PENDING", open[s])
        BY <1>9 DEF CommitQcReopen
    <2>2. row[s].status = "APPROVED"
        BY <2>1 DEF TransitionStatus
    <2> QED BY <1>1, <1>3, <2>1, <2>2, TransitionStep DEF VerdictOf, Statuses
<1> QED BY <1>4, <1>5, <1>6, <1>7, <1>8, <1>9

LEMMA RowCommits ==
    ASSUME IInv, NEW r \in Requests,
           \/ CommitDelete(r, "delete")
           \/ CommitDelete(r, "qcDelete")
           \/ CommitRestore(r)
           \/ CommitAssign(r)
           \/ CommitChildEdit(r)
    PROVE  IInv'
<1> DEFINE s == req[r].id
<1>1. req[r].pc # "idle" /\ Reply(r) /\ UNCHANGED open
    BY DEF CommitDelete, CommitRestore, CommitAssign, CommitChildEdit, Committing
<1>2. s \in Surveys /\ PendingOK(req[r], plan[r])
    BY <1>1, CommitFacts
<1>e. row[s].status # "ABSENT"
    BY <1>1, CommitFacts
<1>3. CASE CommitDelete(r, "delete") \/ CommitDelete(r, "qcDelete")
    <2>1. row' = [row EXCEPT ![s].deleted = TRUE] /\ ident' = ident
        BY <1>3 DEF CommitDelete
    <2>2. /\ row' \in [Surveys -> RowType]
          /\ \A t \in Surveys : row'[t].status = row[t].status /\ row'[t].qc = row[t].qc
          /\ \A t \in Surveys : Active(t)' => Active(t)
          /\ NoGhost'
        <3>1. row \in [Surveys -> RowType] /\ row[s] \in RowType
            BY <1>2 DEF IInv, TypeOK
        <3>2. PICK new : new = [row[s] EXCEPT !.deleted = TRUE]
            OBVIOUS
        <3>3. /\ new \in RowType /\ new.status = row[s].status /\ new.qc = row[s].qc
              /\ new.deleted = TRUE
            BY <3>1, <3>2 DEF RowType
        <3>4. row' = [row EXCEPT ![s] = new]
            BY <2>1, <3>2
        <3>5. row'[s] = new /\ \A t \in Surveys \ {s} : row'[t] = row[t]
            BY <1>2, <3>1, <3>4
        <3>6. row' \in [Surveys -> RowType]
            BY <3>1, <3>3, <3>4
        <3>7. NoGhost
            BY DEF IInv, TypeOK, NoGhost
        <3> QED BY <1>2, <1>e, <3>3, <3>5, <3>6, <3>7 DEF Active, NoGhost
    <2>3. RequestsOK'
        BY <1>1, <2>2, ReplyRequests, TypeSplit DEF IInv, KeepsRows
    <2>4. UniqueActiveIdentity'
        BY <2>1, <2>2 DEF IInv, UniqueActiveIdentity
    <2> QED BY <1>1, <2>1, <2>2, <2>3, <2>4, SameStage DEF IInv, TypeOK, NoGhost
<1>4. CASE CommitRestore(r)
    <2>1. PICK b \in BOOLEAN :
            /\ row' = [row EXCEPT ![s].deleted = FALSE]
            /\ ident' = [ident EXCEPT ![s].pid = IF b THEN TempRestore(s) ELSE @]
            /\ IndexAccepts(row', ident')
        BY <1>4 DEF CommitRestore
    <2>2. /\ row' \in [Surveys -> RowType]
          /\ \A t \in Surveys : row'[t].status = row[t].status /\ row'[t].qc = row[t].qc
          /\ NoGhost'
        <3>1. row \in [Surveys -> RowType] /\ row[s] \in RowType
            BY <1>2 DEF IInv, TypeOK
        <3>2. PICK new : new = [row[s] EXCEPT !.deleted = FALSE]
            OBVIOUS
        <3>3. /\ new \in RowType /\ new.status = row[s].status /\ new.qc = row[s].qc
              /\ new.deleted = FALSE
            BY <3>1, <3>2 DEF RowType
        <3>4. row' = [row EXCEPT ![s] = new]
            BY <2>1, <3>2
        <3>5. row'[s] = new /\ \A t \in Surveys \ {s} : row'[t] = row[t]
            BY <1>2, <3>1, <3>4
        <3>6. row' \in [Surveys -> RowType]
            BY <3>1, <3>3, <3>4
        <3>7. NoGhost
            BY DEF IInv, TypeOK, NoGhost
        <3> QED BY <1>2, <1>e, <3>3, <3>5, <3>6, <3>7 DEF Active, NoGhost
    <2>3. ident' \in [Surveys -> Identity]
        <3>1. (IF b THEN TempRestore(s) ELSE ident[s].pid) \in Pids
            BY <1>2, PidsType DEF IInv, TypeOK, Identity
        <3>2. ident' = [ident EXCEPT ![s].pid = IF b THEN TempRestore(s) ELSE ident[s].pid]
            BY <2>1
        <3> QED BY <1>2, <3>1, <3>2, RekeyType DEF IInv, TypeOK
    <2>4. RequestsOK'
        BY <1>1, <2>2, ReplyRequests, TypeSplit DEF IInv, KeepsRows
    <2> QED BY <1>1, <2>1, <2>2, <2>3, <2>4, SameStage, IndexUnique
<1>5. CASE CommitAssign(r) \/ CommitChildEdit(r)
    <2>1. /\ row' \in [Surveys -> RowType]
          /\ \A t \in Surveys : row'[t].status = row[t].status /\ row'[t].qc = row[t].qc
          /\ \A t \in Surveys : Active(t)' => Active(t)
          /\ NoGhost'
        <3>1. CASE CommitAssign(r)
            <4>1. row' = [row EXCEPT ![s].assignee = req[r].arg] /\ req[r].arg \in Users
                BY <1>2, <3>1 DEF CommitAssign, Committing, PendingOK
            <4>2. \A t \in Surveys : /\ row'[t].status = row[t].status
                                    /\ row'[t].qc = row[t].qc
                                    /\ row'[t].deleted = row[t].deleted
                BY <1>e, <4>1
            <4>3. row' \in [Surveys -> RowType]
                <5>1. [row[s] EXCEPT !.assignee = req[r].arg] \in RowType
                    BY <1>2, <4>1 DEF IInv, TypeOK, RowType
                <5>2. row' = [row EXCEPT ![s] = [row[s] EXCEPT !.assignee = req[r].arg]]
                    BY <4>1
                <5> QED BY <5>1, <5>2 DEF IInv, TypeOK
            <4> QED BY <1>2, <4>2, <4>3 DEF IInv, TypeOK, Active, NoGhost
        <3>2. CASE CommitChildEdit(r)
            <4>1. row' = [row EXCEPT ![s].complete = req[r].arg] /\ req[r].arg \in BOOLEAN
                BY <1>2, <3>2 DEF CommitChildEdit, Committing, PendingOK
            <4>2. \A t \in Surveys : /\ row'[t].status = row[t].status
                                    /\ row'[t].qc = row[t].qc
                                    /\ row'[t].deleted = row[t].deleted
                BY <1>e, <4>1
            <4>3. row' \in [Surveys -> RowType]
                <5>1. [row[s] EXCEPT !.complete = req[r].arg] \in RowType
                    <6>1. row[s] \in RowType
                        BY <1>2 DEF IInv, TypeOK
                    <6>2. CASE req[r].arg = TRUE
                        BY <6>1, <6>2 DEF RowType
                    <6>3. CASE req[r].arg = FALSE
                        BY <6>1, <6>3 DEF RowType
                    <6> QED BY <4>1, <6>2, <6>3
                <5>2. row' = [row EXCEPT ![s] = [row[s] EXCEPT !.complete = req[r].arg]]
                    BY <4>1
                <5> QED BY <5>1, <5>2 DEF IInv, TypeOK
            <4> QED BY <1>2, <4>2, <4>3 DEF IInv, TypeOK, Active, NoGhost
        <3> QED BY <1>5, <3>1, <3>2
    <2>2. ident' = ident
        BY <1>5 DEF CommitAssign, CommitChildEdit
    <2>3. RequestsOK'
        BY <1>1, <2>1, ReplyRequests, TypeSplit DEF IInv, KeepsRows
    <2>4. UniqueActiveIdentity'
        BY <2>1, <2>2 DEF IInv, UniqueActiveIdentity
    <2> QED BY <1>1, <2>1, <2>2, <2>3, <2>4, SameStage DEF IInv, TypeOK, NoGhost
<1> QED BY <1>3, <1>4, <1>5

LEMMA WrittenTable ==
    ASSUME NEW idn \in [Surveys -> Identity], NEW s \in Surveys, NEW d, DataOK(d)
    PROVE  [idn EXCEPT ![s] = Written(idn[s], d)] \in [Surveys -> Identity]
<1>1. Written(idn[s], d) \in Identity
    BY WrittenType
<1> QED BY <1>1

LEMMA IdentityCommits ==
    ASSUME IInv, NEW r \in Requests,
           \/ CommitUpdate(r)
           \/ CommitEnsure(r)
           \/ CommitQuarantine(r)
           \/ CommitCorrect(r)
    PROVE  IInv'
<1> DEFINE s == req[r].id
           p == plan[r]
<1>1. req[r].pc # "idle" /\ UNCHANGED <<row, open>>
    BY DEF CommitUpdate, CommitEnsure, CommitQuarantine, CommitCorrect, Committing
<1>2. /\ s \in Surveys /\ row[s].status # "ABSENT"
      /\ DataOK(p.data) /\ DataOK(p.theirs) /\ p.peer \in Surveys \cup {None}
      /\ req[r] \in RequestType /\ PendingOK(req[r], p)
    BY <1>1, CommitFacts
<1>3. KeepsRows
    BY <1>1 DEF KeepsRows
<1>4. Reply(r) => RequestsOK'
    BY <1>3, ReplyRequests, TypeSplit DEF IInv
<1>5. ident \in [Surveys -> Identity]
    BY DEF IInv, TypeOK
<1>6. CASE CommitUpdate(r)
    <2>1. ident' \in [Surveys -> Identity] /\ IndexAccepts(row, ident')
        BY <1>2, <1>5, <1>6, WrittenTable DEF CommitUpdate
    <2>2. RequestsOK'
        <3>1. CASE Reply(r)
            BY <1>4, <3>1
        <3>2. CASE /\ req' = [req EXCEPT ![r].pc = "promote"]
                   /\ plan' = [plan EXCEPT ![r] = NoPlan]
            <4>1. /\ req' \in [Requests -> RequestType] /\ req'[r].id = s
                  /\ req'[r].op = "update"
                BY <1>2, <1>6, <3>2
                   DEF IInv, TypeOK, RequestType, CommitUpdate, Committing
            <4>2. DOMAIN plan' = Requests /\ plan'[r] = NoPlan
                BY <3>2 DEF IInv, TypeOK
            <4>3. PendingOK(req'[r], plan'[r])
                BY <4>1 DEF PendingOK
            <4>4. \A q \in Requests \ {r} : req'[q] = req[q] /\ plan'[q] = plan[q]
                BY <3>2 DEF IInv, TypeOK
            <4>5. RequestsOK
                BY TypeSplit DEF IInv
            <4> QED BY <1>1, <1>2, <4>1, <4>2, <4>3, <4>4, <4>5, IdleType DEF RequestsOK
        <3> QED BY <1>6, <3>1, <3>2 DEF CommitUpdate
    <2> QED BY <1>1, <2>1, <2>2, IdentityStep
<1>7. CASE CommitEnsure(r)
    <2>1. ident' \in [Surveys -> Identity] /\ IndexAccepts(row, ident') /\ Reply(r)
        BY <1>2, <1>5, <1>7, WrittenTable DEF CommitEnsure
    <2> QED BY <1>1, <1>4, <2>1, IdentityStep
<1>8. CASE CommitQuarantine(r)
    <2>1. /\ ident' = [ident EXCEPT ![s] = Written(ident[s], p.data)]
          /\ Reply(r)
        BY <1>8 DEF CommitQuarantine
    <2>2. ident' \in [Surveys -> Identity]
        BY <1>2, <1>5, <2>1, WrittenTable
    <2>3. \A t \in Surveys : ident'[t].pid = ident[t].pid /\ ident'[t].year = ident[t].year
        <3>1. "pid" \notin DOMAIN p.data /\ "year" \notin DOMAIN p.data
            BY <1>2, <1>8 DEF PendingOK, CommitQuarantine, Committing
        <3>2. Written(ident[s], p.data).pid = ident[s].pid
              /\ Written(ident[s], p.data).year = ident[s].year
            BY <3>1 DEF Written, Or
        <3> QED BY <1>2, <1>5, <2>1, <3>2
    <2>4. UniqueActiveIdentity'
        BY <1>1, <2>3 DEF IInv, UniqueActiveIdentity, Active
    <2> QED BY <1>1, <1>4, <2>1, <2>2, <2>4, SameStage DEF IInv, TypeOK, NoGhost
<1>9. CASE CommitCorrect(r)
    <2> DEFINE parked == AfterPark(p, ident)
               own == AfterOwn(p, s, parked)
    <2>1. ident' = AfterSwap(p, own) /\ IndexAccepts(row, ident') /\ Reply(r)
        BY <1>9 DEF CommitCorrect, CorrectAccepted
    <2>2. parked \in [Surveys -> Identity]
        BY <1>2, <1>5, RekeyType, PidsType DEF AfterPark
    <2>3. own \in [Surveys -> Identity]
        <3> HIDE DEF parked
        <3> QED BY <1>2, <2>2, WrittenTable DEF AfterOwn
    <2>4. ident' \in [Surveys -> Identity]
        <3> HIDE DEF own
        <3> QED BY <1>2, <2>1, <2>3, WrittenTable DEF AfterSwap
    <2> QED BY <1>1, <1>4, <2>1, <2>4, IdentityStep
<1> QED BY <1>6, <1>7, <1>8, <1>9

-----------------------------------------------------------------------------
(* The invariant                                                            *)

LEMMA InitIInv == Init => IInv
<1> SUFFICES ASSUME Init PROVE IInv
    OBVIOUS
<1>1. TypeOK /\ Pending
    <2>1. row \in [Surveys -> RowType]
        BY DEF Init, RowType, QcStatuses
    <2>2. ident \in [Surveys -> Identity]
        <3>1. NoIdentity \in Identity
            BY DEF NoIdentity, Identity, Pids
        <3> QED BY <3>1 DEF Init
    <2>3. RequestsOK
        BY IdleType DEF Init, RequestsOK
    <2> QED BY <2>1, <2>2, <2>3, TypeSplit DEF Init, NoGhost
<1>2. StatusQcCoherent /\ OpenRemarksOnlyWhileReturned
    BY DEF Init, StatusQcCoherent, VerdictOf, OpenRemarksOnlyWhileReturned
<1>3. UniqueActiveIdentity
    BY DEF Init, UniqueActiveIdentity, Active
<1> QED BY <1>1, <1>2, <1>3 DEF IInv

LEMMA NextIInv == IInv /\ [Next]_vars => IInv'
<1> SUFFICES ASSUME IInv, [Next]_vars PROVE IInv'
    OBVIOUS
<1>1. CASE UNCHANGED vars
    <2>1. KeepsRows /\ UNCHANGED <<row, ident, open, req, plan>>
        BY <1>1 DEF vars, KeepsRows
    <2> QED BY <2>1, UnchangedRequests, QuietStep, TypeSplit DEF IInv
<1>2. CASE SurveysNext
    <2>1. ASSUME NEW r \in Requests, NEW u \in Users, NEW s \in Surveys,
                 NEW dto \in NewSurveys, Create(r, u, s, dto)
          PROVE  IInv'
        BY <2>1, CreateStep
    <2>2. ASSUME NEW r \in Requests, NEW s \in Surveys, BeginEnsure(r, s)
          PROVE  IInv'
        BY <2>2, EnsureBegin
    <2>3. ASSUME NEW r \in Requests, NEW u \in Users, NEW s \in Surveys,
                 HandlerBegins(r, u, s)
          PROVE  IInv'
        BY <2>3, SurveysBegin
    <2>4. ASSUME NEW r \in Requests,
                 \/ CommitUpdate(r) \/ PromoteUpdate(r) \/ CommitEnsure(r)
                 \/ CommitSubmit(r) \/ CommitApprove(r) \/ CommitReject(r)
                 \/ CommitReopen(r) \/ CommitDelete(r, "delete") \/ CommitRestore(r)
                 \/ CommitAssign(r) \/ CommitChildEdit(r)
          PROVE  IInv'
        BY <2>4, TransitionCommits, RowCommits, IdentityCommits
    <2> QED BY <1>2, <2>1, <2>2, <2>3, <2>4 DEF SurveysNext, HandlerBegins
<1>3. CASE QcNext
    BY <1>3, QcBegin, TransitionCommits, RowCommits, IdentityCommits DEF QcNext
<1>4. ASSUME NEW r \in Requests, Abandon(r)
      PROVE  IInv'
    <2>1. KeepsRows /\ Reply(r) /\ UNCHANGED <<row, ident, open>>
        BY <1>4 DEF Abandon, KeepsRows
    <2> QED BY <2>1, ReplyRequests, QuietStep, TypeSplit DEF IInv
<1> QED BY <1>1, <1>2, <1>3, <1>4 DEF Next

\* The strengthened invariant holds in every reachable state.
THEOREM InvariantHolds == Spec => []IInv
BY InitIInv, NextIInv, PTL DEF Spec

\* The tables and the requests in flight are always well formed.
THEOREM TypeCorrect == Spec => []TypeOK
<1>1. IInv => TypeOK
    BY DEF IInv
<1> QED BY <1>1, InvariantHolds, PTL

\* The QC verdict of a survey is always the one its status implies.
THEOREM QcFollowsStatus == Spec => []StatusQcCoherent
<1>1. IInv => StatusQcCoherent
    BY DEF IInv
<1> QED BY <1>1, InvariantHolds, PTL

\* Open QC remarks only ever wait on a returned survey.
THEOREM RemarksSettled == Spec => []OpenRemarksOnlyWhileReturned
<1>1. IInv => OpenRemarksOnlyWhileReturned
    BY DEF IInv
<1> QED BY <1>1, InvariantHolds, PTL

-----------------------------------------------------------------------------
(* The handlers implement the workflow.  Each commit of a transition is one *)
(* edge of it; everything else changes nothing the workflow can see.        *)

LEMMA SameView ==
    ASSUME UNCHANGED open,
           \A s \in Surveys : /\ row'[s].status = row[s].status
                              /\ row'[s].qc = row[s].qc
                              /\ row'[s].deleted = row[s].deleted
    PROVE  UNCHANGED Workflow!wvars
BY DEF Workflow!wvars

LEMMA TransitionView ==
    ASSUME IInv, NEW r \in Requests, req[r].pc # "idle",
           NEW s \in Surveys, s = req[r].id, NEW from, NEW to, NEW qc, NEW remarks,
           TransitionStatus(r, from, to, qc, remarks),
           NEW edge, from \in edge
    PROVE  /\ Workflow!Move(s, edge, to)
           /\ Workflow!Judge(s, qc)
           /\ qc = row[s].qc =>
                [t \in Surveys |-> row[t].qc]' = [t \in Surveys |-> row[t].qc]
           /\ open' = [open EXCEPT ![s] = remarks]
<1>2. /\ ~row[s].deleted /\ row[s].status = from
      /\ row' = [row EXCEPT ![s].status = to, ![s].qc = qc]
      /\ open' = [open EXCEPT ![s] = remarks]
    BY DEF TransitionStatus, Active
<1>3. /\ row'[s].status = to /\ row'[s].qc = qc /\ row'[s].deleted = row[s].deleted
      /\ \A t \in Surveys \ {s} : row'[t] = row[t]
    BY <1>2 DEF IInv, TypeOK, RowType
<1>4. Workflow!Move(s, edge, to)
    <2>1. [t \in Surveys |-> row[t].status]'
            = [[t \in Surveys |-> row[t].status] EXCEPT ![s] = to]
        BY <1>3
    <2>2. [t \in Surveys |-> row[t].deleted]' = [t \in Surveys |-> row[t].deleted]
        BY <1>3
    <2> QED BY <1>2, <2>1, <2>2 DEF Workflow!Move
<1>5. Workflow!Judge(s, qc)
    BY <1>3 DEF Workflow!Judge
<1>6. qc = row[s].qc => \A t \in Surveys : row'[t].qc = row[t].qc
    BY <1>3
<1> QED BY <1>2, <1>4, <1>5, <1>6

LEMMA WorkflowInit == Init => Workflow!WInit
BY DEF Init, Workflow!WInit

LEMMA TransitionEdges ==
    ASSUME IInv, NEW r \in Requests,
           \/ PromoteUpdate(r)
           \/ CommitSubmit(r)
           \/ CommitApprove(r)
           \/ CommitReject(r)
           \/ CommitReopen(r)
           \/ CommitQcReopen(r)
    PROVE  Workflow!WNext
<1>1. req[r].pc # "idle"
    BY DEF PromoteUpdate, CommitSubmit, CommitApprove, CommitReject, CommitReopen,
           CommitQcReopen, Committing
<1>a. req[r].id \in Surveys
    BY <1>1, CommitFacts
<1>b. PICK s \in Surveys : s = req[r].id
    BY <1>a
<1>2. PendingOK(req[r], plan[r]) /\ open \in [Surveys -> BOOLEAN]
    BY <1>1, CommitFacts DEF IInv, TypeOK
<1>3. [open EXCEPT ![s] = open[s]] = open
    BY <1>2, <1>b
<1>4. CASE PromoteUpdate(r)
    <2>1. TransitionStatus(r, "DRAFT", "IN_PROGRESS", row[s].qc, open[s])
        BY <1>b, <1>4 DEF PromoteUpdate
    <2>2. Workflow!Start(s)
        BY <1>1, <1>3, <2>1, <1>b, TransitionView DEF Workflow!Start
    <2> QED BY <1>2, <2>2 DEF Workflow!WNext
<1>5. CASE CommitSubmit(r)
    <2>1. TransitionStatus(r, req[r].from, "SUBMITTED", "PENDING",
                           open[s] /\ req[r].from # "REOPENED")
        BY <1>b, <1>5 DEF CommitSubmit
    <2>2. req[r].from \in Editable
        BY <1>2, <1>5 DEF PendingOK, CommitSubmit, Committing
    <2>3. row[s].status = req[r].from
        BY <1>b, <2>1 DEF TransitionStatus
    <2>4. (open[s] /\ req[r].from # "REOPENED") = FALSE
        BY <1>2, <2>2, <2>3 DEF IInv, OpenRemarksOnlyWhileReturned, Editable
    <2>5. PICK from \in Editable : from = req[r].from
        BY <2>2
    <2>6. PICK settled \in BOOLEAN : settled = FALSE
        OBVIOUS
    <2>7. /\ TransitionStatus(r, from, "SUBMITTED", "PENDING", settled)
          /\ from \in {"DRAFT", "IN_PROGRESS", "REOPENED"}
        BY <2>1, <2>4, <2>5, <2>6 DEF TransitionStatus, Editable
    <2>8. /\ Workflow!Move(s, {"DRAFT", "IN_PROGRESS", "REOPENED"}, "SUBMITTED")
          /\ Workflow!Judge(s, "PENDING")
          /\ open' = [open EXCEPT ![s] = settled]
        BY <1>1, <2>7, <1>b, TransitionView
    <2>9. Workflow!Submit(s)
        BY <2>6, <2>8 DEF Workflow!Submit
    <2> QED BY <1>2, <2>9 DEF Workflow!WNext
<1>6. CASE CommitApprove(r)
    <2>1. TransitionStatus(r, "SUBMITTED", "APPROVED", "APPROVED", open[s])
        BY <1>b, <1>6 DEF CommitApprove
    <2>2. Workflow!Approve(s)
        BY <1>1, <1>3, <2>1, <1>b, TransitionView DEF Workflow!Approve
    <2> QED BY <1>2, <2>2 DEF Workflow!WNext
<1>7. CASE CommitReject(r)
    <2> DEFINE remarks == open[s] \/ req[r].arg = TRUE
    <2>1. TransitionStatus(r, "SUBMITTED", "REJECTED", "REJECTED", remarks)
        BY <1>b, <1>7 DEF CommitReject
    <2>2. remarks \in BOOLEAN
        BY <1>2
    <2> HIDE DEF remarks
    <2>3. Workflow!Return(s)
        BY <1>1, <2>1, <2>2, <1>b, TransitionView DEF Workflow!Return
    <2> QED BY <1>2, <2>3 DEF Workflow!WNext
<1>8. CASE CommitReopen(r)
    <2>1. TransitionStatus(r, "REJECTED", "REOPENED", row[s].qc, open[s])
        BY <1>b, <1>8 DEF CommitReopen
    <2>2. Workflow!Rework(s)
        BY <1>1, <1>3, <2>1, <1>b, TransitionView DEF Workflow!Rework
    <2> QED BY <1>2, <2>2 DEF Workflow!WNext
<1>9. CASE CommitQcReopen(r)
    <2>1. TransitionStatus(r, "APPROVED", "SUBMITTED", "PENDING", open[s])
        BY <1>b, <1>9 DEF CommitQcReopen
    <2>2. Workflow!Recall(s)
        BY <1>1, <1>3, <2>1, <1>b, TransitionView DEF Workflow!Recall
    <2> QED BY <1>2, <2>2 DEF Workflow!WNext
<1> QED BY <1>4, <1>5, <1>6, <1>7, <1>8, <1>9

LEMMA DeletionEdges ==
    ASSUME IInv, NEW r \in Requests,
           CommitDelete(r, "delete") \/ CommitDelete(r, "qcDelete") \/ CommitRestore(r)
    PROVE  Workflow!WNext
<1>1. req[r].pc # "idle" /\ open' = open
    BY DEF CommitDelete, CommitRestore, Committing
<1>a. req[r].id \in Surveys
    BY <1>1, CommitFacts
<1>b. PICK s \in Surveys : s = req[r].id
    BY <1>a
<1>2. s \in Surveys /\ row[s].status # "ABSENT"
    BY <1>1, <1>b, CommitFacts
<1>3. ASSUME NEW b \in BOOLEAN, row' = [row EXCEPT ![s].deleted = b]
      PROVE  /\ [t \in Surveys |-> row[t].deleted]'
                  = [[t \in Surveys |-> row[t].deleted] EXCEPT ![s] = b]
             /\ [t \in Surveys |-> row[t].status]' = [t \in Surveys |-> row[t].status]
             /\ [t \in Surveys |-> row[t].qc]' = [t \in Surveys |-> row[t].qc]
    <2>1. /\ row'[s].deleted = b /\ row'[s].status = row[s].status /\ row'[s].qc = row[s].qc
          /\ \A t \in Surveys \ {s} : row'[t] = row[t]
        BY <1>2, <1>3 DEF IInv, TypeOK, RowType
    <2> QED BY <1>2, <2>1
<1>4. CASE CommitDelete(r, "delete") \/ CommitDelete(r, "qcDelete")
    <2>1. row' = [row EXCEPT ![s].deleted = TRUE]
        BY <1>b, <1>4 DEF CommitDelete
    <2>2. Workflow!Discard(s)
        BY <1>1, <1>2, <1>3, <2>1 DEF Workflow!Discard
    <2> QED BY <1>2, <2>2 DEF Workflow!WNext
<1>5. CASE CommitRestore(r)
    <2>1. row' = [row EXCEPT ![s].deleted = FALSE]
        BY <1>b, <1>5 DEF CommitRestore
    <2>2. Workflow!Recover(s)
        BY <1>1, <1>2, <1>3, <2>1 DEF Workflow!Recover
    <2> QED BY <1>2, <2>2 DEF Workflow!WNext
<1> QED BY <1>4, <1>5

LEMMA CreationEdge ==
    ASSUME IInv, NEW r, NEW u \in Users, NEW s \in Surveys, NEW dto,
           Create(r, u, s, dto)
    PROVE  Workflow!WNext
<1>1. /\ row[s].status = "ABSENT" /\ open' = open
      /\ row'[s].status = "DRAFT" /\ row'[s].qc = "PENDING" /\ row'[s].deleted = FALSE
      /\ \A t \in Surveys \ {s} : row'[t] = row[t]
    BY DEF Create, IInv, TypeOK
<1>2. row[s].qc = "PENDING" /\ row[s].deleted = FALSE
    BY <1>1 DEF IInv, StatusQcCoherent, VerdictOf, TypeOK, RowType
<1>3. /\ [t \in Surveys |-> row[t].status]'
            = [[t \in Surveys |-> row[t].status] EXCEPT ![s] = "DRAFT"]
      /\ [t \in Surveys |-> row[t].qc]' = [t \in Surveys |-> row[t].qc]
      /\ [t \in Surveys |-> row[t].deleted]' = [t \in Surveys |-> row[t].deleted]
    BY <1>1, <1>2
<1>4. Workflow!Open(s)
    BY <1>1, <1>2, <1>3 DEF Workflow!Open, Workflow!Move
<1> QED BY <1>4 DEF Workflow!WNext

LEMMA SilentSteps ==
    ASSUME IInv, NEW r \in Requests,
           \/ UNCHANGED <<row, open>>
           \/ CommitAssign(r)
           \/ CommitChildEdit(r)
    PROVE  UNCHANGED Workflow!wvars
<1>1. CASE UNCHANGED <<row, open>>
    BY <1>1, SameView
<1>2. CASE CommitAssign(r) \/ CommitChildEdit(r)
    <2>1. /\ open' = open
          /\ \/ row' = [row EXCEPT ![req[r].id].assignee = req[r].arg]
             \/ row' = [row EXCEPT ![req[r].id].complete = req[r].arg]
        BY <1>2 DEF CommitAssign, CommitChildEdit
    <2>2. \A t \in Surveys : /\ row'[t].status = row[t].status
                             /\ row'[t].qc = row[t].qc
                             /\ row'[t].deleted = row[t].deleted
        <3>1. row \in [Surveys -> RowType]
            BY DEF IInv, TypeOK
        <3>2. ASSUME NEW t \in Surveys, t # req[r].id
              PROVE  row'[t] = row[t]
            BY <2>1, <3>1, <3>2
        <3>3. ASSUME NEW t \in Surveys, t = req[r].id
              PROVE  \/ row'[t] = [row[t] EXCEPT !.assignee = req[r].arg]
                     \/ row'[t] = [row[t] EXCEPT !.complete = req[r].arg]
            BY <2>1, <3>1, <3>3
        <3>4. ASSUME NEW t \in Surveys, t = req[r].id
              PROVE  /\ row'[t].status = row[t].status
                     /\ row'[t].qc = row[t].qc
                     /\ row'[t].deleted = row[t].deleted
            BY <3>1, <3>3, <3>4 DEF RowType
        <3> QED BY <3>2, <3>4
    <2> QED BY <2>1, <2>2, SameView
<1> QED BY <1>1, <1>2

LEMMA WorkflowStep == IInv /\ [Next]_vars => [Workflow!WNext]_(Workflow!wvars)
<1> SUFFICES ASSUME IInv, [Next]_vars
             PROVE  Workflow!WNext \/ UNCHANGED Workflow!wvars
    OBVIOUS
<1>1. CASE UNCHANGED vars
    BY <1>1, SameView DEF vars
<1>2. CASE SurveysNext
    <2>1. ASSUME NEW r \in Requests, NEW u \in Users, NEW s \in Surveys,
                 NEW dto \in NewSurveys, Create(r, u, s, dto)
          PROVE  Workflow!WNext
        BY <2>1, CreationEdge
    <2>2. ASSUME NEW r \in Requests, NEW s \in Surveys, BeginEnsure(r, s)
          PROVE  UNCHANGED Workflow!wvars
        BY <2>2, SilentSteps DEF BeginEnsure
    <2>3. ASSUME NEW r \in Requests, NEW u \in Users, NEW s \in Surveys,
                 HandlerBegins(r, u, s)
          PROVE  UNCHANGED Workflow!wvars
        <3>1. UNCHANGED <<row, open>>
            BY <2>3 DEF HandlerBegins, BeginUpdate, BeginSubmit, BeginApprove, BeginReject,
                        BeginReopen, BeginSoftDelete, BeginRestore, BeginAssign,
                        BeginChildEdit
        <3> QED BY <3>1, SilentSteps
    <2>4. ASSUME NEW r \in Requests, CommitUpdate(r) \/ CommitEnsure(r)
          PROVE  UNCHANGED Workflow!wvars
        BY <2>4, SilentSteps DEF CommitUpdate, CommitEnsure
    <2>5. ASSUME NEW r \in Requests, CommitAssign(r) \/ CommitChildEdit(r)
          PROVE  UNCHANGED Workflow!wvars
        BY <2>5, SilentSteps
    <2>6. ASSUME NEW r \in Requests,
                 \/ PromoteUpdate(r) \/ CommitSubmit(r) \/ CommitApprove(r)
                 \/ CommitReject(r) \/ CommitReopen(r)
                 \/ CommitDelete(r, "delete") \/ CommitRestore(r)
          PROVE  Workflow!WNext
        BY <2>6, TransitionEdges, DeletionEdges
    <2> QED BY <1>2, <2>1, <2>2, <2>3, <2>4, <2>5, <2>6 DEF SurveysNext, HandlerBegins
<1>3. CASE QcNext
    <2>1. ASSUME NEW r \in Requests, NEW u \in Users, NEW s \in Surveys,
                 \/ BeginQcReopen(r, u, s) \/ BeginQcDelete(r, u, s)
                 \/ BeginQuarantine(r, u, s)
                 \/ \E patch \in Patches : BeginCorrect(r, u, s, patch)
          PROVE  UNCHANGED Workflow!wvars
        <3>1. UNCHANGED <<row, open>>
            BY <2>1 DEF BeginQcReopen, BeginQcDelete, BeginQuarantine, BeginCorrect
        <3> QED BY <3>1, SilentSteps
    <2>2. ASSUME NEW r \in Requests, CommitQuarantine(r) \/ CommitCorrect(r)
          PROVE  UNCHANGED Workflow!wvars
        BY <2>2, SilentSteps DEF CommitQuarantine, CommitCorrect
    <2>3. ASSUME NEW r \in Requests, CommitQcReopen(r) \/ CommitDelete(r, "qcDelete")
          PROVE  Workflow!WNext
        BY <2>3, TransitionEdges, DeletionEdges
    <2> QED BY <1>3, <2>1, <2>2, <2>3 DEF QcNext
<1>4. ASSUME NEW r \in Requests, Abandon(r)
      PROVE  UNCHANGED Workflow!wvars
    BY <1>4, SilentSteps DEF Abandon
<1> QED BY <1>1, <1>2, <1>3, <1>4 DEF Next

\* Read-then-commit handlers, compare-and-set transitions and crashes together
\* implement the atomic life cycle.
THEOREM ImplementsWorkflow == Spec => WorkflowSpec
BY WorkflowInit, WorkflowStep, InvariantHolds, PTL
   DEF Spec, WorkflowSpec, Workflow!WSpec
=============================================================================
