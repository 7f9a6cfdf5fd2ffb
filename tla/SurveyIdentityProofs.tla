------------------------ MODULE SurveyIdentityProofs ------------------------
(***************************************************************************)
(* What the identity checks of the handlers achieve when requests do not   *)
(* overlap, for every set of surveys, wards and parcels: the Property IDs  *)
(* stay aligned with the wards, and the unique index refuses nothing that  *)
(* the checks accepted.  With two requests both fail.                      *)
(***************************************************************************)
EXTENDS SurveyPlatformProofs

\* At most one request is served at a time.
Sequential == \A r, q \in Requests : r = q

-----------------------------------------------------------------------------
(* Alignment of the Property ID with ward and parcel                        *)

\* The handler q is going to leave an aligned row with the plan p it made from idn,
\* and to hand the peer of a swap what was the place of its survey.
PlanAligned(q, p, idn) ==
    q.pc = "commit" =>
        /\ q.op \in {"update", "ensure", "quarantine", "correct"}
             => Aligned(Written(idn[q.id], p.data))
        /\ q.op = "correct" /\ p.peer # None
             => /\ p.peer # q.id
                /\ \A i \in Identity : Place(Written(i, p.theirs)) = Place(idn[q.id])

PlansAligned == \A r \in Requests : PlanAligned(req[r], plan[r], ident)

\* What the server derives in a geographic ward.
LEMMA DerivedInWard ==
    ASSUME NEW w \in Wards, NEW u \in UlbCodes, NEW p \in Parcels, NEW o, NEW n
    PROVE  /\ ResolvePropertyWardNumber(w, o, n) = w
           /\ Formatted[p] \in Canonical
                => /\ FormatPropertyId(u, w, p) = PropertyId(u, w, Formatted[p])
                   /\ FormatPropertyId(u, w, p) # None
           /\ p \in Canonical
                => /\ CanonicalFieldPropertyId(u, w, p) = PropertyId(u, w, p)
                   /\ CanonicalFieldPropertyId(u, w, p) # None
<1>1. w # ZeroWard /\ w # None /\ p # None
    BY SentinelAssumption
<1>2. ResolvePropertyWardNumber(w, o, n) = w
    BY <1>1 DEF ResolvePropertyWardNumber
<1>3. ASSUME Formatted[p] \in Canonical
      PROVE  /\ FormatPropertyId(u, w, p) = PropertyId(u, w, Formatted[p])
             /\ FormatPropertyId(u, w, p) # None
    <2>1. Formatted[p] # None
        BY <1>3, SentinelAssumption DEF Canonical
    <2>2. FormatPropertyId(u, w, p) = PropertyId(u, w, Formatted[p])
        BY <1>1, <2>1 DEF FormatPropertyId
    <2>3. PropertyId(u, w, Formatted[p]) \in FormulaPids
        BY <1>3 DEF FormulaPids
    <2> QED BY <2>2, <2>3, PidAssumption
<1>4. p \in Canonical => Formatted[p] = p
    BY DEF Canonical
<1> QED BY <1>2, <1>3, <1>4 DEF CanonicalFieldPropertyId

\* What update writes.
LEMMA UpdateWrites ==
    ASSUME NEW old \in Identity, NEW patch \in Patches,
           NEW ward, ward = Patched(patch, "ward", old.ward),
           NEW parcel, parcel = Patched(patch, "parcel", old.parcel),
           NEW wardNo, wardNo = ResolvePropertyWardNumber(ward, old.orig, old.wardNo),
           NEW derived,
           derived = CanonicalFieldPropertyId(StoredUlbCode(old), wardNo, parcel),
           NEW new, new = Written(old, UpdatePlan(old, patch))
    PROVE  /\ new.ward = ward /\ new.parcel = parcel
           /\ new.pid = IF derived # None THEN derived ELSE old.pid
           /\ new.year = Patched(patch, "year", old.year)
<1> DEFINE geographic == patch.ward \in Wards
           year == Patched(patch, "year", old.year)
           cols == {c \in {"ward", "wardNo", "ulb", "parcel", "year"} : patch[c] # Keep}
                   \cup (IF derived # None THEN {"pid"} ELSE {})
                   \cup (IF geographic THEN {"wardNo"} ELSE {})
           v == [pid |-> derived, parcel |-> parcel, ulb |-> patch.ulb, ward |-> ward,
                 wardNo |-> IF geographic THEN ward ELSE patch.wardNo, year |-> year]
<1>1. UpdatePlan(old, patch) = Data(cols, v)
    BY DEF UpdatePlan
<1>2. /\ new.ward = Or(Data(cols, v), "ward", old.ward)
      /\ new.parcel = Or(Data(cols, v), "parcel", old.parcel)
      /\ new.pid = Or(Data(cols, v), "pid", old.pid)
      /\ new.year = Or(Data(cols, v), "year", old.year)
    BY <1>1 DEF Written
<1>3. /\ "ward" \in cols <=> patch.ward # Keep
      /\ "parcel" \in cols <=> patch.parcel # Keep
      /\ "year" \in cols <=> patch.year # Keep
      /\ "pid" \in cols <=> derived # None
    OBVIOUS
<1>4. /\ v["ward"] = ward /\ v["parcel"] = parcel /\ v["pid"] = derived
      /\ v["year"] = year
    OBVIOUS
<1>5. /\ patch.ward = Keep => ward = old.ward
      /\ patch.parcel = Keep => parcel = old.parcel
      /\ patch.year = Keep => year = old.year
    BY DEF Patched
<1>6. year = Patched(patch, "year", old.year)
    OBVIOUS
<1> HIDE DEF v, cols, year
<1> QED BY <1>2, <1>3, <1>4, <1>5, <1>6 DEF Or, Data

LEMMA UpdateAligned ==
    ASSUME NEW old \in Identity, NEW patch \in Patches
    PROVE  Aligned(Written(old, UpdatePlan(old, patch)))
<1>1. PICK ward : ward = Patched(patch, "ward", old.ward)
    OBVIOUS
<1>2. PICK parcel : parcel = Patched(patch, "parcel", old.parcel)
    OBVIOUS
<1>3. PICK wardNo : wardNo = ResolvePropertyWardNumber(ward, old.orig, old.wardNo)
    OBVIOUS
<1>4. PICK u \in UlbCodes : u = StoredUlbCode(old)
    BY StoredUlbType
<1>5. PICK derived : derived = CanonicalFieldPropertyId(u, wardNo, parcel)
    OBVIOUS
<1>6. PICK new : new = Written(old, UpdatePlan(old, patch))
    OBVIOUS
<1>7. /\ new.ward = ward /\ new.parcel = parcel
      /\ new.pid = IF derived # None THEN derived ELSE old.pid
    BY <1>1, <1>2, <1>3, <1>4, <1>5, <1>6, UpdateWrites
<1>8. ASSUME ward \in Wards, parcel \in Canonical
      PROVE  new.pid = PropertyId(u, ward, parcel)
    <2>1. parcel \in Parcels /\ wardNo = ward
        BY <1>3, <1>8, SentinelAssumption DEF Canonical, ResolvePropertyWardNumber
    <2> QED BY <1>5, <1>7, <1>8, <2>1, DerivedInWard
<1> QED BY <1>6, <1>7, <1>8 DEF Aligned

\* What correct writes: its own ward number is that of the ward it moves to.
LEMMA CorrectWrites ==
    ASSUME NEW old \in Identity, NEW patch \in Patches,
           NEW ward, ward = Patched(patch, "ward", old.ward),
           NEW parcel, parcel = Patched(patch, "parcel", old.parcel),
           NEW wardNo, wardNo = IF patch.ward \in Wards THEN patch.ward
                                ELSE ResolvePropertyWardNumber(old.ward, old.orig, old.wardNo),
           NEW derived, derived = FormatPropertyId(UlbCode, wardNo, parcel),
           NEW new, new = Written(old, CorrectPlan(old, patch))
    PROVE  /\ new.ward = ward
           /\ new.parcel = IF patch.parcel = Keep THEN old.parcel
                           ELSE IF parcel \in Parcels THEN Padded[parcel] ELSE parcel
           /\ new.pid = IF ward = ZeroWard \/ derived = None THEN old.pid ELSE derived
           /\ new.year = Patched(patch, "year", old.year)
<1> DEFINE toZero == ward = ZeroWard
           stored == IF parcel \in Parcels THEN Padded[parcel] ELSE parcel
           pid == IF toZero \/ derived = None THEN old.pid ELSE derived
           geo == patch.ward # Keep
           year == Patched(patch, "year", old.year)
           v == [pid |-> pid, parcel |-> stored, ulb |-> UlbCode, ward |-> ward,
                 wardNo |-> wardNo, orig |-> old.ward, year |-> year]
           cols == {c \in {"ward", "parcel", "year"} : patch[c] # Keep}
                   \cup (IF pid # old.pid THEN {"pid"} ELSE {})
                   \cup (IF geo /\ toZero /\ old.orig = None /\ old.ward # ZeroWard
                         THEN {"orig"} ELSE {})
                   \cup (IF ~toZero /\ (geo \/ wardNo # old.wardNo)
                         THEN {"wardNo"} ELSE {})
                   \cup (IF geo \/ old.ulb # UlbCode THEN {"ulb"} ELSE {})
<1>1. CorrectPlan(old, patch) = Data(cols, v)
    BY DEF CorrectPlan
<1>2. /\ new.ward = Or(Data(cols, v), "ward", old.ward)
      /\ new.parcel = Or(Data(cols, v), "parcel", old.parcel)
      /\ new.pid = Or(Data(cols, v), "pid", old.pid)
      /\ new.year = Or(Data(cols, v), "year", old.year)
    BY <1>1 DEF Written
<1>3. /\ "ward" \in cols <=> patch.ward # Keep
      /\ "parcel" \in cols <=> patch.parcel # Keep
      /\ "year" \in cols <=> patch.year # Keep
      /\ "pid" \in cols <=> pid # old.pid
    OBVIOUS
<1>4. /\ v["ward"] = ward /\ v["parcel"] = stored /\ v["pid"] = pid
      /\ v["year"] = year
    OBVIOUS
<1>5. /\ patch.ward = Keep => ward = old.ward
      /\ patch.year = Keep => year = old.year
    BY DEF Patched
<1> HIDE DEF v, cols
<1>6. /\ new.ward = ward /\ new.pid = pid /\ new.year = year
      /\ new.parcel = IF patch.parcel = Keep THEN old.parcel ELSE stored
    <2> HIDE DEF pid, year, stored
    <2> QED BY <1>2, <1>3, <1>4, <1>5 DEF Or, Data
<1> QED BY <1>6

LEMMA CorrectAligned ==
    ASSUME NEW old \in Identity, NEW patch \in Patches
    PROVE  Aligned(Written(old, CorrectPlan(old, patch)))
<1>1. PICK ward : ward = Patched(patch, "ward", old.ward)
    OBVIOUS
<1>2. PICK parcel : parcel = Patched(patch, "parcel", old.parcel)
    OBVIOUS
<1>3. PICK wardNo : wardNo = IF patch.ward \in Wards THEN patch.ward
                             ELSE ResolvePropertyWardNumber(old.ward, old.orig, old.wardNo)
    OBVIOUS
<1>4. PICK derived : derived = FormatPropertyId(UlbCode, wardNo, parcel)
    OBVIOUS
<1>5. PICK new : new = Written(old, CorrectPlan(old, patch))
    OBVIOUS
<1>6. /\ new.ward = ward
      /\ new.parcel = IF patch.parcel = Keep THEN old.parcel
                      ELSE IF parcel \in Parcels THEN Padded[parcel] ELSE parcel
      /\ new.pid = IF ward = ZeroWard \/ derived = None THEN old.pid ELSE derived
    BY <1>1, <1>2, <1>3, <1>4, <1>5, CorrectWrites
<1>7. patch \in PatchDto /\ UlbCode \in UlbCodes
    BY InputAssumption, ParcelAssumption
<1>8. ASSUME ward \in Wards, new.parcel \in Canonical
      PROVE  new.pid = PropertyId(UlbCode, ward, new.parcel)
    <2>1. ward # ZeroWard /\ wardNo = ward
        <3>1. CASE patch.ward \in Wards
            BY <1>1, <1>3, <3>1, SentinelAssumption DEF Patched
        <3>2. CASE patch.ward = Keep
            BY <1>1, <1>3, <1>8, <3>2, SentinelAssumption
               DEF Patched, ResolvePropertyWardNumber
        <3>3. CASE patch.ward = ZeroWard
            BY <1>1, <1>8, <3>3, SentinelAssumption DEF Patched
        <3> QED BY <1>7, <1>8, <3>1, <3>2, <3>3, SentinelAssumption DEF PatchDto
    <2>2. parcel \in Parcels /\ Formatted[parcel] = new.parcel
        <3>1. new.parcel \in Parcels /\ Formatted[new.parcel] = new.parcel
            BY <1>8 DEF Canonical
        <3>2. CASE patch.parcel = Keep
            BY <1>2, <1>6, <3>1, <3>2 DEF Patched
        <3>3. CASE patch.parcel # Keep
            <4>1. parcel \in Parcels
                BY <1>6, <3>1, <3>3
            <4>2. new.parcel = Padded[parcel]
                BY <1>6, <3>3, <4>1
            <4>3. Formatted[Padded[parcel]] = Formatted[parcel]
                BY <4>1, ParcelAssumption
            <4> QED BY <3>1, <4>1, <4>2, <4>3
        <3> QED BY <3>2, <3>3
    <2>3. derived = PropertyId(UlbCode, ward, new.parcel) /\ derived # None
        BY <1>4, <1>7, <1>8, <2>1, <2>2, DerivedInWard
    <2> QED BY <1>6, <2>1, <2>3
<1> QED BY <1>5, <1>6, <1>7, <1>8 DEF Aligned

LEMMA EnsureAligned ==
    ASSUME NEW old \in Identity,
           NEW wardNo, wardNo = ResolvePropertyWardNumber(old.ward, old.orig, old.wardNo),
           NEW d, d = FormatPropertyId(StoredUlbCode(old), wardNo, old.parcel)
    PROVE  Aligned(Written(old, [pid |-> d]))
<1>1. /\ Written(old, [pid |-> d]).pid = d
      /\ Written(old, [pid |-> d]).ward = old.ward
      /\ Written(old, [pid |-> d]).parcel = old.parcel
    BY DEF Written, Or
<1>2. PICK u \in UlbCodes : u = StoredUlbCode(old)
    BY StoredUlbType
<1>3. ASSUME old.ward \in Wards, old.parcel \in Canonical
      PROVE  d = PropertyId(u, old.ward, old.parcel)
    <2>1. old.parcel \in Parcels /\ Formatted[old.parcel] = old.parcel
        BY <1>3 DEF Canonical
    <2> QED BY <1>2, <1>3, <2>1, DerivedInWard
<1> QED BY <1>1, <1>3 DEF Aligned

LEMMA QuarantineAligned ==
    ASSUME NEW old
    PROVE  Aligned(Written(old, QuarantinePlan(old)))
<1>1. Written(old, QuarantinePlan(old)).ward = ZeroWard
    BY DEF Written, Or, QuarantinePlan
<1> QED BY <1>1, SentinelAssumption DEF Aligned

\* The peer of a swap gets ward, parcel and Property ID together.
LEMMA SwappedPlace ==
    ASSUME NEW old, NEW i
    PROVE  Place(Written(i, Data(SwappedColumns, old))) = Place(old)
<1>1. /\ Written(i, Data(SwappedColumns, old)).ward = old.ward
      /\ Written(i, Data(SwappedColumns, old)).parcel = old.parcel
      /\ Written(i, Data(SwappedColumns, old)).pid = old.pid
    BY DEF Written, Or, Data, SwappedColumns
<1> QED BY <1>1 DEF Place

-----------------------------------------------------------------------------
(* The handler of the one request in flight                                 *)

\* It begins with a plan that leaves aligned rows.
LEMMA BeginAligned ==
    ASSUME Sequential, IInv, NEW r \in Requests, UNCHANGED ident,
           PlanAligned(req'[r], plan'[r], ident)
    PROVE  PlansAligned'
<1>1. \A q \in Requests : PlanAligned(req'[q], plan'[q], ident)
    BY DEF Sequential
<1> QED BY <1>1 DEF PlansAligned

\* A handler that plans no identity columns.
LEMMA PlainAligned ==
    ASSUME Sequential, IInv, NEW r \in Requests, NEW s, NEW arg, UNCHANGED ident,
           NEW op \in OpNames \ {"update", "ensure", "quarantine", "correct"},
           Begin(r, op, s, arg)
    PROVE  PlansAligned'
<1>1. req'[r].op = op
    BY DEF Begin, IInv, TypeOK
<1>2. PlanAligned(req'[r], plan'[r], ident)
    BY <1>1 DEF PlanAligned
<1> QED BY <1>2, BeginAligned

LEMMA PlannedAligned ==
    ASSUME Sequential, IInv, NEW r \in Requests, NEW s \in Surveys,
           NEW op, NEW arg, NEW data, NEW theirs, NEW peer,
           UNCHANGED ident, Begin(r, op, s, arg), Plan(r, data, peer, theirs),
           Aligned(Written(ident[s], data)),
           op = "correct" /\ peer # None
               => /\ peer # s
                  /\ \A i \in Identity : Place(Written(i, theirs)) = Place(ident[s])
    PROVE  PlansAligned'
<1>1. req'[r].op = op /\ req'[r].id = s
    BY DEF Begin, IInv, TypeOK
<1>2. plan'[r] = [data |-> data, peer |-> peer, theirs |-> theirs]
    BY DEF Plan, IInv, TypeOK
<1>3. plan'[r].data = data /\ plan'[r].peer = peer /\ plan'[r].theirs = theirs
    BY <1>2
<1>4. PlanAligned(req'[r], plan'[r], ident)
    BY <1>1, <1>3 DEF PlanAligned
<1> QED BY <1>4, BeginAligned

LEMMA SurveysBeginAligned ==
    ASSUME Sequential, IInv, NEW r \in Requests, NEW u \in Users, NEW s \in Surveys,
           HandlerBegins(r, u, s)
    PROVE  PlansAligned'
<1>a. ident[s] \in Identity
    BY DEF IInv, TypeOK
<1>b. {"submit", "approve", "reject", "reopen", "delete", "restore", "assign", "child"}
        \subseteq OpNames \ {"update", "ensure", "quarantine", "correct"}
    BY DEF OpNames
<1>1. ASSUME NEW patch \in Patches, BeginUpdate(r, u, s, patch)
      PROVE  PlansAligned'
    <2> DEFINE data == UpdatePlan(ident[s], patch)
    <2>1. /\ Begin(r, "update", s, None) /\ Plan(r, data, None, NoData)
          /\ UNCHANGED ident
        BY <1>1 DEF BeginUpdate
    <2>2. Aligned(Written(ident[s], data))
        BY <1>a, UpdateAligned
    <2> HIDE DEF data
    <2> QED BY <2>1, <2>2, PlannedAligned
<1>2. CASE BeginSubmit(r, u, s)
    BY <1>2, <1>b, PlainAligned DEF BeginSubmit
<1>3. CASE BeginApprove(r, u, s)
    BY <1>3, <1>b, PlainAligned DEF BeginApprove
<1>4. ASSUME NEW remarks \in BOOLEAN, BeginReject(r, u, s, remarks)
      PROVE  PlansAligned'
    BY <1>4, <1>b, PlainAligned DEF BeginReject
<1>5. CASE BeginReopen(r, u, s)
    BY <1>5, <1>b, PlainAligned DEF BeginReopen
<1>6. CASE BeginSoftDelete(r, u, s)
    BY <1>6, <1>b, PlainAligned DEF BeginSoftDelete
<1>7. CASE BeginRestore(r, u, s)
    BY <1>7, <1>b, PlainAligned DEF BeginRestore
<1>8. ASSUME NEW to \in Users, BeginAssign(r, u, s, to)
      PROVE  PlansAligned'
    BY <1>8, <1>b, PlainAligned DEF BeginAssign
<1>9. ASSUME NEW complete \in ChildStates, BeginChildEdit(r, u, s, complete)
      PROVE  PlansAligned'
    BY <1>9, <1>b, PlainAligned DEF BeginChildEdit
<1> QED BY <1>1, <1>2, <1>3, <1>4, <1>5, <1>6, <1>7, <1>8, <1>9 DEF HandlerBegins

LEMMA EnsureBeginAligned ==
    ASSUME Sequential, IInv, NEW r \in Requests, NEW s \in Surveys, BeginEnsure(r, s)
    PROVE  PlansAligned'
<1> DEFINE wardNo == ResolvePropertyWardNumber(ident[s].ward, ident[s].orig,
                                               ident[s].wardNo)
           d == FormatPropertyId(StoredUlbCode(ident[s]), wardNo, ident[s].parcel)
<1>1. ident[s] \in Identity
    BY DEF IInv, TypeOK
<1>2. Aligned(Written(ident[s], [pid |-> d]))
    BY <1>1, EnsureAligned
<1>3. /\ Begin(r, "ensure", s, None) /\ Plan(r, [pid |-> d], None, NoData)
      /\ UNCHANGED ident
    BY DEF BeginEnsure
<1> HIDE DEF d
<1> QED BY <1>2, <1>3, PlannedAligned

LEMMA QcBeginAligned ==
    ASSUME Sequential, IInv, NEW r \in Requests, NEW u \in Users, NEW s \in Surveys,
           \/ BeginQcReopen(r, u, s)
           \/ BeginQcDelete(r, u, s)
           \/ BeginQuarantine(r, u, s)
           \/ \E patch \in Patches : BeginCorrect(r, u, s, patch)
    PROVE  PlansAligned'
<1>a. ident[s] \in Identity
    BY DEF IInv, TypeOK
<1>b. {"qcReopen", "qcDelete"}
        \subseteq OpNames \ {"update", "ensure", "quarantine", "correct"}
    BY DEF OpNames
<1>1. CASE BeginQcReopen(r, u, s)
    BY <1>1, <1>b, PlainAligned DEF BeginQcReopen
<1>2. CASE BeginQcDelete(r, u, s)
    BY <1>2, <1>b, PlainAligned DEF BeginQcDelete
<1>3. CASE BeginQuarantine(r, u, s)
    <2> DEFINE data == QuarantinePlan(ident[s])
    <2>1. /\ Begin(r, "quarantine", s, None) /\ Plan(r, data, None, NoData)
          /\ UNCHANGED ident
        BY <1>3 DEF BeginQuarantine
    <2>2. Aligned(Written(ident[s], data))
        BY QuarantineAligned
    <2> HIDE DEF data
    <2> QED BY <2>1, <2>2, PlannedAligned
<1>4. ASSUME NEW patch \in Patches, BeginCorrect(r, u, s, patch)
      PROVE  PlansAligned'
    <2> DEFINE data == CorrectPlan(ident[s], patch)
               theirs == Data(SwappedColumns, ident[s])
    <2>1. Begin(r, "correct", s, None) /\ UNCHANGED ident
        BY <1>4 DEF BeginCorrect
    <2>2. \/ Plan(r, data, None, NoData)
          \/ \E t \in Surveys \ {s} : Plan(r, data, t, theirs)
        BY <1>4 DEF BeginCorrect, Conflicts
    <2>3. Aligned(Written(ident[s], data))
        BY <1>a, CorrectAligned
    <2>4. \A i \in Identity : Place(Written(i, theirs)) = Place(ident[s])
        BY SwappedPlace
    <2> HIDE DEF data, theirs
    <2>5. CASE Plan(r, data, None, NoData)
        BY <2>1, <2>3, <2>5, PlannedAligned
    <2>6. ASSUME NEW t \in Surveys \ {s}, Plan(r, data, t, theirs)
          PROVE  PlansAligned'
        BY <2>1, <2>3, <2>4, <2>6, PlannedAligned
    <2> QED BY <2>2, <2>5, <2>6
<1> QED BY <1>1, <1>2, <1>3, <1>4

\* It ends.
LEMMA EndAligned ==
    ASSUME Sequential, IInv, NEW r \in Requests,
           Reply(r) \/ req' = [req EXCEPT ![r].pc = "promote"]
    PROVE  PlansAligned'
<1>1. req'[r].pc # "commit"
    <2>1. CASE Reply(r)
        BY <2>1 DEF Reply, NoRequest, IInv, TypeOK
    <2>2. CASE req' = [req EXCEPT ![r].pc = "promote"]
        BY <2>2 DEF IInv, TypeOK, RequestType
    <2> QED BY <2>1, <2>2
<1>2. \A q \in Requests : PlanAligned(req'[q], plan'[q], ident')
    BY <1>1 DEF PlanAligned, Sequential
<1> QED BY <1>2 DEF PlansAligned

\* A creation is the one request: no handler is in flight.
LEMMA CreateAligned ==
    ASSUME Sequential, NEW r \in Requests, NEW u, NEW s, NEW dto, Create(r, u, s, dto)
    PROVE  PlansAligned'
<1>1. req'[r].pc = "idle"
    BY DEF Create, NoRequest
<1>2. \A q \in Requests : PlanAligned(req'[q], plan'[q], ident')
    BY <1>1 DEF PlanAligned, Sequential
<1> QED BY <1>2 DEF PlansAligned

LEMMA InitAligned == Init => PlansAligned
BY DEF Init, NoRequest, PlanAligned, PlansAligned

-----------------------------------------------------------------------------
(* What the commits leave in the rows                                       *)

Kept == \A s \in Surveys : row[s].status # "ABSENT" => KeepsAligned(s)

LEMMA QuietKept ==
    ASSUME UNCHANGED ident
    PROVE  Kept
BY DEF Kept, KeepsAligned

LEMMA OwnKept ==
    ASSUME IInv, PlansAligned, NEW r \in Requests,
           Committing(r, "update") \/ Committing(r, "ensure") \/ Committing(r, "quarantine"),
           ident' = [ident EXCEPT ![req[r].id] = Written(ident[req[r].id], plan[r].data)]
    PROVE  Kept
<1> DEFINE s == req[r].id
           new == Written(ident[s], plan[r].data)
<1>1. req[r].pc = "commit" /\ req[r].op \in {"update", "ensure", "quarantine", "correct"}
    BY DEF Committing
<1>2. s \in Surveys
    BY <1>1, CommitFacts
<1>3. Aligned(new)
    BY <1>1 DEF PlansAligned, PlanAligned
<1>4. ident'[s] = new /\ \A t \in Surveys \ {s} : ident'[t] = ident[t]
    BY <1>2 DEF IInv, TypeOK
<1> HIDE DEF new
<1> QED BY <1>3, <1>4 DEF Kept, KeepsAligned

LEMMA SwapKept ==
    ASSUME IInv, PlansAligned, NEW r \in Requests, CommitCorrect(r)
    PROVE  Kept
<1>1. req[r].pc = "commit" /\ req[r].op = "correct" /\ Reply(r)
    BY DEF CommitCorrect, Committing
<1>2. PICK s \in Surveys : s = req[r].id
    BY <1>1, CommitFacts
<1>3. PICK p : p = plan[r]
    OBVIOUS
<1>4. PICK peer \in Surveys \cup {None} : peer = p.peer
    BY <1>1, <1>3, CommitFacts
<1>5. /\ Aligned(Written(ident[s], p.data))
      /\ peer # None
           => peer # s /\ \A i \in Identity : Place(Written(i, p.theirs)) = Place(ident[s])
    BY <1>1, <1>2, <1>3, <1>4 DEF PlansAligned, PlanAligned
<1>6. ident' = AfterSwap(p, AfterOwn(p, s, AfterPark(p, ident)))
    BY <1>2, <1>3 DEF CommitCorrect
<1>7. ident \in [Surveys -> Identity]
    BY DEF IInv, TypeOK
<1>8. CASE peer = None
    <2>1. ident' = [ident EXCEPT ![s] = Written(ident[s], p.data)]
        BY <1>4, <1>6, <1>8 DEF AfterPark, AfterOwn, AfterSwap
    <2>2. /\ ident'[s] = Written(ident[s], p.data)
          /\ \A t \in Surveys \ {s} : ident'[t] = ident[t]
        BY <1>7, <2>1
    <2> QED BY <1>5, <2>2 DEF Kept, KeepsAligned
<1>9. CASE peer # None
    <2> DEFINE parked == AfterPark(p, ident)
               own == AfterOwn(p, s, parked)
    <2>1. peer \in Surveys /\ peer # s
        BY <1>5, <1>9
    <2>2. parked = [ident EXCEPT ![peer].pid = TempSwap(peer)]
        BY <1>4, <1>9 DEF AfterPark
    <2>3. parked \in [Surveys -> Identity] /\ \A t \in Surveys \ {peer} : parked[t] = ident[t]
        <3>1. parked \in [Surveys -> Identity]
            BY <1>7, <2>1, <2>2, RekeyType, PidsType
        <3> QED BY <1>7, <2>1, <2>2, <3>1
    <2>4. own = [parked EXCEPT ![s] = Written(parked[s], p.data)]
        BY DEF AfterOwn
    <2> HIDE DEF parked
    <2>5. /\ own[s] = Written(ident[s], p.data)
          /\ own[peer] = parked[peer]
          /\ \A t \in Surveys \ {s, peer} : own[t] = ident[t]
          /\ DOMAIN own = Surveys
        BY <2>1, <2>3, <2>4
    <2>6. ident' = [own EXCEPT ![peer] = Written(own[peer], p.theirs)]
        BY <1>4, <1>6, <1>9 DEF AfterSwap, parked
    <2> HIDE DEF own
    <2>7. Place(Written(own[peer], p.theirs)) = Place(ident[s])
        BY <1>5, <1>9, <2>1, <2>3, <2>5
    <2>8. /\ ident'[peer] = Written(own[peer], p.theirs)
          /\ ident'[s] = Written(ident[s], p.data)
          /\ \A t \in Surveys \ {s, peer} : ident'[t] = ident[t]
        BY <2>1, <2>5, <2>6
    <2>9. ASSUME NEW t \in Surveys
          PROVE  KeepsAligned(t)
        <3>1. CASE t = peer
            <4>1. Place(ident'[t]) = Place(ident[s])
                BY <2>7, <2>8, <3>1
            <4> QED BY <4>1 DEF KeepsAligned
        <3>2. CASE t = s
            BY <1>5, <2>8, <3>2 DEF KeepsAligned
        <3>3. CASE t \notin {s, peer}
            BY <2>8, <3>3 DEF KeepsAligned
        <3> QED BY <3>1, <3>2, <3>3
    <2> QED BY <2>9 DEF Kept
<1> QED BY <1>8, <1>9

LEMMA RestoreKept ==
    ASSUME IInv, NEW r \in Requests, CommitRestore(r)
    PROVE  Kept
<1>1. PICK s \in Surveys : s = req[r].id
    BY CommitFacts DEF CommitRestore, Committing
<1>2. PICK pid \in {ident[s].pid, TempRestore(s)} :
        ident' = [ident EXCEPT ![s].pid = pid]
    BY <1>1 DEF CommitRestore
<1>3. /\ ident'[s].pid = pid /\ ident'[s].ward = ident[s].ward
      /\ ident'[s].parcel = ident[s].parcel
      /\ \A t \in Surveys \ {s} : ident'[t] = ident[t]
    BY <1>2 DEF IInv, TypeOK, Identity
<1>4. ~IsNewPropertyIdFormat(TempRestore(s))
    BY PidAssumption DEF IsNewPropertyIdFormat
<1>5. KeepsAligned(s)
    <2>1. CASE pid = ident[s].pid
        BY <1>3, <2>1 DEF KeepsAligned, Place
    <2>2. CASE pid = TempRestore(s)
        BY <1>3, <1>4, <2>2 DEF KeepsAligned, Aligned
    <2> QED BY <1>2, <2>1, <2>2
<1> QED BY <1>3, <1>5 DEF Kept, KeepsAligned

\* A creation disturbs no survey that exists.
LEMMA CreateKept ==
    ASSUME IInv, NEW r, NEW u, NEW s \in Surveys, NEW dto, Create(r, u, s, dto)
    PROVE  Kept
<1>1. row[s].status = "ABSENT" /\ \A t \in Surveys \ {s} : ident'[t] = ident[t]
    BY DEF Create, IInv, TypeOK
<1> QED BY <1>1 DEF Kept, KeepsAligned

LEMMA NextAligned ==
    ASSUME Sequential, IInv, PlansAligned, [Next]_vars
    PROVE  PlansAligned' /\ Kept
<1>1. CASE UNCHANGED vars
    BY <1>1, QuietKept DEF vars, PlansAligned
<1>2. ASSUME NEW r \in Requests,
             \/ PromoteUpdate(r) \/ CommitSubmit(r) \/ CommitApprove(r) \/ CommitReject(r)
             \/ CommitReopen(r) \/ CommitQcReopen(r)
      PROVE  PlansAligned' /\ Kept
    BY <1>2, EndAligned, QuietKept
       DEF PromoteUpdate, CommitSubmit, CommitApprove, CommitReject, CommitReopen,
           CommitQcReopen, TransitionStatus
<1>3. ASSUME NEW r \in Requests,
             \/ CommitDelete(r, "delete") \/ CommitDelete(r, "qcDelete") \/ CommitAssign(r)
             \/ CommitChildEdit(r) \/ Abandon(r)
      PROVE  PlansAligned' /\ Kept
    BY <1>3, EndAligned, QuietKept DEF CommitDelete, CommitAssign, CommitChildEdit, Abandon
<1>4. ASSUME NEW r \in Requests, CommitUpdate(r) \/ CommitEnsure(r) \/ CommitQuarantine(r)
      PROVE  PlansAligned' /\ Kept
    BY <1>4, EndAligned, OwnKept DEF CommitUpdate, CommitEnsure, CommitQuarantine
<1>5. CASE SurveysNext
    <2>1. ASSUME NEW r \in Requests, NEW u \in Users, NEW s \in Surveys,
                 NEW dto \in NewSurveys, Create(r, u, s, dto)
          PROVE  PlansAligned' /\ Kept
        BY <2>1, CreateAligned, CreateKept
    <2>2. ASSUME NEW r \in Requests, NEW s \in Surveys, BeginEnsure(r, s)
          PROVE  PlansAligned' /\ Kept
        BY <2>2, EnsureBeginAligned, QuietKept DEF BeginEnsure
    <2>3. ASSUME NEW r \in Requests, NEW u \in Users, NEW s \in Surveys,
                 HandlerBegins(r, u, s)
          PROVE  PlansAligned' /\ Kept
        <3>1. UNCHANGED ident
            BY <2>3 DEF HandlerBegins, BeginUpdate, BeginSubmit, BeginApprove, BeginReject,
                        BeginReopen, BeginSoftDelete, BeginRestore, BeginAssign,
                        BeginChildEdit
        <3> QED BY <2>3, <3>1, SurveysBeginAligned, QuietKept
    <2>4. ASSUME NEW r \in Requests, CommitRestore(r)
          PROVE  PlansAligned' /\ Kept
        BY <2>4, EndAligned, RestoreKept DEF CommitRestore
    <2>5. ASSUME NEW r \in Requests,
                 \/ CommitUpdate(r) \/ PromoteUpdate(r) \/ CommitEnsure(r)
                 \/ CommitSubmit(r) \/ CommitApprove(r) \/ CommitReject(r)
                 \/ CommitReopen(r) \/ CommitDelete(r, "delete") \/ CommitRestore(r)
                 \/ CommitAssign(r) \/ CommitChildEdit(r)
          PROVE  PlansAligned' /\ Kept
        BY <1>2, <1>3, <1>4, <2>4, <2>5
    <2> QED BY <1>5, <2>1, <2>2, <2>3, <2>5 DEF SurveysNext, HandlerBegins
<1>6. CASE QcNext
    <2>1. ASSUME NEW r \in Requests, NEW u \in Users, NEW s \in Surveys,
                 \/ BeginQcReopen(r, u, s) \/ BeginQcDelete(r, u, s)
                 \/ BeginQuarantine(r, u, s)
                 \/ \E patch \in Patches : BeginCorrect(r, u, s, patch)
          PROVE  PlansAligned' /\ Kept
        <3>1. UNCHANGED ident
            BY <2>1 DEF BeginQcReopen, BeginQcDelete, BeginQuarantine, BeginCorrect
        <3> QED BY <2>1, <3>1, QcBeginAligned, QuietKept
    <2>2. ASSUME NEW r \in Requests, CommitCorrect(r)
          PROVE  PlansAligned' /\ Kept
        BY <2>2, EndAligned, SwapKept DEF CommitCorrect
    <2>3. ASSUME NEW r \in Requests,
                 \/ CommitQcReopen(r) \/ CommitDelete(r, "qcDelete")
                 \/ CommitQuarantine(r) \/ CommitCorrect(r)
          PROVE  PlansAligned' /\ Kept
        BY <1>2, <1>3, <1>4, <2>2, <2>3
    <2> QED BY <1>6, <2>1, <2>3 DEF QcNext
<1> QED BY <1>1, <1>3, <1>5, <1>6 DEF Next

\* While requests do not overlap, every step that writes Property ID, ward or parcel
\* of a survey leaves them aligned, or hands on the place of the swapped survey,
\* whatever Property IDs, parcels and ward numbers clients send.
THEOREM PropertyIdAligned ==
    ASSUME Sequential
    PROVE  Spec => AlignmentKept
<1>1. Init => PlansAligned
    BY InitAligned
<1>2. IInv /\ PlansAligned /\ [Next]_vars
        => /\ PlansAligned'
           /\ \A s \in Surveys : row[s].status # "ABSENT" => KeepsAligned(s)
    BY NextAligned DEF Kept
<1> QED BY <1>1, <1>2, InvariantHolds, PTL DEF Spec, AlignmentKept

-----------------------------------------------------------------------------
(* What the checks accept, the index accepts                                *)

SwapPids == {TempSwap(s) : s \in Surveys}

Live(rw, s) == rw[s].status # "ABSENT" /\ ~rw[s].deleted

\* Row s with the identity i would meet no other active survey.
Fits(s, i, rw, idn) ==
    \A t \in Surveys \ {s} :
        Live(rw, t) => idn[t].pid # i.pid \/ idn[t].year # i.year

\* What the checks of the handler q established about the rows rw, idn it read, and
\* what nothing disturbs until it commits the plan p.
PlanFits(q, p, rw, idn) ==
    q.pc = "commit" =>
        /\ q.op \in {"update", "ensure", "quarantine", "correct"}
             => Written(idn[q.id], p.data).pid \in FormulaPids \cup {idn[q.id].pid}
        /\ q.op \in {"update", "correct"} => Live(rw, q.id)
        /\ q.op = "update" \/ (q.op = "correct" /\ p.peer = None)
             => Fits(q.id, Written(idn[q.id], p.data), rw, idn)
        /\ q.op = "correct" /\ p.peer # None
             => /\ p.peer \in Surveys \ {q.id} /\ Live(rw, p.peer)
                /\ idn[p.peer].pid = Written(idn[q.id], p.data).pid
                /\ idn[p.peer].year = idn[q.id].year
                /\ Written(idn[q.id], p.data).year = idn[q.id].year
                /\ p.theirs = Data(SwappedColumns, idn[q.id])

FitInv ==
    /\ \A s \in Surveys : ident[s].pid \notin SwapPids
    /\ \A r \in Requests : PlanFits(req[r], plan[r], row, ident)

LEMMA SwapPidsApart ==
    /\ SwapPids \cap (ClientPids \cup FormulaPids) = {} /\ None \notin SwapPids
    /\ \A s \in Surveys : TempRestore(s) \notin SwapPids
<1>1. SwapPids \cap (ClientPids \cup FormulaPids) = {} /\ None \notin SwapPids
    BY PidAssumption DEF SwapPids
<1>2. \A s \in Surveys : TempRestore(s) \notin SwapPids
    BY DEF SwapPids, TempSwap, TempRestore
<1> QED BY <1>1, <1>2

LEMMA DerivedFormula ==
    ASSUME NEW u \in UlbCodes, NEW w \in Wards \cup {None}, NEW p \in Parcels \cup {None}
    PROVE  /\ FormatPropertyId(u, w, p) \in FormulaPids \cup {None}
           /\ CanonicalFieldPropertyId(u, w, p) \in FormulaPids \cup {None}
<1>1. FormatPropertyId(u, w, p) \in FormulaPids \cup {None}
    <2>1. CASE w = None \/ p = None
        BY <2>1 DEF FormatPropertyId
    <2>2. CASE w # None /\ p # None
        <3>1. w \in Wards /\ p \in Parcels
            BY <2>2
        <3>2. CASE Formatted[p] = None
            BY <2>2, <3>2 DEF FormatPropertyId
        <3>3. CASE Formatted[p] # None
            <4>1. Formatted[p] \in Canonical
                BY <3>1, <3>3, ParcelAssumption
            <4> QED BY <2>2, <3>1, <3>3, <4>1 DEF FormatPropertyId, FormulaPids
        <3> QED BY <3>2, <3>3
    <2> QED BY <2>1, <2>2
<1> QED BY <1>1 DEF CanonicalFieldPropertyId

LEMMA UpdateIdentity ==
    ASSUME NEW old \in Identity, NEW patch \in Patches
    PROVE  Written(old, UpdatePlan(old, patch)).pid \in FormulaPids \cup {old.pid}
<1>1. PICK ward : ward = Patched(patch, "ward", old.ward)
    OBVIOUS
<1>2. PICK parcel : parcel = Patched(patch, "parcel", old.parcel)
    OBVIOUS
<1>3. PICK wardNo : wardNo = ResolvePropertyWardNumber(ward, old.orig, old.wardNo)
    OBVIOUS
<1>4. PICK u \in UlbCodes : u = StoredUlbCode(old)
    BY StoredUlbType
<1>5. PICK derived : derived = CanonicalFieldPropertyId(u, wardNo, parcel)
    OBVIOUS
<1>6. Written(old, UpdatePlan(old, patch)).pid = IF derived # None THEN derived ELSE old.pid
    BY <1>1, <1>2, <1>3, <1>4, <1>5, UpdateWrites
<1>7. parcel \in Parcels \cup {None} /\ ward \in Wards \cup {ZeroWard, None}
    BY <1>1, <1>2, InputAssumption DEF PatchDto, Identity, Patched
<1>8. wardNo \in Wards \cup {None}
    BY <1>3, <1>7, ResolvedType DEF Identity
<1>9. derived \in FormulaPids \cup {None}
    BY <1>5, <1>7, <1>8, DerivedFormula
<1> QED BY <1>6, <1>9

LEMMA CorrectIdentity ==
    ASSUME NEW old \in Identity, NEW patch \in Patches
    PROVE  Written(old, CorrectPlan(old, patch)).pid \in FormulaPids \cup {old.pid}
<1>1. PICK ward : ward = Patched(patch, "ward", old.ward)
    OBVIOUS
<1>2. PICK parcel : parcel = Patched(patch, "parcel", old.parcel)
    OBVIOUS
<1>3. PICK wardNo : wardNo = IF patch.ward \in Wards THEN patch.ward
                             ELSE ResolvePropertyWardNumber(old.ward, old.orig, old.wardNo)
    OBVIOUS
<1>4. PICK derived : derived = FormatPropertyId(UlbCode, wardNo, parcel)
    OBVIOUS
<1>5. Written(old, CorrectPlan(old, patch)).pid
        = IF ward = ZeroWard \/ derived = None THEN old.pid ELSE derived
    BY <1>1, <1>2, <1>3, <1>4, CorrectWrites
<1>6. parcel \in Parcels \cup {None}
    BY <1>2, InputAssumption DEF PatchDto, Identity, Patched
<1>7. wardNo \in Wards \cup {None}
    BY <1>3, ResolvedType DEF Identity
<1>8. derived \in FormulaPids \cup {None}
    BY <1>4, <1>6, <1>7, DerivedFormula, ParcelAssumption
<1> QED BY <1>5, <1>8

LEMMA QuarantineIdentity ==
    ASSUME NEW old
    PROVE  Written(old, QuarantinePlan(old)).pid = old.pid
BY DEF Written, Or, QuarantinePlan

LEMMA EnsureIdentity ==
    ASSUME NEW old \in Identity,
           NEW wardNo, wardNo = ResolvePropertyWardNumber(old.ward, old.orig, old.wardNo),
           NEW d, d = FormatPropertyId(StoredUlbCode(old), wardNo, old.parcel), d # None
    PROVE  Written(old, [pid |-> d]).pid \in FormulaPids
<1>1. Written(old, [pid |-> d]).pid = d
    BY DEF Written, Or
<1>2. wardNo \in Wards \cup {None} /\ old.parcel \in Parcels \cup {None}
    BY ResolvedType DEF Identity
<1>3. PICK u \in UlbCodes : u = StoredUlbCode(old)
    BY StoredUlbType
<1>4. d \in FormulaPids
    BY <1>2, <1>3, DerivedFormula
<1> QED BY <1>1, <1>4

-----------------------------------------------------------------------------
(* The index over rows that differ from the table in one or two places      *)

LEMMA LiveActive == \A s \in Surveys : Active(s) <=> Live(row, s)
BY DEF Active, Live

\* One row is replaced by an identity that fits.
LEMMA FittingRow ==
    ASSUME UniqueActiveIdentity, ident \in [Surveys -> Identity], NEW s \in Surveys,
           NEW i, Fits(s, i, row, ident)
    PROVE  IndexAccepts(row, [ident EXCEPT ![s] = i])
<1> DEFINE idn == [ident EXCEPT ![s] = i]
<1>1. idn[s] = i /\ \A t \in Surveys \ {s} : idn[t] = ident[t]
    OBVIOUS
<1> HIDE DEF idn
<1>2. ASSUME NEW x \in Surveys, NEW y \in Surveys, x # y, Live(row, x), Live(row, y)
      PROVE  idn[x].pid # idn[y].pid \/ idn[x].year # idn[y].year
    <2>1. CASE x = s
        BY <1>1, <1>2, <2>1 DEF Fits
    <2>2. CASE y = s
        BY <1>1, <1>2, <2>2 DEF Fits
    <2>3. CASE x # s /\ y # s
        BY <1>1, <1>2, <2>3, LiveActive DEF UniqueActiveIdentity
    <2> QED BY <2>1, <2>2, <2>3
<1>3. IndexAccepts(row, idn)
    BY <1>2 DEF IndexAccepts, Live
<1> QED BY <1>3 DEF idn

\* A handler that keeps the identity of an active survey fits.
LEMMA OwnFits ==
    ASSUME UniqueActiveIdentity, NEW s \in Surveys, Active(s), NEW i,
           i.pid = ident[s].pid, i.year = ident[s].year
    PROVE  Fits(s, i, row, ident)
BY LiveActive DEF UniqueActiveIdentity, Fits

LEMMA NoConflictFits ==
    ASSUME NEW s \in Surveys, NEW i, Conflicts(i.pid, i.year, s) = {}
    PROVE  Fits(s, i, row, ident)
BY LiveActive DEF Conflicts, Fits
\* The three statements of a swap: s is to get the Property ID of t, which is parked
\* under a temporary one and then gets that of s.
LEMMA FittingSwap ==
    ASSUME IInv, FitInv, NEW s \in Surveys, NEW t \in Surveys \ {s}, NEW p,
           p.peer = t, p.theirs = Data(SwappedColumns, ident[s]),
           Live(row, s), Live(row, t),
           ident[t].pid = Written(ident[s], p.data).pid, ident[t].year = ident[s].year,
           Written(ident[s], p.data).year = ident[s].year
    PROVE  CorrectAccepted(p, s)
<1> DEFINE new == Written(ident[s], p.data)
           parked == AfterPark(p, ident)
           own == AfterOwn(p, s, parked)
           swapped == AfterSwap(p, own)
<1>a. t \in Surveys /\ t # s /\ t # None
    BY SentinelAssumption
<1>b. ident \in [Surveys -> Identity]
    BY DEF IInv, TypeOK
<1>1. /\ parked[t].pid = TempSwap(t) /\ parked[t].year = ident[t].year
      /\ \A x \in Surveys \ {t} : parked[x] = ident[x]
      /\ DOMAIN parked = Surveys
    BY <1>a, <1>b DEF AfterPark, Identity
<1>2. /\ own[s] = new /\ own[t] = parked[t]
      /\ \A x \in Surveys \ {s, t} : own[x] = ident[x]
      /\ DOMAIN own = Surveys
    <2> HIDE DEF parked
    <2> QED BY <1>a, <1>1 DEF AfterOwn
<1>3. /\ swapped[t].pid = ident[s].pid /\ swapped[t].year = ident[s].year
      /\ swapped[s] = new
      /\ \A x \in Surveys \ {s, t} : swapped[x] = ident[x]
    <2>1. swapped = [own EXCEPT ![t] = Written(own[t], p.theirs)]
        BY <1>a DEF AfterSwap
    <2>2. /\ Written(own[t], p.theirs).pid = ident[s].pid
          /\ Written(own[t], p.theirs).year = ident[s].year
        BY DEF Written, Or, Data, SwappedColumns
    <2> HIDE DEF own
    <2> QED BY <1>a, <1>2, <2>1, <2>2
<1>4. \A x, y \in Surveys : x # y /\ Live(row, x) /\ Live(row, y)
            => ident[x].pid # ident[y].pid \/ ident[x].year # ident[y].year
    BY LiveActive DEF IInv, UniqueActiveIdentity
<1>5. \A x \in Surveys : ident[x].pid # TempSwap(t)
    BY <1>a DEF FitInv, SwapPids
<1> HIDE DEF new, parked, own, swapped
<1>6. IndexAccepts(row, parked)
    <2> SUFFICES ASSUME NEW x \in Surveys, NEW y \in Surveys, x # y,
                        Live(row, x), Live(row, y)
                 PROVE  parked[x].pid # parked[y].pid \/ parked[x].year # parked[y].year
        BY DEF IndexAccepts, Live
    <2>1. CASE x = t
        BY <1>1, <1>5, <2>1
    <2>2. CASE y = t
        BY <1>1, <1>5, <2>2
    <2>3. CASE x # t /\ y # t
        BY <1>1, <1>4, <2>3
    <2> QED BY <2>1, <2>2, <2>3
<1>7. new.pid = ident[t].pid /\ new.year = ident[t].year
    BY DEF new
<1>8. IndexAccepts(row, own)
    <2> SUFFICES ASSUME NEW x \in Surveys, NEW y \in Surveys, x # y,
                        Live(row, x), Live(row, y)
                 PROVE  own[x].pid # own[y].pid \/ own[x].year # own[y].year
        BY DEF IndexAccepts, Live
    <2>1. own[s].pid = ident[t].pid /\ own[s].year = ident[t].year
        BY <1>2, <1>7
    <2>2. own[t].pid = TempSwap(t) /\ ident[t].pid # TempSwap(t)
        BY <1>1, <1>2, <1>5, <1>a
    <2>3. CASE x = t
        BY <1>2, <1>5, <2>1, <2>2, <2>3
    <2>4. CASE y = t
        BY <1>2, <1>5, <2>1, <2>2, <2>4
    <2>5. CASE x = s /\ y # t
        BY <1>2, <1>4, <1>a, <2>1, <2>5
    <2>6. CASE y = s /\ x # t
        BY <1>2, <1>4, <1>a, <2>1, <2>6
    <2>7. CASE x \notin {s, t} /\ y \notin {s, t}
        BY <1>2, <1>4, <2>7
    <2> QED BY <2>3, <2>4, <2>5, <2>6, <2>7
<1>9. IndexAccepts(row, swapped)
    <2> SUFFICES ASSUME NEW x \in Surveys, NEW y \in Surveys, x # y,
                        Live(row, x), Live(row, y)
                 PROVE  \/ swapped[x].pid # swapped[y].pid
                        \/ swapped[x].year # swapped[y].year
        BY DEF IndexAccepts, Live
    <2> DEFINE z(u) == IF u = s THEN t ELSE IF u = t THEN s ELSE u
    <2>1. \A u \in Surveys : /\ z(u) \in Surveys /\ (Live(row, u) => Live(row, z(u)))
                             /\ swapped[u].pid = ident[z(u)].pid
                             /\ swapped[u].year = ident[z(u)].year
        BY <1>3, <1>7, <1>a
    <2>2. z(x) # z(y)
        BY <1>a
    <2> HIDE DEF z
    <2> QED BY <1>4, <2>1, <2>2
<1> QED BY <1>6, <1>8, <1>9 DEF CorrectAccepted, parked, own, swapped

LEMMA FitsSuffices ==
    ASSUME IInv, FitInv
    PROVE  ChecksSuffice
<1> SUFFICES ASSUME NEW r \in Requests
             PROVE  /\ Committing(r, "update") =>
                        IndexAccepts(row, AfterOwn(plan[r], req[r].id, ident))
                    /\ Committing(r, "correct") => CorrectAccepted(plan[r], req[r].id)
    BY DEF ChecksSuffice
<1>1. ident \in [Surveys -> Identity] /\ UniqueActiveIdentity
    BY DEF IInv, TypeOK
<1>2. CASE Committing(r, "update")
    <2>1. PICK s \in Surveys : s = req[r].id
        BY <1>2, CommitFacts DEF Committing
    <2>2. Fits(s, Written(ident[s], plan[r].data), row, ident)
        BY <1>2, <2>1 DEF FitInv, PlanFits, Committing
    <2>3. IndexAccepts(row, [ident EXCEPT ![s] = Written(ident[s], plan[r].data)])
        BY <1>1, <2>2, FittingRow
    <2> QED BY <1>2, <2>1, <2>3 DEF AfterOwn, Committing
<1>3. CASE Committing(r, "correct")
    <2>1. PICK s \in Surveys : s = req[r].id
        BY <1>3, CommitFacts DEF Committing
    <2>2. PICK p : p = plan[r]
        OBVIOUS
    <2>a. PlanFits(req[r], p, row, ident) /\ req[r].pc = "commit" /\ req[r].op = "correct"
        BY <1>3, <2>2 DEF FitInv, Committing
    <2>3. CASE p.peer = None
        <3>1. Fits(s, Written(ident[s], p.data), row, ident)
            BY <2>a, <2>1, <2>3 DEF PlanFits
        <3>2. IndexAccepts(row, [ident EXCEPT ![s] = Written(ident[s], p.data)])
            BY <1>1, <3>1, FittingRow
        <3>3. IndexAccepts(row, ident)
            BY <1>1, LiveActive DEF UniqueActiveIdentity, IndexAccepts, Live
        <3>4. CorrectAccepted(p, s)
            BY <2>3, <3>2, <3>3 DEF CorrectAccepted, AfterPark, AfterOwn, AfterSwap
        <3> QED BY <1>3, <2>1, <2>2, <3>4 DEF Committing
    <2>4. CASE p.peer # None
        <3>1. /\ p.peer \in Surveys \ {s} /\ Live(row, p.peer) /\ Live(row, s)
              /\ ident[p.peer].pid = Written(ident[s], p.data).pid
              /\ ident[p.peer].year = ident[s].year
              /\ Written(ident[s], p.data).year = ident[s].year
              /\ p.theirs = Data(SwappedColumns, ident[s])
            BY <2>a, <2>1, <2>4 DEF PlanFits
        <3>2. CorrectAccepted(p, s)
            BY <3>1, FittingSwap
        <3> QED BY <1>3, <2>1, <2>2, <3>2 DEF Committing
    <2> QED BY <2>3, <2>4
<1> QED BY <1>2, <1>3
-----------------------------------------------------------------------------
(* The steps                                                                *)

LEMMA PlainFits ==
    ASSUME Sequential, IInv, FitInv, NEW r \in Requests, NEW s, NEW arg,
           UNCHANGED <<row, ident>>,
           NEW op \in OpNames \ {"update", "ensure", "quarantine", "correct"},
           Begin(r, op, s, arg)
    PROVE  FitInv'
<1>1. req'[r].op = op
    BY DEF Begin, IInv, TypeOK
<1>2. PlanFits(req'[r], plan'[r], row, ident)
    BY <1>1 DEF PlanFits
<1> QED BY <1>2 DEF FitInv, Sequential

\* A handler begins: `fits` is what PlanFits asks of its plan.
LEMMA PlannedFits ==
    ASSUME Sequential, IInv, FitInv, NEW r \in Requests, NEW s \in Surveys,
           NEW op, NEW arg, NEW data, NEW theirs, NEW peer,
           UNCHANGED <<row, ident>>, Begin(r, op, s, arg), Plan(r, data, peer, theirs),
           Written(ident[s], data).pid \in FormulaPids \cup {ident[s].pid},
           op \in {"update", "correct"} => Live(row, s),
           op = "update" \/ (op = "correct" /\ peer = None)
               => Fits(s, Written(ident[s], data), row, ident),
           op = "correct" /\ peer # None
               => /\ peer \in Surveys \ {s} /\ Live(row, peer)
                  /\ ident[peer].pid = Written(ident[s], data).pid
                  /\ ident[peer].year = ident[s].year
                  /\ Written(ident[s], data).year = ident[s].year
                  /\ theirs = Data(SwappedColumns, ident[s])
    PROVE  FitInv'
<1>1. req'[r].op = op /\ req'[r].id = s
    BY DEF Begin, IInv, TypeOK
<1>2. plan'[r] = [data |-> data, peer |-> peer, theirs |-> theirs]
    BY DEF Plan, IInv, TypeOK
<1>3. plan'[r].data = data /\ plan'[r].peer = peer /\ plan'[r].theirs = theirs
    BY <1>2
<1>4. PlanFits(req'[r], plan'[r], row, ident)
    BY <1>1, <1>3 DEF PlanFits
<1> QED BY <1>4 DEF FitInv, Sequential

LEMMA SurveysBeginFits ==
    ASSUME Sequential, IInv, FitInv,
           NEW r \in Requests, NEW u \in Users, NEW s \in Surveys, HandlerBegins(r, u, s)
    PROVE  FitInv'
<1>a. ident[s] \in Identity
    BY DEF IInv, TypeOK
<1>b. {"submit", "approve", "reject", "reopen", "delete", "restore", "assign", "child"}
        \subseteq OpNames \ {"update", "ensure", "quarantine", "correct"}
    BY DEF OpNames
<1>1. ASSUME NEW patch \in Patches, BeginUpdate(r, u, s, patch)
      PROVE  FitInv'
    <2> DEFINE data == UpdatePlan(ident[s], patch)
               new == Written(ident[s], data)
    <2>1. /\ Begin(r, "update", s, None) /\ Plan(r, data, None, NoData)
          /\ UNCHANGED <<row, ident>> /\ Active(s)
          /\ \/ new.pid = ident[s].pid /\ new.year = ident[s].year
             \/ Conflicts(new.pid, new.year, s) = {}
        BY <1>1 DEF BeginUpdate
    <2>2. new.pid \in FormulaPids \cup {ident[s].pid}
        BY <1>a, UpdateIdentity
    <2> HIDE DEF new
    <2>3. Fits(s, new, row, ident)
        BY <2>1, OwnFits, NoConflictFits DEF IInv
    <2>4. Live(row, s)
        BY <2>1, LiveActive
    <2> USE DEF new
    <2> HIDE DEF data
    <2> QED BY <2>1, <2>2, <2>3, <2>4, PlannedFits
<1>2. CASE BeginSubmit(r, u, s)
    BY <1>2, <1>b, PlainFits DEF BeginSubmit
<1>3. CASE BeginApprove(r, u, s)
    BY <1>3, <1>b, PlainFits DEF BeginApprove
<1>4. ASSUME NEW remarks \in BOOLEAN, BeginReject(r, u, s, remarks)
      PROVE  FitInv'
    BY <1>4, <1>b, PlainFits DEF BeginReject
<1>5. CASE BeginReopen(r, u, s)
    BY <1>5, <1>b, PlainFits DEF BeginReopen
<1>6. CASE BeginSoftDelete(r, u, s)
    BY <1>6, <1>b, PlainFits DEF BeginSoftDelete
<1>7. CASE BeginRestore(r, u, s)
    BY <1>7, <1>b, PlainFits DEF BeginRestore
<1>8. ASSUME NEW to \in Users, BeginAssign(r, u, s, to)
      PROVE  FitInv'
    BY <1>8, <1>b, PlainFits DEF BeginAssign
<1>9. ASSUME NEW complete \in ChildStates, BeginChildEdit(r, u, s, complete)
      PROVE  FitInv'
    BY <1>9, <1>b, PlainFits DEF BeginChildEdit
<1> QED BY <1>1, <1>2, <1>3, <1>4, <1>5, <1>6, <1>7, <1>8, <1>9 DEF HandlerBegins

LEMMA EnsureBeginFits ==
    ASSUME Sequential, IInv, FitInv, NEW r \in Requests, NEW s \in Surveys, BeginEnsure(r, s)
    PROVE  FitInv'
<1> DEFINE wardNo == ResolvePropertyWardNumber(ident[s].ward, ident[s].orig,
                                               ident[s].wardNo)
           d == FormatPropertyId(StoredUlbCode(ident[s]), wardNo, ident[s].parcel)
<1>1. ident[s] \in Identity
    BY DEF IInv, TypeOK
<1>2. /\ Begin(r, "ensure", s, None) /\ Plan(r, [pid |-> d], None, NoData)
      /\ UNCHANGED <<row, ident>> /\ d # None
    BY DEF BeginEnsure
<1>3. Written(ident[s], [pid |-> d]).pid \in FormulaPids
    BY <1>1, <1>2, EnsureIdentity
<1> HIDE DEF d
<1> QED BY <1>2, <1>3, PlannedFits

LEMMA CorrectBeginFits ==
    ASSUME Sequential, IInv, FitInv,
           NEW r \in Requests, NEW u \in Users, NEW s \in Surveys, NEW patch \in Patches,
           BeginCorrect(r, u, s, patch)
    PROVE  FitInv'
<1> DEFINE old == ident[s]
           data == CorrectPlan(old, patch)
           new == Written(old, data)
           conflicts == IF new.pid # old.pid \/ new.year # old.year
                        THEN Conflicts(new.pid, new.year, s) ELSE {}
           theirs == Data(SwappedColumns, old)
<1>1. /\ Begin(r, "correct", s, None) /\ UNCHANGED <<row, ident>> /\ Active(s)
      /\ IF conflicts = {}
         THEN Plan(r, data, None, NoData)
         ELSE /\ new.year = old.year
              /\ \E t \in conflicts : Plan(r, data, t, theirs)
    BY DEF BeginCorrect
<1>2. old \in Identity
    BY DEF IInv, TypeOK
<1>3. new.pid \in FormulaPids \cup {old.pid}
    BY <1>2, CorrectIdentity
<1>4. Live(row, s)
    BY <1>1, LiveActive
<1>5. CASE conflicts = {}
    <2>1. Plan(r, data, None, NoData)
        BY <1>1, <1>5
    <2>2. Fits(s, new, row, ident)
        <3> HIDE DEF new
        <3> QED BY <1>1, <1>5, OwnFits, NoConflictFits DEF IInv
    <2> HIDE DEF data
    <2> QED BY <1>1, <1>3, <1>4, <2>1, <2>2, PlannedFits
<1>6. CASE conflicts # {}
    <2>1. /\ new.year = old.year
          /\ \E t \in conflicts : Plan(r, data, t, theirs)
        <3> HIDE DEF conflicts, new
        <3> QED BY <1>1, <1>6
    <2>a. PICK t \in conflicts : Plan(r, data, t, theirs)
        <3> HIDE DEF conflicts
        <3> QED BY <2>1
    <2>2. t \in Conflicts(new.pid, new.year, s)
        <3> HIDE DEF new
        <3> QED BY <2>a
    <2>3. /\ t \in Surveys \ {s} /\ Live(row, t) /\ t # None
          /\ ident[t].pid = new.pid /\ ident[t].year = new.year
        <3> HIDE DEF new
        <3> QED BY <2>2, LiveActive, SentinelAssumption DEF Conflicts
    <2> HIDE DEF data, theirs
    <2>4. theirs = Data(SwappedColumns, old)
        BY DEF theirs
    <2> QED BY <1>1, <1>3, <1>4, <2>1, <2>a, <2>3, <2>4, PlannedFits
<1> QED BY <1>5, <1>6

LEMMA QcBeginFits ==
    ASSUME Sequential, IInv, FitInv,
           NEW r \in Requests, NEW u \in Users, NEW s \in Surveys,
           \/ BeginQcReopen(r, u, s)
           \/ BeginQcDelete(r, u, s)
           \/ BeginQuarantine(r, u, s)
           \/ \E patch \in Patches : BeginCorrect(r, u, s, patch)
    PROVE  FitInv'
<1>b. {"qcReopen", "qcDelete"}
        \subseteq OpNames \ {"update", "ensure", "quarantine", "correct"}
    BY DEF OpNames
<1>1. CASE BeginQcReopen(r, u, s)
    BY <1>1, <1>b, PlainFits DEF BeginQcReopen
<1>2. CASE BeginQcDelete(r, u, s)
    BY <1>2, <1>b, PlainFits DEF BeginQcDelete
<1>3. CASE BeginQuarantine(r, u, s)
    <2> DEFINE data == QuarantinePlan(ident[s])
    <2>1. /\ Begin(r, "quarantine", s, None) /\ Plan(r, data, None, NoData)
          /\ UNCHANGED <<row, ident>>
        BY <1>3 DEF BeginQuarantine
    <2>2. Written(ident[s], data).pid = ident[s].pid
        BY QuarantineIdentity
    <2> HIDE DEF data
    <2> QED BY <2>1, <2>2, PlannedFits
<1>4. CASE \E patch \in Patches : BeginCorrect(r, u, s, patch)
    BY <1>4, CorrectBeginFits
<1> QED BY <1>1, <1>2, <1>3, <1>4

LEMMA EndFits ==
    ASSUME Sequential, IInv, NEW r \in Requests,
           Reply(r) \/ req' = [req EXCEPT ![r].pc = "promote"],
           \A t \in Surveys : ident'[t].pid \notin SwapPids
    PROVE  FitInv'
<1>1. req'[r].pc # "commit"
    <2>1. CASE Reply(r)
        BY <2>1 DEF Reply, NoRequest, IInv, TypeOK
    <2>2. CASE req' = [req EXCEPT ![r].pc = "promote"]
        BY <2>2 DEF IInv, TypeOK, RequestType
    <2> QED BY <2>1, <2>2
<1>2. \A q \in Requests : PlanFits(req'[q], plan'[q], row', ident')
    BY <1>1 DEF PlanFits, Sequential
<1> QED BY <1>2 DEF FitInv

LEMMA QuietFits ==
    ASSUME Sequential, IInv, FitInv, NEW r \in Requests, Reply(r), UNCHANGED ident
    PROVE  FitInv'
BY EndFits DEF FitInv

LEMMA OwnFitsEnd ==
    ASSUME Sequential, IInv, FitInv, NEW r \in Requests,
           Committing(r, "update") \/ Committing(r, "ensure") \/ Committing(r, "quarantine"),
           ident' = [ident EXCEPT ![req[r].id] = Written(ident[req[r].id], plan[r].data)],
           Reply(r) \/ req' = [req EXCEPT ![r].pc = "promote"]
    PROVE  FitInv'
<1> DEFINE s == req[r].id
           new == Written(ident[s], plan[r].data)
<1>1. req[r].pc = "commit" /\ req[r].op \in {"update", "ensure", "quarantine", "correct"}
    BY DEF Committing
<1>2. s \in Surveys
    BY <1>1, CommitFacts
<1>3. new.pid \in FormulaPids \cup {ident[s].pid}
    BY <1>1 DEF FitInv, PlanFits
<1>4. ident'[s] = new /\ \A t \in Surveys \ {s} : ident'[t] = ident[t]
    BY <1>2 DEF IInv, TypeOK
<1> HIDE DEF new
<1>5. \A t \in Surveys : ident'[t].pid \notin SwapPids
    BY <1>2, <1>3, <1>4, SwapPidsApart DEF FitInv
<1> QED BY <1>5, EndFits

LEMMA SwapFits ==
    ASSUME Sequential, IInv, FitInv, NEW r \in Requests, CommitCorrect(r)
    PROVE  FitInv'
<1>1. req[r].pc = "commit" /\ req[r].op = "correct" /\ Reply(r)
    BY DEF CommitCorrect, Committing
<1>2. PICK s \in Surveys : s = req[r].id
    BY <1>1, CommitFacts
<1>3. PICK p : p = plan[r]
    OBVIOUS
<1>4. PlanFits(req[r], p, row, ident)
    BY <1>3 DEF FitInv
<1>5. Written(ident[s], p.data).pid \in FormulaPids \cup {ident[s].pid}
    BY <1>1, <1>2, <1>4 DEF PlanFits
<1>6. ident' = AfterSwap(p, AfterOwn(p, s, AfterPark(p, ident)))
    BY <1>2, <1>3 DEF CommitCorrect
<1>7. ident \in [Surveys -> Identity]
    BY DEF IInv, TypeOK
<1>8. \A t \in Surveys : ident[t].pid \notin SwapPids
    BY DEF FitInv
<1>9. Written(ident[s], p.data).pid \notin SwapPids
    BY <1>5, <1>8, SwapPidsApart
<1>10. CASE p.peer = None
    <2>1. ident' = [ident EXCEPT ![s] = Written(ident[s], p.data)]
        BY <1>6, <1>10 DEF AfterPark, AfterOwn, AfterSwap
    <2>2. \A t \in Surveys : ident'[t].pid \notin SwapPids
        BY <1>7, <1>8, <1>9, <2>1
    <2> QED BY <1>1, <2>2, EndFits
<1>11. CASE p.peer # None
    <2>1. PICK t \in Surveys \ {s} : t = p.peer
        BY <1>1, <1>2, <1>4, <1>11 DEF PlanFits
    <2>2. p.theirs = Data(SwappedColumns, ident[s])
        BY <1>1, <1>2, <1>4, <1>11 DEF PlanFits
    <2> DEFINE parked == AfterPark(p, ident)
               own == AfterOwn(p, s, parked)
    <2>3. DOMAIN parked = Surveys /\ \A x \in Surveys \ {t} : parked[x] = ident[x]
        BY <1>7, <1>11, <2>1 DEF AfterPark
    <2> HIDE DEF parked
    <2>4. /\ DOMAIN own = Surveys /\ own[s] = Written(ident[s], p.data)
          /\ \A x \in Surveys \ {s, t} : own[x] = ident[x]
        BY <2>1, <2>3 DEF AfterOwn
    <2>5. ident' = [own EXCEPT ![t] = Written(own[t], p.theirs)]
        BY <1>6, <1>11, <2>1 DEF AfterSwap, parked
    <2>6. Written(own[t], p.theirs).pid = ident[s].pid
        BY <2>2 DEF Written, Or, Data, SwappedColumns
    <2> HIDE DEF own
    <2>7. /\ ident'[t].pid = ident[s].pid
          /\ ident'[s] = Written(ident[s], p.data)
          /\ \A x \in Surveys \ {s, t} : ident'[x] = ident[x]
        BY <2>1, <2>4, <2>5, <2>6
    <2>8. \A x \in Surveys : ident'[x].pid \notin SwapPids
        BY <1>8, <1>9, <2>1, <2>7
    <2> QED BY <1>1, <2>8, EndFits
<1> QED BY <1>10, <1>11

LEMMA RestoreFits ==
    ASSUME Sequential, IInv, FitInv, NEW r \in Requests, CommitRestore(r)
    PROVE  FitInv'
<1>1. PICK s \in Surveys : s = req[r].id
    BY CommitFacts DEF CommitRestore, Committing
<1>2. PICK pid \in {ident[s].pid, TempRestore(s)} :
        ident' = [ident EXCEPT ![s].pid = pid]
    BY <1>1 DEF CommitRestore
<1>3. /\ ident'[s].pid = pid
      /\ \A t \in Surveys \ {s} : ident'[t] = ident[t]
    BY <1>2 DEF IInv, TypeOK, Identity
<1>4. \A t \in Surveys : ident'[t].pid \notin SwapPids
    BY <1>3, SwapPidsApart DEF FitInv
<1> QED BY <1>4, EndFits DEF CommitRestore

\* A creation is the one request, and no client creates a survey under the temporary
\* Property ID of a swap.
LEMMA CreateFits ==
    ASSUME Sequential, IInv, FitInv, NEW r \in Requests, NEW u, NEW s \in Surveys,
           NEW dto \in NewSurveys, Create(r, u, s, dto)
    PROVE  FitInv'
<1>1. req'[r].pc = "idle"
    BY DEF Create, NoRequest
<1>2. \A q \in Requests : PlanFits(req'[q], plan'[q], row', ident')
    BY <1>1 DEF PlanFits, Sequential
<1>3. dto.pid \in ClientPids \cup FormulaPids
    BY InputAssumption DEF CreateDto
<1>4. /\ ident'[s].pid = dto.pid
      /\ \A t \in Surveys \ {s} : ident'[t] = ident[t]
    BY DEF Create, IInv, TypeOK
<1>5. \A t \in Surveys : ident'[t].pid \notin SwapPids
    BY <1>3, <1>4, SwapPidsApart DEF FitInv
<1> QED BY <1>2, <1>5 DEF FitInv

LEMMA InitFits == Init => FitInv
<1> SUFFICES ASSUME Init PROVE FitInv
    OBVIOUS
<1>1. \A s \in Surveys : ident[s].pid \notin SwapPids
    BY SwapPidsApart DEF Init, NoIdentity
<1>2. \A r \in Requests : PlanFits(req[r], plan[r], row, ident)
    BY DEF Init, NoRequest, PlanFits
<1> QED BY <1>1, <1>2 DEF FitInv

LEMMA NextFits ==
    ASSUME Sequential, IInv, FitInv, [Next]_vars
    PROVE  FitInv'
<1>1. CASE UNCHANGED vars
    BY <1>1 DEF vars, FitInv
<1>2. ASSUME NEW r \in Requests,
             \/ PromoteUpdate(r) \/ CommitSubmit(r) \/ CommitApprove(r) \/ CommitReject(r)
             \/ CommitReopen(r) \/ CommitQcReopen(r)
      PROVE  FitInv'
    BY <1>2, QuietFits
       DEF PromoteUpdate, CommitSubmit, CommitApprove, CommitReject, CommitReopen,
           CommitQcReopen, TransitionStatus
<1>3. ASSUME NEW r \in Requests,
             \/ CommitDelete(r, "delete") \/ CommitDelete(r, "qcDelete") \/ CommitAssign(r)
             \/ CommitChildEdit(r) \/ Abandon(r)
      PROVE  FitInv'
    BY <1>3, QuietFits DEF CommitDelete, CommitAssign, CommitChildEdit, Abandon
<1>4. ASSUME NEW r \in Requests, CommitUpdate(r) \/ CommitEnsure(r) \/ CommitQuarantine(r)
      PROVE  FitInv'
    BY <1>4, OwnFitsEnd DEF CommitUpdate, CommitEnsure, CommitQuarantine
<1>5. CASE SurveysNext
    <2>1. ASSUME NEW r \in Requests, NEW u \in Users, NEW s \in Surveys,
                 NEW dto \in NewSurveys, Create(r, u, s, dto)
          PROVE  FitInv'
        BY <2>1, CreateFits
    <2>2. ASSUME NEW r \in Requests, NEW s \in Surveys, BeginEnsure(r, s)
          PROVE  FitInv'
        BY <2>2, EnsureBeginFits
    <2>3. ASSUME NEW r \in Requests, NEW u \in Users, NEW s \in Surveys,
                 HandlerBegins(r, u, s)
          PROVE  FitInv'
        BY <2>3, SurveysBeginFits
    <2>4. ASSUME NEW r \in Requests,
                 \/ CommitUpdate(r) \/ PromoteUpdate(r) \/ CommitEnsure(r)
                 \/ CommitSubmit(r) \/ CommitApprove(r) \/ CommitReject(r)
                 \/ CommitReopen(r) \/ CommitDelete(r, "delete") \/ CommitRestore(r)
                 \/ CommitAssign(r) \/ CommitChildEdit(r)
          PROVE  FitInv'
        BY <1>2, <1>3, <1>4, <2>4, RestoreFits
    <2> QED BY <1>5, <2>1, <2>2, <2>3, <2>4 DEF SurveysNext, HandlerBegins
<1>6. CASE QcNext
    <2>1. ASSUME NEW r \in Requests, NEW u \in Users, NEW s \in Surveys,
                 \/ BeginQcReopen(r, u, s) \/ BeginQcDelete(r, u, s)
                 \/ BeginQuarantine(r, u, s)
                 \/ \E patch \in Patches : BeginCorrect(r, u, s, patch)
          PROVE  FitInv'
        BY <2>1, QcBeginFits
    <2>2. ASSUME NEW r \in Requests,
                 \/ CommitQcReopen(r) \/ CommitDelete(r, "qcDelete")
                 \/ CommitQuarantine(r) \/ CommitCorrect(r)
          PROVE  FitInv'
        BY <1>2, <1>3, <1>4, <2>2, SwapFits
    <2> QED BY <1>6, <2>1, <2>2 DEF QcNext
<1> QED BY <1>1, <1>3, <1>5, <1>6 DEF Next

\* While requests do not overlap, the unique index refuses no update, correction or
\* swap that the checks of its handler accepted, whatever year, ward or parcel they
\* write and whatever Property IDs clients create surveys under.
THEOREM ChecksAreEnough ==
    ASSUME Sequential
    PROVE  Spec => []ChecksSuffice
<1>1. Init => FitInv
    BY InitFits
<1>2. IInv /\ FitInv /\ [Next]_vars => FitInv'
    BY NextFits
<1>3. IInv /\ FitInv => ChecksSuffice
    BY FitsSuffices
<1> QED BY <1>1, <1>2, <1>3, InvariantHolds, PTL DEF Spec
=============================================================================
