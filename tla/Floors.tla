------------------------------- MODULE Floors -------------------------------
(***************************************************************************)
(* The floors of one survey, its plot and its stored built-up total        *)
(* (apps/api/src/floors/floors.repository.ts, the floor part of            *)
(* apps/api/src/qc/qc.repository.ts, packages/validation).  A floor request *)
(* is a Read Committed transaction of several statements: the plot check,  *)
(* the row, the re-read of all floors, the total on the survey.  A         *)
(* statement sees what is committed and what its own transaction wrote,    *)
(* and waits for a row or an index entry another transaction has written.  *)
(***************************************************************************)
EXTENDS Naturals, FiniteSetsExt, SequencesExt

CONSTANTS
    MaxFloors,    \* bound: floors ever created; ids are drawn in order, never reused
    Positions,    \* floorPosition of a floor
    Usages,       \* its usageFactor, with the constructionType
    Areas,        \* areaSqFt, in whole square feet: AREA_TOLERANCE_SQ_FT is below one
    Plots,        \* plotAreaSqFt, None when it is not set
    Corrections,  \* the QC corrections the instance makes
    Requests,     \* request slots
    MaxCalls,     \* bound: requests served
    Keep,         \* "undefined" in a body: the column is not sent
    None

FloorIds == 1..MaxFloors
\* "BUILT" is any property use but OPEN_LAND.
PropertyUses == {"BUILT", "OPEN_LAND"}

\* A survey has one row per segment; a PATCH may name any of its columns.
Segments == [position : Positions, usage : Usages]
SegmentPatches == [position : Positions \cup {Keep}, usage : Usages \cup {Keep}]
KeepsSegment == [position |-> Keep, usage |-> Keep]

\* The segment seg with the columns a body names.
Patched(seg, body) ==
    [position |-> IF body.position = Keep THEN seg.position ELSE body.position,
     usage |-> IF body.usage = Keep THEN seg.usage ELSE body.usage]

\* An entry of a correction's floor list: id is None for a row without one.
Entries == [id : FloorIds \cup {None}, seg : Segments, area : Areas \cup {0}]

ASSUME FloorsAssumption ==
    /\ Positions \subseteq STRING /\ Usages \subseteq STRING
    /\ Areas \subseteq Nat /\ Plots \subseteq Nat \cup {None}
    /\ MaxFloors \in Nat /\ MaxCalls \in Nat
    /\ Keep \notin Positions /\ Keep \notin Usages /\ Keep \notin Areas /\ Keep \notin Plots
    /\ None \notin Segments /\ None \notin FloorIds /\ Keep # None
    /\ Keep \notin PropertyUses
    /\ \A c \in Corrections :
        /\ c.use \in PropertyUses \cup {Keep} /\ c.plot \in Plots \cup {Keep}
        /\ c.floors = Keep \/ c.floors \in Seq(Entries)
        /\ c.use = Keep /\ c.plot = Keep => c.floors # Keep

VARIABLES
    floor,  \* floor[f]: the committed row f, or what is left of it
    use,    \* propertyUse of the survey
    plot,   \* plotAreaSqFt of the survey
    total,  \* totalBuiltAreaSqFt of the survey
    req,    \* req[r]: the request in slot r, with its uncommitted row and total
    corr,   \* the open correction of floors alone, with its uncommitted rows and total
    calls,  \* requests started
    exact,  \* history: the last write of the total was made undisturbed, under this use
    fits    \* history: every write so far kept to the plot or was made undisturbed

vars == <<floor, use, plot, total, req, corr, calls, exact, fits>>

-----------------------------------------------------------------------------

Row == [life : {"unborn", "live", "gone"}, seg : Segments \cup {None},
        area : Areas \cup {0}]
Unborn == [life |-> "unborn", seg |-> None, area |-> 0]
Gone == [Unborn EXCEPT !.life = "gone"]
Live(rows) == {f \in FloorIds : rows[f].life = "live"}
At(rows, seg) == {f \in Live(rows) : rows[f].seg = seg}

\* findFirst by segment.
RowAt(rows, seg) == IF At(rows, seg) = {} THEN None ELSE Min(At(rows, seg))

\* isExcludedFromPlotAreaCheck, countableFloorAreaForPlotCheck.
Excluded(seg) == seg.position = "OPEN_LAND" \/ seg.usage = "OPEN_LAND"
Countable(area, seg) == IF Excluded(seg) THEN 0 ELSE area

\* sumBuiltUpArea over some of the rows.
SumArea(rows, ids) ==
    MapThenSumSet(LAMBDA f : Countable(rows[f].area, rows[f].seg), ids)

\* What recalculateAreas stores.
BuiltUp(rows, u) == IF u = "OPEN_LAND" THEN 0 ELSE SumArea(rows, Live(rows))

\* Mutant: the check that forgets the rows that are already on the floor.
OwnAreaWithinPlot(seg, area, except) ==
    IF use = "OPEN_LAND" THEN Excluded(seg)
    ELSE plot # None => Countable(area, seg) <= plot

\* assertAreasWithinPlot: the row to be written, next to those of its floor.
WithinPlot(seg, area, except) ==
    IF use = "OPEN_LAND" THEN Excluded(seg)
    ELSE plot # None =>
           Countable(area, seg)
             + SumArea(floor, {f \in Live(floor) \ {except} :
                                 floor[f].seg.position = seg.position}) <= plot

-----------------------------------------------------------------------------
(* Requests and their transactions                                          *)

Request == [op : {"idle", "create", "update", "delete"},
            at : {"-", "check", "write", "again", "sum", "commit"},
            id : FloorIds \cup {None},   \* the row it writes
            seg : SegmentPatches \cup {None},
            area : Areas \cup {Keep, 0}, \* what its body asks for
            base : Row,                  \* the row an update read first
            row : Row,                   \* the uncommitted version of row id
            sum : Nat,                   \* the total it is going to store
            retried : BOOLEAN,
            alone : BOOLEAN]             \* history: nobody wrote since it began
Idle == [op |-> "idle", at |-> "-", id |-> None, seg |-> None, area |-> 0,
         base |-> Unborn, row |-> Unborn, sum |-> 0, retried |-> FALSE, alone |-> TRUE]

\* A QC correction that sends floors and no column of the survey: it holds the rows it
\* wrote, and takes the survey row with its last statement.
Correction == [at : {"-", "sum", "commit"},
               wrote : [FloorIds -> Row \cup {None}],  \* None: not its row
               sum : Nat, alone : BOOLEAN]
NoCorrection == [at |-> "-", wrote |-> [f \in FloorIds |-> None], sum |-> 0, alone |-> TRUE]

Disturbed(q) == IF q = Idle THEN q ELSE [q EXCEPT !.alone = FALSE]
Counted == calls < MaxCalls /\ calls' = calls + 1
DisturbCorrection ==
    corr' = IF corr = NoCorrection THEN corr ELSE [corr EXCEPT !.alone = FALSE]

Begin(r, request) ==
    /\ req[r] = Idle /\ Counted /\ DisturbCorrection
    /\ req' = [q \in Requests |->
        IF q = r
        THEN [request EXCEPT !.alone = corr = NoCorrection
                                       /\ \A o \in Requests \ {r} : req[o] = Idle]
        ELSE Disturbed(req[q])]
Step(r, op, at) == req[r].op = op /\ req[r].at = at
Finish(r) == req' = [req EXCEPT ![r] = Idle]
KeepSurvey == UNCHANGED <<use, plot, total>>
KeepHistory == UNCHANGED <<exact, fits>>

\* r has written a row and not committed.
Open(r) == req[r].at \in {"sum", "commit"}
\* What a statement of r's transaction sees.
Seen(r) == IF Open(r) THEN [floor EXCEPT ![req[r].id] = req[r].row] ELSE floor

\* Another transaction has written row f, or a row that leaves or takes seg.
RowLocked(r, f) ==
    corr.wrote[f] # None \/ \E q \in Requests \ {r} : Open(q) /\ req[q].id = f
SegmentLocked(r, seg) ==
    \/ \E f \in FloorIds : corr.wrote[f] # None /\ seg \in {corr.wrote[f].seg, floor[f].seg}
    \/ \E q \in Requests \ {r} :
        Open(q) /\ seg \in {req[q].row.seg, floor[req[q].id].seg}

\* Unique index floors_surveyId_floorPosition_usageFactor_constructionType_key.
IndexAccepts(f, seg) == At(floor, seg) \subseteq {f}

\* The ids transactions have drawn and not committed are taken.
FreshIds(r) ==
    {f \in FloorIds : floor[f] = Unborn /\ ~RowLocked(r, f)}

\* What is left to do needs the row alone.
Puts(r, f, row) ==
    req' = [req EXCEPT ![r] = [Idle EXCEPT !.op = req[r].op, !.at = "sum", !.id = f,
                                           !.row = row, !.alone = req[r].alone]]

-----------------------------------------------------------------------------
(* create                                                                   *)

Asked(area) == IF area = Keep THEN 0 ELSE area

CreateReads(r) ==
    \E seg \in Segments, area \in Areas \cup {Keep} :
        /\ WithinPlot(seg, Asked(area), RowAt(floor, seg))
        /\ Begin(r, [Idle EXCEPT !.op = "create", !.at = "write",
                                 !.id = RowAt(floor, seg), !.seg = seg, !.area = area])
        /\ KeepSurvey /\ KeepHistory /\ UNCHANGED floor

\* The second transaction, after the first lost a race for the segment.
CreateReadsAgain(r) ==
    LET q == req[r] IN
    /\ Step(r, "create", "again")
    /\ WithinPlot(q.seg, Asked(q.area), RowAt(floor, q.seg))
    /\ req' = [req EXCEPT ![r].at = "write", ![r].id = RowAt(floor, q.seg)]
    /\ KeepSurvey /\ KeepHistory /\ UNCHANGED <<floor, corr, calls>>

\* Mutant: an area the body leaves out is written all the same.
CreateOverwrites(r) ==
    LET f == req[r].id IN
    /\ Step(r, "create", "write")
    /\ f # None /\ f \in Live(floor) /\ ~RowLocked(r, f)
    /\ Puts(r, f, [floor[f] EXCEPT !.area = req[r].area])
    /\ KeepSurvey /\ KeepHistory /\ UNCHANGED <<floor, corr, calls>>

\* The row found, whatever segment it is of by now.
CreateUpdates(r) ==
    LET f == req[r].id IN
    /\ Step(r, "create", "write")
    /\ f # None /\ f \in Live(floor) /\ ~RowLocked(r, f)
    /\ Puts(r, f, IF req[r].area = Keep THEN floor[f]
                  ELSE [floor[f] EXCEPT !.area = req[r].area])
    /\ KeepSurvey /\ KeepHistory /\ UNCHANGED <<floor, corr, calls>>

CreateInserts(r) ==
    LET q == req[r] IN
    /\ Step(r, "create", "write") /\ q.id = None
    /\ FreshIds(r) # {} /\ ~SegmentLocked(r, q.seg)
    /\ LET f == Min(FreshIds(r)) IN
        /\ IndexAccepts(f, q.seg)
        /\ Puts(r, f, [life |-> "live", seg |-> q.seg, area |-> Asked(q.area)])
    /\ KeepSurvey /\ KeepHistory /\ UNCHANGED <<floor, corr, calls>>

\* P2002: a peer committed the segment first.
CreateConflicts(r) ==
    LET q == req[r] IN
    /\ Step(r, "create", "write") /\ q.id = None /\ ~q.retried
    /\ ~SegmentLocked(r, q.seg) /\ At(floor, q.seg) # {}
    /\ req' = [req EXCEPT ![r].at = "again", ![r].retried = TRUE]
    /\ KeepSurvey /\ KeepHistory /\ UNCHANGED <<floor, corr, calls>>

-----------------------------------------------------------------------------
(* update: findById and the duplicate lookup, then the transaction          *)

UpdateReads(r) ==
    \E f \in Live(floor), seg \in SegmentPatches, area \in Areas \cup {Keep} :
        /\ <<seg, area>> # <<KeepsSegment, Keep>>
        /\ Patched(floor[f].seg, seg) # floor[f].seg => At(floor, Patched(floor[f].seg, seg)) = {}
        /\ Begin(r, [Idle EXCEPT !.op = "update", !.at = "check", !.id = f,
                                 !.seg = seg, !.area = area, !.base = floor[f]])
        /\ KeepSurvey /\ KeepHistory /\ UNCHANGED floor

\* What the body leaves out is taken from the row that was read first.
UpdateChecks(r) ==
    LET q == req[r] IN
    /\ Step(r, "update", "check")
    /\ WithinPlot(Patched(q.base.seg, q.seg),
                  IF q.area = Keep THEN q.base.area ELSE q.area, q.id)
    /\ req' = [req EXCEPT ![r].at = "write", ![r].base = Unborn]
    /\ KeepSurvey /\ KeepHistory /\ UNCHANGED <<floor, corr, calls>>

\* What it leaves out is not written: the row keeps what it has by now.
UpdateWrites(r) ==
    LET q == req[r]
        seg == Patched(floor[q.id].seg, q.seg)
    IN
    /\ Step(r, "update", "write")
    /\ q.id \in Live(floor) /\ ~RowLocked(r, q.id)
    /\ seg # floor[q.id].seg => ~SegmentLocked(r, seg)
    /\ IndexAccepts(q.id, seg)
    /\ Puts(r, q.id, [floor[q.id] EXCEPT
                        !.seg = seg, !.area = IF q.area = Keep THEN @ ELSE q.area])
    /\ KeepSurvey /\ KeepHistory /\ UNCHANGED <<floor, corr, calls>>

(* delete                                                                   *)

DeleteWrites(r) ==
    \E f \in Live(floor) :
        /\ ~RowLocked(r, f)
        /\ Begin(r, [Idle EXCEPT !.op = "delete", !.at = "sum", !.id = f, !.row = Gone])
        /\ KeepSurvey /\ KeepHistory /\ UNCHANGED floor

-----------------------------------------------------------------------------
(* recalculateAreas, at the end of each of the three                        *)

\* Mutant: the floors are read outside the transaction.
SumCommitted(r) ==
    /\ req[r].at = "sum"
    /\ req' = [req EXCEPT ![r].at = "commit", ![r].sum = BuiltUp(floor, use)]
    /\ KeepSurvey /\ KeepHistory /\ UNCHANGED <<floor, corr, calls>>

Recalculates(r) ==
    /\ req[r].at = "sum"
    /\ req' = [req EXCEPT ![r].at = "commit", ![r].sum = BuiltUp(Seen(r), use)]
    /\ KeepSurvey /\ KeepHistory /\ UNCHANGED <<floor, corr, calls>>

\* The total is the last statement: it takes the survey row and commits.
Commits(r) ==
    /\ req[r].at = "commit"
    /\ floor' = Seen(r) /\ total' = req[r].sum
    /\ Finish(r)
    /\ exact' = req[r].alone /\ fits' = (fits /\ req[r].alone)
    /\ UNCHANGED <<use, plot, corr, calls>>

\* Refused, chosen by the deadlock detector, or its process is dead: rolled back.
RollsBack(r) ==
    /\ req[r] # Idle
    /\ Finish(r)
    /\ KeepSurvey /\ KeepHistory /\ UNCHANGED <<floor, corr, calls>>

-----------------------------------------------------------------------------
(* The writers that do not come through the floors module                   *)

DisturbRequests == req' = [q \in Requests |-> Disturbed(req[q])]
DisturbAll == DisturbRequests /\ DisturbCorrection

\* No floor lies outside the plot, or outside open land on open land.
Fits(rows, u, p) ==
    IF u = "OPEN_LAND" THEN \A f \in Live(rows) : Excluded(rows[f].seg)
    ELSE p # None =>
           \A f \in Live(rows) :
             SumArea(rows, {g \in Live(rows) :
                              rows[g].seg.position = rows[f].seg.position}) <= p

\* SurveysService.update: use and plot by id; no floor is looked at.
EditSurvey ==
    \E u \in PropertyUses, p \in Plots :
        /\ <<u, p>> # <<use, plot>> /\ Counted
        /\ use' = u /\ plot' = p
        /\ exact' = (exact /\ u = use) /\ fits' = (fits /\ Fits(floor, u, p))
        /\ DisturbAll
        /\ UNCHANGED <<floor, total>>

\* upsertFloor: by id, else by segment, else a new row.
Upsert(acc, e) ==
    LET own == IF e.id # None /\ e.id \in Live(acc.rows) THEN e.id ELSE None
        hit == IF own # None THEN own ELSE RowAt(acc.rows, e.seg)
        new == {f \in FloorIds : /\ acc.rows[f] = Unborn /\ corr.wrote[f] = None
                                 /\ \A q \in Requests : ~(Open(q) /\ req[q].id = f)}
        f == IF hit # None THEN hit ELSE IF new = {} THEN None ELSE Min(new)
    IN  IF f = None \/ (own # None /\ ~(At(acc.rows, e.seg) \subseteq {own}))
        THEN [acc EXCEPT !.ok = FALSE]
        ELSE [acc EXCEPT !.rows[f] = [life |-> "live", seg |-> e.seg, area |-> e.area],
                         !.kept = @ \cup {f}]

\* syncFloors: the list in order, then the rows it did not touch are deleted.
SyncFloors(list) ==
    LET done == FoldLeft(Upsert, [rows |-> floor, kept |-> {}, ok |-> TRUE], list)
    IN  [done EXCEPT !.rows = [f \in FloorIds |->
            IF f \in Live(done.rows) \ done.kept THEN Gone ELSE done.rows[f]]]

\* The list names no segment twice, and waits for no uncommitted floor.
ListAccepted(list) ==
    /\ \A i, j \in DOMAIN list : i # j => list[i].seg # list[j].seg
    /\ \A q \in Requests : Open(q) =>
        floor[req[q].id] = Unborn /\ \A i \in DOMAIN list : list[i].seg # req[q].row.seg
    /\ \A f \in FloorIds : corr.wrote[f] # None =>
        floor[f] = Unborn /\ \A i \in DOMAIN list : list[i].seg # corr.wrote[f].seg
    /\ SyncFloors(list).ok

\* Some column of the survey is sent: scalarData has something to write.
WritesSurvey(c) == c.use # Keep \/ c.plot # Keep

\* QcRepository.correct: plot and use, the floors, and the total when either says so.
\* The survey row is written first and held: no floor write commits before this does.
Correct ==
    \E c \in Corrections :
        /\ WritesSurvey(c) /\ Counted
        /\ use' = IF c.use = Keep THEN use ELSE c.use
        /\ plot' = IF c.plot = Keep THEN plot ELSE c.plot
        /\ IF c.floors # Keep
           THEN /\ ListAccepted(c.floors)
                /\ floor' = SyncFloors(c.floors).rows
                /\ total' = BuiltUp(floor', use')
           ELSE /\ floor' = floor
                /\ total' = IF c.use = "OPEN_LAND" THEN 0 ELSE total
        /\ exact' = (c.floors # Keep \/ c.use = "OPEN_LAND" \/ (exact /\ use' = use))
        /\ fits' = (fits /\ Fits(floor', use', plot'))
        /\ DisturbAll

\* A correction of the floors alone holds the rows of its list and no survey row.  Nothing
\* another transaction commits between the statements of syncFloors is a row of the list.
CorrectionSyncs ==
    \E c \in Corrections :
        /\ ~WritesSurvey(c) /\ corr = NoCorrection /\ Counted /\ ListAccepted(c.floors)
        /\ LET rows == SyncFloors(c.floors).rows
           IN  corr' = [at |-> "sum", sum |-> 0,
                        wrote |-> [f \in FloorIds |->
                          IF f \in Live(floor) \cup Live(rows) THEN rows[f] ELSE None],
                        alone |-> \A q \in Requests : req[q] = Idle]
        /\ DisturbRequests
        /\ KeepSurvey /\ KeepHistory /\ UNCHANGED floor

\* What its statements see: its own rows, and the others as they are committed by now.
CorrectionSeen ==
    [f \in FloorIds |-> IF corr.wrote[f] = None THEN floor[f] ELSE corr.wrote[f]]

CorrectionSums ==
    /\ corr.at = "sum"
    /\ corr' = [corr EXCEPT !.at = "commit", !.sum = BuiltUp(CorrectionSeen, use)]
    /\ KeepSurvey /\ KeepHistory /\ UNCHANGED <<floor, req, calls>>

CorrectionCommits ==
    /\ corr.at = "commit"
    /\ floor' = CorrectionSeen /\ total' = corr.sum
    /\ corr' = NoCorrection
    /\ exact' = corr.alone /\ fits' = (fits /\ Fits(floor', use, plot))
    /\ UNCHANGED <<use, plot, req, calls>>

CorrectionRollsBack ==
    /\ corr # NoCorrection /\ corr' = NoCorrection
    /\ KeepSurvey /\ KeepHistory /\ UNCHANGED <<floor, req, calls>>

-----------------------------------------------------------------------------

Init ==
    /\ floor = [f \in FloorIds |-> Unborn]
    /\ use \in PropertyUses /\ plot \in Plots
    /\ total = 0
    /\ req = [r \in Requests |-> Idle] /\ corr = NoCorrection /\ calls = 0
    /\ exact = TRUE /\ fits = TRUE

Next ==
    \/ \E r \in Requests :
        \/ CreateReads(r) \/ CreateReadsAgain(r) \/ CreateUpdates(r)
        \/ CreateInserts(r) \/ CreateConflicts(r)
        \/ UpdateReads(r) \/ UpdateChecks(r) \/ UpdateWrites(r)
        \/ DeleteWrites(r) \/ Recalculates(r) \/ Commits(r) \/ RollsBack(r)
    \/ EditSurvey \/ Correct
    \/ CorrectionSyncs \/ CorrectionSums \/ CorrectionCommits \/ CorrectionRollsBack

Spec == Init /\ [][Next]_vars

-----------------------------------------------------------------------------

\* Every variable has its shape.
TypeOK ==
    /\ floor \in [FloorIds -> Row] /\ req \in [Requests -> Request] /\ corr \in Correction
    /\ use \in PropertyUses /\ plot \in Plots /\ total \in Nat
    /\ calls \in 0..MaxCalls /\ exact \in BOOLEAN /\ fits \in BOOLEAN

\* The stored total is the built-up area of the floors, as long as the last transaction
\* that wrote it met no other and the use has not been edited since: one undisturbed write
\* of any floor repairs whatever two concurrent ones left (recalculateAreas).
TotalCountsFloors == exact => total = BuiltUp(floor, use)

\* No floor exceeds the plot, and open land has nothing built on it, as long as no two
\* floor writes met and no edit of the survey or correction went past the check
\* (assertAreasWithinPlot).
PlotLimit == fits => Fits(floor, use, plot)
=============================================================================
