---------------------------- MODULE PhotosService ----------------------------
(***************************************************************************)
(* The photos of one survey: rows in the database, objects in the private  *)
(* bucket (apps/api/src/photos, apps/api/src/storage).  No transaction     *)
(* spans the two stores, so an upload, a replacement and a deletion are    *)
(* several steps of a request, which other requests interleave with, which *)
(* a dead process cuts short, and which undo the earlier store when the    *)
(* later one fails.  assertEditableSurvey decides whether a request starts *)
(* at all: one it refuses changes nothing and is not represented.          *)
(***************************************************************************)
EXTENDS Naturals

CONSTANTS
    Photos,     \* photo ids (cuids); an id is drawn once and never reused
    Uploads,    \* the random object keys uploadImage draws (bounds the uploads)
    Requests,   \* request slots
    MaxCalls,   \* bound: requests served
    Imported,   \* photos a workbook import left PENDING, with a source URL only
    None

\* "SIDE" is any type other than FRONT.
PhotoTypes == {"FRONT", "SIDE"}
Statuses == {"NONE", "PENDING", "PROCESSING", "SUCCEEDED", "FAILED"}

\* buildMigratedUploadObjectKey: the key of a migrated object is a function of the photo.
MigratedKey(p) == p
Keys == Uploads \cup {MigratedKey(p) : p \in Photos}

ASSUME SentinelAssumption == None \notin Photos \cup Uploads \cup PhotoTypes
ASSUME KeyAssumption == Photos \cap Uploads = {} /\ Imported \subseteq Photos
                        /\ MaxCalls \in Nat

VARIABLES
    photo,    \* photo[p]: row p, or what is left of it
    objects,  \* the keys stored in the bucket
    used,     \* random keys drawn so far
    req,      \* req[r]: the request in slot r
    calls,    \* requests started (bounded by MaxCalls)
    mig,      \* what the migration workers are doing (ImageMigration)
    smooth,   \* history: no two operations met on one photo, none was cut short
    doomed    \* history: photos a deletion went asked the storage to remove

photoVars == <<photo, objects, used, req, calls, smooth, doomed>>

-----------------------------------------------------------------------------

Row == [life : {"unborn", "live", "gone"}, type : PhotoTypes,
        key : Keys \cup {None}, status : Statuses]
Unborn == [life |-> "unborn", type |-> "SIDE", key |-> None, status |-> "NONE"]
Gone == [Unborn EXCEPT !.life = "gone"]
Live(p) == photo[p].life = "live"

\* Where a request is.  id: the row, seen: the objectKey it read, new: the key it
\* uploaded, type: the photo type it asks for, None when the body has none.
Request == [op : {"idle", "upload", "update", "replace", "delete"},
            at : {"-", "store", "check", "write", "rollback", "cleanup", "remove", "row"},
            id : Photos \cup {None}, seen : Keys \cup {None},
            new : Uploads \cup {None}, type : PhotoTypes \cup {None}]
Idle == [op |-> "idle", at |-> "-", id |-> None, seen |-> None, new |-> None,
         type |-> None]

At(r, op, at) == req[r].op = op /\ req[r].at = at
Move(r, at) == req' = [req EXCEPT ![r].at = at]
Start(r, request) ==
    /\ req[r] = Idle /\ calls < MaxCalls
    /\ calls' = calls + 1
    /\ req' = [req EXCEPT ![r] = request]
Finish(r) == req' = [req EXCEPT ![r] = Idle]

\* Some other request or worker is at work on photo p.
Busy(p, others, workers) ==
    \/ \E r \in others : req[r].id = p
    \/ \E w \in workers : mig[w].id = p
Meets(p, r) == Busy(p, Requests \ {r}, DOMAIN mig)
Calm == UNCHANGED smooth
CutShort == smooth' = FALSE

FrontFree(p) == \A q \in Photos \ {p} : ~(Live(q) /\ photo[q].type = "FRONT")

\* Index photos_surveyId_front_unique: one FRONT row per survey.
IndexAccepts(p, type) == type = "FRONT" => FrontFree(p)

-----------------------------------------------------------------------------
(* Object storage                                                           *)

UploadImage(k) ==
    /\ k \in Uploads \ used
    /\ used' = used \cup {k}
    /\ objects' = objects \cup {k}

\* deleteObject reports a failure instead of throwing.  After one the object may
\* be gone all the same: the answer was lost.
Deleted(k) == objects' = objects \ {k} /\ Calm
NotDeleted(k) == objects' \in {objects, objects \ {k}} /\ CutShort

-----------------------------------------------------------------------------
(* upload: object first, then the row in one transaction                    *)

UploadStores(r) ==
    \E k \in Uploads, type \in PhotoTypes :
        /\ UploadImage(k)
        /\ Start(r, [Idle EXCEPT !.op = "upload", !.at = "write", !.new = k, !.type = type])
        /\ UNCHANGED <<photo, smooth, doomed>>

\* PhotosRepository.create: the check under the survey row lock, the insert.
Insert(p, type, key) ==
    /\ photo[p] = Unborn
    /\ type = "FRONT" => FrontFree(p)
    /\ IndexAccepts(p, type)
    /\ photo' = [photo EXCEPT ![p] = [life |-> "live", type |-> type, key |-> key,
                                      status |-> "NONE"]]

\* uploadImage throws: 503, no row. The object may be stored all the same, its
\* answer lost; with nothing stored nothing has happened.
UploadNotStored(r) ==
    \E k \in Uploads :
        /\ req[r] = Idle /\ calls < MaxCalls
        /\ calls' = calls + 1
        /\ UploadImage(k)
        /\ CutShort
        /\ UNCHANGED <<photo, req, doomed>>

UploadInserts(r) ==
    \E p \in Photos :
        /\ At(r, "upload", "write")
        /\ Insert(p, req[r].type, req[r].new)
        /\ Finish(r)
        /\ UNCHANGED <<objects, used, smooth, doomed, calls>>

\* POST /photos, "create photo metadata with an existing URL (legacy)".
CreateLegacy ==
    \E p \in Photos, type \in PhotoTypes :
        /\ Insert(p, type, None)
        /\ UNCHANGED <<objects, used, req, smooth, doomed, calls>>

-----------------------------------------------------------------------------
(* update and replace: PhotosRepository.update under both                   *)

UpdateReads(r) ==
    \E p \in Photos, type \in PhotoTypes :
        /\ Live(p)
        /\ Start(r, [Idle EXCEPT !.op = "update", !.at = "check", !.id = p, !.type = type])
        /\ smooth' = (smooth /\ ~Meets(p, r))
        /\ UNCHANGED <<photo, objects, used, doomed>>

ReplaceReads(r) ==
    \E p \in Photos, type \in PhotoTypes \cup {None} :
        /\ Live(p)
        /\ Start(r, [Idle EXCEPT !.op = "replace", !.at = "store",
                                 !.id = p, !.seen = photo[p].key, !.type = type])
        /\ smooth' = (smooth /\ ~Meets(p, r))
        /\ UNCHANGED <<photo, objects, used, doomed>>

\* Mutant: the superseded object is removed before the row is written.
ReplaceRemovingFirst(r) ==
    \E k \in Uploads \ used :
        /\ At(r, "replace", "store")
        /\ used' = used \cup {k}
        /\ objects' = (objects \ {req[r].seen}) \cup {k}
        /\ req' = [req EXCEPT ![r].at = "check", ![r].new = k]
        /\ UNCHANGED <<photo, smooth, doomed, calls>>

ReplaceStores(r) ==
    \E k \in Uploads :
        /\ At(r, "replace", "store")
        /\ UploadImage(k)
        /\ req' = [req EXCEPT ![r].at = "check", ![r].new = k]
        /\ UNCHANGED <<photo, smooth, doomed, calls>>

\* uploadImage throws: 503, nothing is undone. The object may be stored all the
\* same, its answer lost.
ReplaceNotStored(r) ==
    /\ At(r, "replace", "store")
    /\ \/ UNCHANGED <<objects, used>> /\ Calm
       \/ (\E k \in Uploads : UploadImage(k)) /\ CutShort
    /\ Finish(r)
    /\ UNCHANGED <<photo, doomed, calls>>

\* The read of update: the row must exist, and FRONT must be free of other rows.
UpdateChecks(r) ==
    LET p == req[r].id IN
    /\ req[r].op \in {"update", "replace"} /\ req[r].at = "check"
    /\ Live(p)
    /\ req[r].type = "FRONT" /\ photo[p].type # "FRONT" => FrontFree(p)
    /\ Move(r, "write")
    /\ UNCHANGED <<photo, objects, used, smooth, doomed, calls>>

TypeAfter(r) == IF req[r].type = None THEN photo[req[r].id].type ELSE req[r].type

UpdateWrites(r) ==
    LET p == req[r].id IN
    /\ At(r, "update", "write")
    /\ Live(p) /\ IndexAccepts(p, TypeAfter(r))
    /\ photo' = [photo EXCEPT ![p].type = TypeAfter(r)]
    /\ Finish(r)
    /\ UNCHANGED <<objects, used, smooth, doomed, calls>>

ReplaceWrites(r) ==
    LET p == req[r].id IN
    /\ At(r, "replace", "write")
    /\ Live(p) /\ IndexAccepts(p, TypeAfter(r))
    /\ photo' = [photo EXCEPT ![p].type = TypeAfter(r), ![p].key = req[r].new]
    /\ IF req[r].seen # None THEN Move(r, "cleanup") ELSE Finish(r)
    /\ UNCHANGED <<objects, used, smooth, doomed, calls>>

\* The object of the row that was read, not of the row that was overwritten.
ReplaceCleansUp(r) ==
    /\ At(r, "replace", "cleanup")
    /\ Deleted(req[r].seen) \/ NotDeleted(req[r].seen)
    /\ Finish(r)
    /\ UNCHANGED <<photo, used, doomed, calls>>

-----------------------------------------------------------------------------
(* A row that cannot be written: refused, gone, or the database is down     *)

WriteFails(r) ==
    /\ req[r].at \in {"check", "write"}
    /\ IF req[r].op = "update" THEN Finish(r) ELSE Move(r, "rollback")
    /\ UNCHANGED <<photo, objects, used, smooth, doomed, calls>>

\* Mutant: a refused write leaves the object it stored.
RollBackNothing(r) ==
    /\ req[r].at = "rollback"
    /\ Finish(r)
    /\ UNCHANGED <<photo, objects, used, smooth, doomed, calls>>

RollBack(r) ==
    /\ req[r].at = "rollback"
    /\ Deleted(req[r].new) \/ NotDeleted(req[r].new)
    /\ Finish(r)
    /\ UNCHANGED <<photo, used, doomed, calls>>

-----------------------------------------------------------------------------
(* delete: object first, then the row                                       *)

DeleteReads(r) ==
    \E p \in Photos :
        /\ Live(p)
        /\ Start(r, [Idle EXCEPT !.op = "delete", !.at = "remove",
                                 !.id = p, !.seen = photo[p].key])
        /\ smooth' = (smooth /\ ~Meets(p, r))
        /\ UNCHANGED <<photo, objects, used, doomed>>

\* Without an objectKey the key is taken from the URL and names nothing in the bucket.
DeleteRemovesObject(r) ==
    /\ At(r, "delete", "remove")
    /\ \/ Deleted(req[r].seen) /\ Move(r, "row")
       \/ NotDeleted(req[r].seen) /\ Finish(r)
    /\ doomed' = doomed \cup {req[r].id}
    /\ UNCHANGED <<photo, used, calls>>

DeleteRow(r) ==
    LET p == req[r].id IN
    /\ At(r, "delete", "row")
    /\ photo' = IF Live(p) THEN [photo EXCEPT ![p] = Gone] ELSE photo
    /\ Finish(r)
    /\ UNCHANGED <<objects, used, smooth, doomed, calls>>

-----------------------------------------------------------------------------
\* The API process stops with the request unfinished.
RequestDies(r) ==
    /\ req[r] # Idle
    /\ Finish(r)
    /\ CutShort
    /\ UNCHANGED <<photo, objects, used, doomed, calls>>

RequestStep(r) ==
    \/ UploadStores(r) \/ UploadNotStored(r) \/ UploadInserts(r)
    \/ UpdateReads(r) \/ UpdateChecks(r) \/ UpdateWrites(r)
    \/ ReplaceReads(r) \/ ReplaceStores(r) \/ ReplaceNotStored(r)
    \/ ReplaceWrites(r) \/ ReplaceCleansUp(r)
    \/ WriteFails(r) \/ RollBack(r)
    \/ DeleteReads(r) \/ DeleteRemovesObject(r) \/ DeleteRow(r)
    \/ RequestDies(r)

PhotosInit ==
    /\ \E front \in SUBSET Imported :
        /\ \A p, q \in front : p = q
        /\ photo = [p \in Photos |->
                IF p \notin Imported THEN Unborn
                ELSE [life |-> "live", type |-> IF p \in front THEN "FRONT" ELSE "SIDE",
                      key |-> None, status |-> "PENDING"]]
    /\ objects = {} /\ used = {}
    /\ req = [r \in Requests |-> Idle] /\ calls = 0
    /\ smooth = TRUE /\ doomed = {}
=============================================================================
