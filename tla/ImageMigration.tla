--------------------------- MODULE ImageMigration ---------------------------
(***************************************************************************)
(* The workers that copy imported photos into the bucket                   *)
(* (apps/worker/src/images) beside the requests of PhotosService: the      *)
(* image-migration queue, with retries and one job per photo, and exports, *)
(* which run the same process() for photos they need (export-worker        *)
(* ensurePhotoObjectKey) without the queue and beside its jobs.            *)
(***************************************************************************)
EXTENDS PhotosService

CONSTANTS
    QueueWorkers,   \* slots of ImageMigrationProcessor (its concurrency)
    Exporters,      \* exports that ensure photos
    BadSources,     \* imported photos whose source URL is not http(s)
    MaxAttempts,    \* attempts of a queued job (4 in the code)
    MaxStalls,      \* times BullMQ takes back a job of a dead worker (default 1)
    MaxEnqueues     \* bound: times an import of these photos reaches its end

ASSUME MigrationAssumption ==
    /\ QueueWorkers \cap Exporters = {} /\ None \notin QueueWorkers \cup Exporters
    /\ BadSources \subseteq Imported
    /\ MaxAttempts \in Nat \ {0} /\ {MaxStalls, MaxEnqueues} \subseteq Nat

Workers == QueueWorkers \cup Exporters

VARIABLES
    job,       \* job[p]: the queue's job `${p}-migrate`
    enqueues,  \* imports that reached their end (bounded by MaxEnqueues)
    twice      \* history: photos two migrations were at work on at once

vars == <<photo, objects, used, req, calls, mig, smooth, doomed, job, enqueues, twice>>

\* cut: history, it failed with an attempt that left nothing on the photo: one
\* ended by a dead worker or by a status that could not be written.
Job == [state : {"none", "waiting", "active", "failed"}, left : 0..MaxAttempts,
        stalls : 0..MaxStalls, cut : BOOLEAN]
NoJob == [state |-> "none", left |-> 0, stalls |-> 0, cut |-> FALSE]

\* Where process() is; prev: importStatus as read, which an export restores.
Migration == [at : {"-", "mark", "copy", "record", "count", "broken", "countFail"},
              id : Photos \cup {None}, prev : Statuses]
Free == [at |-> "-", id |-> None, prev |-> "NONE"]
Queued(w) == w \in QueueWorkers
Restored(w, p) == IF Queued(w) THEN "NONE" ELSE photo[p].status

Step(w, at) == mig' = [mig EXCEPT ![w].at = at]
SetStatus(p, status) == photo' = [photo EXCEPT ![p].status = status]

\* ImageMigrationProcessor: a result it can accept completes the job
\* (removeOnComplete), an error costs an attempt and the last one fails the job.
Spent(j, cut) == [j EXCEPT !.left = @ - 1, !.cut = cut /\ j.left = 1,
                           !.state = IF j.left = 1 THEN "failed" ELSE "waiting"]
Done(w) ==
    /\ mig' = [mig EXCEPT ![w] = Free]
    /\ job' = IF Queued(w) THEN [job EXCEPT ![mig[w].id] = NoJob] ELSE job
Errs(w, cut) ==
    /\ mig' = [mig EXCEPT ![w] = Free]
    /\ job' = IF Queued(w) THEN [job EXCEPT ![mig[w].id] = Spent(@, cut)] ELSE job

-----------------------------------------------------------------------------
(* Importing: listPendingForSurveys, addBulk. The photo counters of the      *)
(* import job are left out, the calls that write them are steps below.       *)
(* A job id that is still in the queue, failed jobs included, is not added  *)
(* again.                                                                   *)

EnqueuePending ==
    LET pending == {p \in Imported : Live(p) /\ photo[p].status = "PENDING"} IN
    /\ enqueues < MaxEnqueues /\ pending # {}
    /\ enqueues' = enqueues + 1
    /\ job' = [p \in Photos |->
                IF p \in pending /\ job[p].state = "none"
                THEN [NoJob EXCEPT !.state = "waiting", !.left = MaxAttempts] ELSE job[p]]
    /\ UNCHANGED <<photoVars, mig, twice>>

-----------------------------------------------------------------------------
(* ImageMigrationService.process                                            *)

\* A queue worker takes a waiting job; an export picks a photo it finds no key for.
MayTake(w, p) == IF Queued(w) THEN job[p].state = "waiting"
                 ELSE Live(p) /\ photo[p].key = None

\* "Photo not found", "Already migrated" and an invalid URL end the job at once.
Skips(w) ==
    \E p \in Photos :
        /\ Queued(w) /\ mig[w] = Free /\ MayTake(w, p)
        /\ ~Live(p) \/ photo[p].key # None \/ p \in BadSources
        /\ IF Live(p) /\ photo[p].key = None THEN SetStatus(p, "FAILED") ELSE UNCHANGED photo
        /\ job' = [job EXCEPT ![p] = NoJob]
        /\ UNCHANGED <<objects, used, req, calls, mig, smooth, doomed, enqueues, twice>>

\* The first read of a job throws, or marking a photo whose URL is invalid does.
ReadFails(w) ==
    \E p \in Photos :
        /\ Queued(w) /\ mig[w] = Free /\ MayTake(w, p)
        /\ job' = [job EXCEPT ![p] = Spent(@, TRUE)]
        /\ UNCHANGED <<photoVars, mig, enqueues, twice>>

\* Mutant: the worker does not look at objectKey.
ReadsUnchecked(w) ==
    \E p \in Photos \ BadSources :
        /\ mig[w] = Free /\ MayTake(w, p) /\ Live(p)
        /\ mig' = [mig EXCEPT ![w] = [at |-> "mark", id |-> p, prev |-> Restored(w, p)]]
        /\ job' = IF Queued(w) THEN [job EXCEPT ![p].state = "active"] ELSE job
        /\ twice' = IF \E v \in Workers \ {w} : mig[v].id = p THEN twice \cup {p} ELSE twice
        /\ smooth' = (smooth /\ ~Busy(p, Requests, Workers \ {w}))
        /\ UNCHANGED <<photo, objects, used, req, calls, doomed, enqueues>>

Reads(w) ==
    \E p \in Photos \ BadSources :
        /\ mig[w] = Free /\ MayTake(w, p)
        /\ Live(p) /\ photo[p].key = None
        /\ mig' = [mig EXCEPT ![w] = [at |-> "mark", id |-> p, prev |-> Restored(w, p)]]
        /\ job' = IF Queued(w) THEN [job EXCEPT ![p].state = "active"] ELSE job
        /\ twice' = IF \E v \in Workers \ {w} : mig[v].id = p THEN twice \cup {p} ELSE twice
        /\ smooth' = (smooth /\ ~Busy(p, Requests, Workers \ {w}))
        /\ UNCHANGED <<photo, objects, used, req, calls, doomed, enqueues>>

\* Outside the try: a row deleted meanwhile makes process() itself throw.
Marks(w) ==
    LET p == mig[w].id IN
    /\ mig[w].at = "mark"
    /\ IF Live(p) THEN SetStatus(p, "PROCESSING") /\ Step(w, "copy") /\ UNCHANGED job
                  ELSE Errs(w, FALSE) /\ UNCHANGED photo
    /\ UNCHANGED <<objects, used, req, calls, smooth, doomed, enqueues, twice>>

\* downloadWithRetry and putObject, under a key that the photo determines; the
\* object may be stored although putObject throws, its answer lost.
Copies(w) ==
    LET stored == objects \cup {MigratedKey(mig[w].id)} IN
    /\ mig[w].at = "copy"
    /\ \/ objects' = stored /\ Step(w, "record") /\ Calm
       \/ UNCHANGED objects /\ Step(w, "broken") /\ Calm
       \/ objects' = stored /\ Step(w, "broken") /\ CutShort
    /\ UNCHANGED <<photo, used, req, calls, doomed, job, enqueues, twice>>

Records(w) ==
    LET p == mig[w].id IN
    /\ mig[w].at = "record"
    /\ Live(p)
    /\ photo' = [photo EXCEPT ![p].key = MigratedKey(p), ![p].status = "SUCCEEDED"]
    /\ IF Queued(w) THEN Step(w, "count") /\ UNCHANGED job ELSE Done(w)
    /\ UNCHANGED <<objects, used, req, calls, smooth, doomed, enqueues, twice>>

\* The row is gone, or the database refuses: the object was stored for nothing.
RecordFails(w) ==
    /\ mig[w].at = "record"
    /\ Step(w, "broken")
    /\ CutShort
    /\ UNCHANGED <<photo, objects, used, req, calls, doomed, job, enqueues, twice>>

\* photoSuccessCount is written inside the try: when it cannot be, the catch
\* block marks the stored photo FAILED.
CountsSuccess(w) ==
    /\ mig[w].at = "count"
    /\ \/ Done(w)
       \/ Step(w, "broken") /\ UNCHANGED job
    /\ UNCHANGED <<photoVars, enqueues, twice>>

\* Mutant: a queued job restores the status too, as an export does.
BreaksRestoring(w) ==
    LET p == mig[w].id IN
    /\ mig[w].at = "broken"
    /\ IF Live(p)
       THEN /\ SetStatus(p, IF mig[w].prev = "NONE" THEN "PENDING" ELSE mig[w].prev)
            /\ IF Queued(w) THEN Step(w, "countFail") /\ UNCHANGED job ELSE Done(w)
       ELSE Errs(w, FALSE) /\ UNCHANGED photo
    /\ UNCHANGED <<objects, used, req, calls, smooth, doomed, enqueues, twice>>

\* The catch: a queued job marks the photo FAILED, an export restores its status.
Breaks(w) ==
    LET p == mig[w].id IN
    /\ mig[w].at = "broken"
    /\ IF Live(p)
       THEN /\ SetStatus(p, IF Queued(w) THEN "FAILED"
                            ELSE IF mig[w].prev = "NONE" THEN "PENDING" ELSE mig[w].prev)
            /\ IF Queued(w) THEN Step(w, "countFail") /\ UNCHANGED job ELSE Done(w)
       ELSE Errs(w, FALSE) /\ UNCHANGED photo
    /\ UNCHANGED <<objects, used, req, calls, smooth, doomed, enqueues, twice>>

\* A 404 completes the job; any other reason, and photoFailureCount that cannot
\* be written, is thrown and retried.
CountsFailure(w) ==
    /\ mig[w].at = "countFail"
    /\ Done(w) \/ Errs(w, FALSE)
    /\ UNCHANGED <<photoVars, enqueues, twice>>

\* The PROCESSING update throws, or the status the catch block writes does: the
\* photo stays as it is, PROCESSING in the second case.
StatusNotWritten(w) ==
    /\ mig[w].at \in {"mark", "broken"}
    /\ Errs(w, TRUE)
    /\ UNCHANGED <<photoVars, enqueues, twice>>

\* Mutant: a stalled job is handed out again without end.
DiesWithoutLimit(w) ==
    LET p == mig[w].id IN
    /\ mig[w] # Free
    /\ mig' = [mig EXCEPT ![w] = Free]
    /\ job' = IF ~Queued(w) THEN job
              ELSE [job EXCEPT ![p].state = "waiting", ![p].stalls = @ + 1]
    /\ CutShort
    /\ UNCHANGED <<photo, objects, used, req, calls, doomed, enqueues, twice>>

\* The worker process stops.  BullMQ finds the lock expired and hands the job out
\* again, MaxStalls times; then the job fails with no trace on the photo.
WorkerDies(w) ==
    LET p == mig[w].id IN
    /\ mig[w] # Free
    /\ mig' = [mig EXCEPT ![w] = Free]
    /\ job' = IF ~Queued(w) THEN job
              ELSE IF job[p].stalls = MaxStalls
              THEN [job EXCEPT ![p].state = "failed", ![p].cut = TRUE]
              ELSE [job EXCEPT ![p].state = "waiting", ![p].stalls = @ + 1]
    /\ CutShort
    /\ UNCHANGED <<photo, objects, used, req, calls, doomed, enqueues, twice>>

WorkerStep(w) ==
    \/ Skips(w) \/ Reads(w) \/ Marks(w) \/ Copies(w) \/ Records(w) \/ RecordFails(w)
    \/ CountsSuccess(w) \/ Breaks(w) \/ CountsFailure(w)

\* The database refuses a statement, or the worker dies.
WorkerFails(w) == ReadFails(w) \/ StatusNotWritten(w) \/ WorkerDies(w)

-----------------------------------------------------------------------------

Init ==
    /\ PhotosInit
    /\ mig = [w \in Workers |-> Free]
    /\ job = [p \in Photos |-> NoJob]
    /\ enqueues = 0 /\ twice = {}

ApiStep == ((\E r \in Requests : RequestStep(r)) \/ CreateLegacy)
           /\ UNCHANGED <<mig, job, enqueues, twice>>

Next == \/ ApiStep
        \/ EnqueuePending
        \/ \E w \in Workers : WorkerStep(w) \/ WorkerFails(w)

\* A running worker goes on and takes the next job.  Nothing says a client sends a
\* request, an import runs, a statement fails or a process dies.
Spec == Init /\ [][Next]_vars /\ \A w \in QueueWorkers : WF_vars(WorkerStep(w))
=============================================================================
