----------------------------- MODULE ImportJob ------------------------------
(***************************************************************************)
(* One workbook import: the API that queues, resumes and retries it, the   *)
(* BullMQ queue, the workers that read the workbook in chunks and write    *)
(* one survey a row, and the synchronous import of the same workbook.      *)
(* A queued run is repeated when it throws or its worker dies, so several  *)
(* runs of one job may be under way at once.                               *)
(***************************************************************************)
EXTENDS Integers, FiniteSets

CONSTANTS
    R,           \* the workbook has rows 1..R (excel row i + 1)
    Pid,         \* Pid[i]: the Property ID of row i, of the sheet or derived
    Blank,       \* rows whose Property ID column is empty: the id is derived
    Late,        \* rows of a ULB and ward whose master data may be missing
    Workers,     \* slots of the imports queue (concurrency: 2)
    Syncs,       \* requests that import the workbook synchronously
    ChunkSize,   \* CHUNK_SIZE
    MaxAttempts, \* attempts of a queue entry (jobs.module.ts)
    MaxStalls,   \* times the queue restarts an entry whose worker died
    MaxAsks,     \* bound: resume, retry and synchronous requests
    MaxFaults    \* bound: failed rows, failed runs, deaths and lost calls

ASSUME ImportAssumption ==
    /\ R \in Nat /\ Blank \subseteq 1..R /\ Late \subseteq 1..R
    /\ {ChunkSize, MaxAttempts} \subseteq Nat \ {0}
    /\ {MaxStalls, MaxAsks, MaxFaults} \subseteq Nat
    /\ Workers \cap Syncs = {}

VARIABLES
    masters, \* what of the master data of Late is missing: "ulb", "ward" or ""
    surveys, \* surveys[p, k]: the row the active survey p (k = 1) or p-Dk
             \* was last written from, Field if no import wrote it, 0 if none
    job,     \* the import_jobs row; checkpoint is -1 while it is null
    queue,   \* entries of the imports queue that wait for a worker
    pending, \* resume and retry requests between their check and their writes
    run,     \* run[w]: where a worker or a synchronous request is
    asks, faults, \* counters (bounded by MaxAsks, MaxFaults)
    handled, \* history: rows some run of the job has tried
    written, \* history: rows whose transaction has committed
    retried, \* history: a retry of failed rows was granted
    lost     \* history: an entry was lost where no statement records it: its
             \* request failed after the job row was written, the queue gave
             \* it up, or its last attempt failed outside the try block

vars == <<masters, surveys, job, queue, pending, run, asks, faults, handled, written,
          retried, lost>>
History == <<handled, written, retried, lost>>

Rows == 1..R
Workbook == Rows
Field == R + 1
Procs == Workers \cup Syncs
Keys == {Pid[i] : i \in Rows} \X Rows

Errors == [rows : SUBSET Rows, pids : SUBSET {Pid[i] : i \in Rows}]
NoErrors == [rows |-> {}, pids |-> {}]

\* rows, pids: failedRows and failedPropertyIds of a retry.
Entry == [n : 0..MaxAsks, kind : {"import", "resume", "retry", "sync"}, rows : SUBSET Rows,
          pids : SUBSET {Pid[i] : i \in Rows}, tries : 0..MaxAttempts, stalls : 0..MaxStalls]
Request(n, kind, errors) == [n |-> n, kind |-> kind, rows |-> errors.rows, pids |-> errors.pids,
                             tries |-> 0, stalls |-> 0]

\* list: the rows this run considers, in workbook order; start: how many of
\* them it skips; pos: how many are behind it; chunk: rows of the current
\* chunk still to write; found: Property IDs its lookup found; bad: rows whose
\* ULB and ward it could not resolve (geoCache).
Run == [at : {"-", "load", "chunk", "rows"}, entry : Entry, list : SUBSET Rows, start : 0..R,
        pos : 0..R, chunk : SUBSET Rows, found : SUBSET {Pid[i] : i \in Rows},
        bad : SUBSET Rows, errors : Errors]
Idle == [at |-> "-", entry |-> Request(0, "import", NoErrors), list |-> {}, start |-> 0,
         pos |-> 0, chunk |-> {}, found |-> {}, bad |-> {}, errors |-> NoErrors]

TypeOK ==
    /\ masters \in {"ulb", "ward", ""}
    /\ surveys \in [Keys -> 0..Field]
    /\ job \in [status : {"-", "QUEUED", "PROCESSING", "SUCCEEDED", "FAILED"}, total : 0..R,
                processed : 0..R, checkpoint : -1..R, errors : Errors]
    /\ queue \subseteq Entry /\ pending \subseteq Entry
    /\ run \in [Procs -> Run]
    /\ asks \in 0..MaxAsks /\ faults \in 0..MaxFaults
    /\ handled \subseteq Rows /\ written \subseteq Rows
    /\ {retried, lost} \subseteq BOOLEAN

Init ==
    /\ masters \in {"ulb", "ward", ""}
    /\ surveys \in {[x \in Keys |-> IF x \in known THEN Field ELSE 0] :
                       known \in SUBSET {x \in Keys : x[2] = 1}}
    /\ job = [status |-> "-", total |-> 0, processed |-> 0, checkpoint |-> -1,
              errors |-> NoErrors]
    /\ queue = {} /\ pending = {}
    /\ run = [p \in Procs |-> Idle]
    /\ asks = 0 /\ faults = 0
    /\ handled = {} /\ written = {} /\ retried = FALSE /\ lost = FALSE

-----------------------------------------------------------------------------
(* The API.                                                                 *)

Busy == {"QUEUED", "PROCESSING"}
Fault == faults < MaxFaults /\ faults' = faults + 1

\* The missing masters are imported: the ULB first, then its wards.
AddMaster ==
    /\ masters # ""
    /\ masters' = IF masters = "ulb" THEN "ward" ELSE ""
    /\ UNCHANGED <<surveys, job, queue, pending, run, asks, faults, History>>

\* enqueueSurveyImport: the row is created QUEUED, then the workbook is stored
\* and the entry added; either may fail, and the row stays.
Submit ==
    /\ job.status = "-"
    /\ job' = [job EXCEPT !.status = "QUEUED"]
    /\ \/ queue' = queue \cup {Request(0, "import", NoErrors)} /\ UNCHANGED <<faults, lost>>
       \/ Fault /\ lost' = TRUE /\ UNCHANGED queue
    /\ UNCHANGED <<masters, surveys, pending, run, asks, handled, written, retried>>

\* resumeJob and retryFailedRows check the row they read ...
MayResume == job.status \in {"SUCCEEDED", "FAILED"}
             /\ ~(job.status = "SUCCEEDED" /\ job.processed >= job.total /\ job.total > 0)
MayRetry == job.status \in {"SUCCEEDED", "FAILED"} /\ job.errors.rows # {}

Ask ==
    /\ asks < MaxAsks
    /\ asks' = asks + 1
    /\ \/ MayResume /\ pending' = pending \cup {Request(asks + 1, "resume", NoErrors)}
       \/ MayRetry /\ pending' = pending \cup {Request(asks + 1, "retry", job.errors)}
    /\ UNCHANGED <<masters, surveys, job, queue, run, faults, History>>

\* ... and write it by id, whatever it is by now, before they add the entry.
Grant(q) ==
    /\ q \in pending
    /\ pending' = pending \ {q}
    /\ job' = [job EXCEPT !.status = "QUEUED",
                          !.processed = IF q.kind = "retry" THEN 0 ELSE @]
    /\ retried' = (retried \/ q.kind = "retry")
    /\ \/ queue' = queue \cup {q} /\ UNCHANGED <<faults, lost>>
       \/ Fault /\ lost' = TRUE /\ UNCHANGED queue
    /\ UNCHANGED <<masters, surveys, run, asks, handled, written>>

-----------------------------------------------------------------------------
(* A run.                                                                   *)

\* A throw sends the entry back until its attempts are used up.
Back(e) == IF e.kind # "sync" /\ e.tries + 1 < MaxAttempts
           THEN {[e EXCEPT !.tries = @ + 1]} ELSE {}

Take(w) ==
    /\ run[w].at = "-"
    /\ \E e \in queue :
          /\ queue' = queue \ {e}
          /\ run' = [run EXCEPT ![w] = [Idle EXCEPT !.at = "load", !.entry = e]]
    /\ job' = [job EXCEPT !.status = "PROCESSING"]
    /\ UNCHANGED <<masters, surveys, pending, asks, faults, History>>

\* The update to PROCESSING throws: the row is as the run found it.
TakeFails(w) ==
    /\ run[w].at = "-"
    /\ Fault
    /\ \E e \in queue :
          /\ queue' = (queue \ {e}) \cup Back(e)
          /\ lost' = (lost \/ Back(e) = {})
    /\ UNCHANGED <<masters, surveys, job, pending, run, asks, handled, written, retried>>

StartSync(s) ==
    /\ run[s].at = "-" /\ asks < MaxAsks
    /\ asks' = asks + 1
    /\ run' = [run EXCEPT ![s] = [Idle EXCEPT !.at = "load", !.entry = Request(0, "sync", NoErrors)]]
    /\ UNCHANGED <<masters, surveys, job, queue, pending, faults, History>>

Rank(i, list) == Cardinality({j \in list : j <= i})

\* The rows a retry takes: by number, or by the Property ID of the sheet.
ListFor(e) ==
    IF e.kind # "retry" THEN Workbook
    ELSE {i \in Workbook : i \in e.rows \/ (i \notin Blank /\ Pid[i] \in e.pids)}

\* readCheckpoint falls back on processedRows; slice() stops at the end.
StartFor(e, list) ==
    LET done == IF job.checkpoint >= 0 THEN job.checkpoint ELSE job.processed IN
    CASE e.kind # "resume" -> 0
      [] done <= Cardinality(list) -> done
      [] OTHER -> Cardinality(list)

\* The pair whose master is missing is reported under its first row, numbered
\* in the list of the run.
Preflight(list, bad) == {Rank(i, list) : i \in {j \in bad : \A h \in bad : j <= h}}

Load(p) ==
    LET e == run[p].entry
        list == ListFor(e)
        start == StartFor(e, list)
        bad == IF masters = "" THEN {} ELSE Late \cap list
        errors == [rows |-> Preflight(list, bad), pids |-> {}] IN
    /\ run[p].at = "load"
    /\ IF masters = "ulb" /\ bad # {}
       THEN /\ run' = [run EXCEPT ![p] = Idle]
            /\ job' = IF e.kind = "sync" THEN job
                      ELSE [job EXCEPT !.status = "FAILED", !.total = Cardinality(list),
                                       !.errors = errors]
       ELSE /\ run' = [run EXCEPT ![p].at = "chunk", ![p].list = list, ![p].start = start,
                                  ![p].pos = start, ![p].bad = bad, ![p].errors = errors]
            /\ job' = IF e.kind = "sync" THEN job ELSE [job EXCEPT !.total = Cardinality(list)]
    /\ UNCHANGED <<masters, surveys, queue, pending, asks, faults, History>>

\* Mutant: a resumed run counts from its own first row.
OccurrenceUnseeded(r, i) ==
    Cardinality({j \in r.list \ r.bad : Rank(j, r.list) > r.start /\ j <= i /\ Pid[j] = Pid[i]})

\* Row i is the k-th of its Property ID: skipped rows count when their
\* Property ID column is filled, rows of this run when they could be mapped.
Occurrence(r, i) ==
    LET same(j) == Pid[j] = Pid[i] IN
    Cardinality({j \in r.list : Rank(j, r.list) <= r.start /\ j \notin Blank /\ same(j)})
    + Cardinality({j \in r.list \ r.bad : Rank(j, r.list) > r.start /\ j <= i /\ same(j)})

ChunkOf(r) == {i \in r.list : Rank(i, r.list) \in (r.pos + 1)..(r.pos + ChunkSize)}

\* Mutant: rows are numbered as the sheet numbers them, header included.
FailedExcelRow(r, rows, pids) ==
    [r.errors EXCEPT !.rows = @ \cup {Rank(i, r.list) + 1 : i \in rows}, !.pids = @ \cup pids]

Failed(r, rows, pids) == [r.errors EXCEPT !.rows = @ \cup {Rank(i, r.list) : i \in rows},
                                          !.pids = @ \cup pids]

ChunkEnd(r) == IF r.pos + ChunkSize < Cardinality(r.list) THEN r.pos + ChunkSize
               ELSE Cardinality(r.list)

\* Mutant: the checkpoint is written before the rows of the chunk.
LookupCheckpointsFirst(p) ==
    LET r == run[p]
        rows == ChunkOf(r)
        first == {i \in rows \ r.bad : Occurrence(r, i) = 1} IN
    /\ r.at = "chunk" /\ rows # {}
    /\ run' = [run EXCEPT ![p].at = "rows", ![p].chunk = rows \ r.bad,
                 ![p].found = {Pid[i] : i \in {j \in first : surveys[Pid[j], 1] # 0}}]
    /\ handled' = handled \cup (rows \cap r.bad)
    /\ job' = [job EXCEPT !.processed = ChunkEnd(r), !.checkpoint = ChunkEnd(r)]
    /\ UNCHANGED <<masters, surveys, queue, pending, asks, faults, written, retried, lost>>

\* The rows of a chunk are mapped and one query looks their surveys up.
Lookup(p) ==
    LET r == run[p]
        rows == ChunkOf(r)
        first == {i \in rows \ r.bad : Occurrence(r, i) = 1} IN
    /\ r.at = "chunk" /\ rows # {}
    /\ run' = [run EXCEPT ![p].at = "rows", ![p].chunk = rows \ r.bad,
                 ![p].found = {Pid[i] : i \in {j \in first : surveys[Pid[j], 1] # 0}},
                 ![p].errors = Failed(r, rows \cap r.bad, {Pid[i] : i \in rows \cap r.bad})]
    /\ handled' = IF r.entry.kind = "sync" THEN handled ELSE handled \cup (rows \cap r.bad)
    /\ UNCHANGED <<masters, surveys, job, queue, pending, asks, faults, written, retried, lost>>

\* One transaction a row: the first row of a Property ID updates the survey
\* the lookup found, or creates it; a further one creates p-Dk. A create fails
\* on surveys_ulbId_propertyId_assessmentYear_active_key, and any transaction
\* may fail; the row is then recorded under the Property ID it would have had.
WriteRow(p) ==
    LET r == run[p]
        i == CHOOSE x \in r.chunk : \A j \in r.chunk : x <= j
        k == Occurrence(r, i)
        exists == k = 1 /\ Pid[i] \in r.found
        key == <<Pid[i], k>> IN
    /\ r.at = "rows" /\ r.chunk # {}
    /\ handled' = IF r.entry.kind = "sync" THEN handled ELSE handled \cup {i}
    /\ \/ /\ exists \/ surveys[key] = 0
          /\ surveys' = [surveys EXCEPT ![key] = i]
          /\ written' = written \cup {i}
          /\ run' = [run EXCEPT ![p].chunk = @ \ {i},
                                ![p].found = IF k = 1 THEN @ \cup {Pid[i]} ELSE @]
          /\ UNCHANGED faults
       \/ /\ \/ Fault
             \/ ~exists /\ surveys[key] # 0 /\ UNCHANGED faults
          /\ run' = [run EXCEPT ![p].chunk = @ \ {i},
                       ![p].errors = Failed(r, {i}, IF k = 1 THEN {Pid[i]} ELSE {})]
          /\ UNCHANGED <<surveys, written>>
    /\ UNCHANGED <<masters, job, queue, pending, asks, retried, lost>>

Checkpoint(p) ==
    LET end == ChunkEnd(run[p]) IN
    /\ run[p].at = "rows" /\ run[p].chunk = {}
    /\ run' = [run EXCEPT ![p].at = "chunk", ![p].pos = end, ![p].found = {}]
    /\ job' = IF run[p].entry.kind = "sync" THEN job
              ELSE [job EXCEPT !.processed = end, !.checkpoint = end]
    /\ UNCHANGED <<masters, surveys, queue, pending, asks, faults, History>>

\* The errors of this run replace those of the runs before it. The entry runs
\* again when queueing the photos fails afterwards, with the job SUCCEEDED, or
\* updateProgress(100) does, which the catch block turns into FAILED.
Finish(p) ==
    LET r == run[p]
        Ended(status) == IF r.entry.kind = "sync" THEN job
                         ELSE [job EXCEPT !.status = status, !.processed = r.pos,
                                          !.checkpoint = r.pos, !.errors = r.errors] IN
    /\ r.at = "chunk" /\ ChunkOf(r) = {}
    /\ run' = [run EXCEPT ![p] = Idle]
    /\ \/ job' = Ended("SUCCEEDED") /\ UNCHANGED <<queue, faults>>
       \/ /\ Fault
          /\ \E status \in {"SUCCEEDED", "FAILED"} : job' = Ended(status)
          /\ queue' = queue \cup Back(r.entry)
    /\ UNCHANGED <<masters, surveys, pending, asks, History>>

\* Mutant: the catch block leaves the job row alone.
ThrowKeepsStatus(p) ==
    /\ run[p].at # "-" /\ run[p].chunk = {}
    /\ Fault
    /\ run' = [run EXCEPT ![p] = Idle]
    /\ queue' = queue \cup Back(run[p].entry)
    /\ UNCHANGED <<masters, surveys, job, pending, asks, History>>

\* A read of the workbook, a lookup or a write of the job row throws, and the
\* catch block records it; a row that throws is caught by its own.
Throw(p) ==
    /\ run[p].at # "-" /\ run[p].chunk = {}
    /\ Fault
    /\ run' = [run EXCEPT ![p] = Idle]
    /\ job' = IF run[p].entry.kind = "sync" THEN job ELSE [job EXCEPT !.status = "FAILED"]
    /\ queue' = queue \cup Back(run[p].entry)
    /\ UNCHANGED <<masters, surveys, pending, asks, History>>

\* updateProgress(2), before the try block, or the update of the catch block
\* throws: the entry goes back and the row stays as it is.
ThrowUnrecorded(w) ==
    LET e == run[w].entry IN
    /\ run[w].at # "-" /\ run[w].chunk = {}
    /\ Fault
    /\ run' = [run EXCEPT ![w] = Idle]
    /\ queue' = queue \cup Back(e)
    /\ lost' = (lost \/ Back(e) = {})
    /\ UNCHANGED <<masters, surveys, job, pending, asks, handled, written, retried>>

\* The worker dies: the queue notices that the entry has stalled and restarts
\* it, until it gives it up and leaves the job row as it is.
Die(w) ==
    LET e == run[w].entry IN
    /\ run[w].at # "-"
    /\ Fault
    /\ run' = [run EXCEPT ![w] = Idle]
    /\ IF e.stalls < MaxStalls
       THEN queue' = queue \cup {[e EXCEPT !.stalls = @ + 1]} /\ UNCHANGED lost
       ELSE lost' = TRUE /\ UNCHANGED queue
    /\ UNCHANGED <<masters, surveys, job, pending, asks, handled, written, retried>>

-----------------------------------------------------------------------------
Step(p) == Load(p) \/ Lookup(p) \/ WriteRow(p) \/ Checkpoint(p) \/ Finish(p)

Next ==
    \/ AddMaster \/ Submit \/ Ask
    \/ \E q \in pending : Grant(q)
    \/ \E w \in Workers : Take(w) \/ TakeFails(w) \/ ThrowUnrecorded(w) \/ Die(w)
    \/ \E s \in Syncs : StartSync(s)
    \/ \E p \in Procs : Step(p) \/ Throw(p)

Spec == Init /\ [][Next]_vars

\* A request in progress goes on, a waiting entry is taken when a slot is
\* free, and a run goes on to its next statement.
Fairness ==
    /\ WF_vars(\E q \in pending : Grant(q))
    /\ WF_vars(\E w \in Workers : Take(w))
    /\ \A p \in Procs : WF_vars(Step(p))

FairSpec == Spec /\ Fairness

-----------------------------------------------------------------------------
\* A resumed run skips only rows that some run has tried: the checkpoint never
\* runs ahead of the rows, whatever overlaps or dies (import-worker:281-497).
\* A retry counts the rows of its own list, so this ends with the first one.
CheckpointCovers == retried \/ 1..job.checkpoint \subseteq handled

\* Rows of i's Property ID all have it in their column and are always mapped.
Steady(i) == \A j \in Rows : Pid[j] = Pid[i] => j \notin Blank \cup Late

\* Every imported row has a survey of its own: first upserts; extras get
\* -D2/-D3 (import-worker:203).
ImportedRowsStay == \A i \in written : Steady(i) => \E k \in Rows : surveys[Pid[i], k] = i

\* Until failed rows are retried no run, repeated, resumed or overlapping,
\* takes the survey of one row for another.
OnlyRetryDisplaces == retried \/ ImportedRowsStay

\* The job leaves QUEUED and PROCESSING, where resume and retry refuse it,
\* unless an entry was lost where no statement records it: a failure inside the
\* try block and an attempt the queue repeats never strand it.
JobSettles == job.status \in Busy ~> job.status \notin Busy \/ lost
=============================================================================
