------------------------------ MODULE AuditEtl ------------------------------
(***************************************************************************)
(* The audit ETL (packages/audit-etl): runs of runAuditEtlPipeline list    *)
(* the legacy audit log page by page, upsert the records they can read     *)
(* into audit_events, append the others to audit_etl_dlq and then move the *)
(* shared cursor under an optimistic lock. Runs may overlap, every call    *)
(* may fail and be retried, answers may be lost and a run may die between  *)
(* any two calls.                                                          *)
(***************************************************************************)
EXTENDS Integers, FiniteSets

CONSTANTS
    N,          \* the log holds at most the records 1..N, numbered in the
                \* order (_creationTime, _id) it is listed in
    Bad,        \* records legacyAuditRecordSchema or the transform rejects
    Runners,    \* processes that may run the pipeline
    Limits,     \* batchSize a run may be configured with
    Caps,       \* maxBatches a run may be called with
    ChunkSize,  \* UPSERT_CHUNK_SIZE
    MaxRetries, \* config.maxRetries
    MaxRuns     \* bound: runs that are started

ASSUME AuditAssumption ==
    /\ N \in Nat /\ Bad \subseteq 1..N
    /\ Limits \subseteq Nat \ {0} /\ Caps \subseteq Nat
    /\ {ChunkSize, MaxRetries} \subseteq Nat \ {0} /\ MaxRuns \in Nat

VARIABLES
    source,  \* how many records the legacy log holds by now
    events,  \* audit_events, by eventId
    dlq,     \* dlq[b]: rows of audit_etl_dlq with the payload of b
    cursor,  \* the audit_etl_cursors row
    run,     \* run[r]: where the pipeline of r is
    runs     \* runs started (bounded by MaxRuns)

vars == <<source, events, dlq, cursor, run, runs>>

Good == (1..N) \ Bad
GoodOf(l, t) == Good \cap (l + 1)..t
BadOf(l, t) == Bad \cap (l + 1)..t

\* from, to: the page in hand is the records from+1..to; done: isDone;
\* known: cursor.version as this run knows it; todo: events of the page not
\* yet committed in this attempt; out: how the last run of r ended.
Run == [at : {"-", "fetch", "upsert", "dlq", "advance", "reread"},
        from : 0..N, to : 0..N, done : BOOLEAN, known : Nat,
        limit : Limits \cup {0}, cap : Nat, batches : Nat, attempt : 1..MaxRetries,
        todo : SUBSET Good, out : {"-", "exhausted", "stopped", "failed"}]

Idle(out) == [at |-> "-", from |-> 0, to |-> 0, done |-> FALSE, known |-> 0, limit |-> 0,
              cap |-> 0, batches |-> 0, attempt |-> 1, todo |-> {}, out |-> out]

TypeOK ==
    /\ source \in 0..N
    /\ events \subseteq Good
    /\ dlq \in [Bad -> Nat]
    /\ cursor \in [pos : 0..N, version : Nat]
    /\ run \in [Runners -> Run]
    /\ runs \in Nat

Init ==
    /\ source = 0
    /\ events = {}
    /\ dlq = [b \in Bad |-> 0]
    /\ cursor = [pos |-> 0, version |-> 0]
    /\ run = [r \in Runners |-> Idle("-")]
    /\ runs = 0

-----------------------------------------------------------------------------
(* The legacy log only grows, and at its end. *)
LogEvent ==
    /\ source < N
    /\ source' = source + 1
    /\ UNCHANGED <<events, dlq, cursor, run, runs>>

Tables == <<events, dlq, cursor>>
End(r, out) == run' = [run EXCEPT ![r] = Idle(out)]

\* getOrCreate(): the run starts from the cursor and its version.
Start(r) ==
    /\ run[r].at = "-" /\ runs < MaxRuns
    /\ runs' = runs + 1
    /\ \E limit \in Limits, cap \in Caps :
          run' = [run EXCEPT ![r] = [Idle("-") EXCEPT
                    !.at = "fetch", !.from = cursor.pos, !.known = cursor.version,
                    !.limit = limit, !.cap = cap]]
    /\ UNCHANGED <<source, Tables>>

\* Mutants: a failing call is repeated for ever; a run whose last page fails
\* reports what isDone said.
RetryForEver(r, todo) ==
    run' = [run EXCEPT ![r].attempt = IF @ < MaxRetries THEN @ + 1 ELSE 1, ![r].todo = todo]
RetryReportsDone(r, todo) ==
    IF run[r].attempt < MaxRetries
    THEN run' = [run EXCEPT ![r].attempt = @ + 1, ![r].todo = todo]
    ELSE End(r, IF run[r].done THEN "exhausted" ELSE "failed")

\* An attempt fails: withRetry and postWithRetry start the whole call over,
\* the last one lets the error end the run.
Retry(r, todo) ==
    IF run[r].attempt < MaxRetries
    THEN run' = [run EXCEPT ![r].attempt = @ + 1, ![r].todo = todo]
    ELSE End(r, "failed")

\* Mutant: the page is taken to be full.
PageEndAssumesFull(r) == run[r].from + run[r].limit

PageEnd(r) == IF run[r].from + run[r].limit < source THEN run[r].from + run[r].limit ELSE source

\* What the pipeline does with a page: nothing of a kind, no call for it.
AfterLoad(l, t) == IF BadOf(l, t) # {} THEN "dlq" ELSE "advance"

\* Mutant: dead letters are appended before the events are loaded.
FirstCallDlq(l, t) == IF BadOf(l, t) # {} THEN "dlq" ELSE "upsert"

FirstCall(l, t) == IF GoodOf(l, t) # {} THEN "upsert" ELSE AfterLoad(l, t)

\* listAuditLogs after run[r].from. The page is fetched before maxBatches is
\* looked at; an empty one ends the run. The legacy side says isDone on a page
\* that reaches the end of the log, or with the empty page after it.
FetchPage(r) ==
    LET l == run[r].from
        t == PageEnd(r) IN
    /\ run[r].at = "fetch"
    /\ CASE run[r].batches >= run[r].cap -> End(r, "stopped")
         [] run[r].batches < run[r].cap /\ t <= l -> End(r, "exhausted")
         [] OTHER -> \E done \in {FALSE, t = source} :
                        run' = [run EXCEPT ![r].at = FirstCall(l, t), ![r].to = t,
                                  ![r].done = done, ![r].todo = GoodOf(l, t),
                                  ![r].attempt = 1]
    /\ UNCHANGED <<source, Tables, runs>>

FetchFails(r) ==
    /\ run[r].at = "fetch"
    /\ Retry(r, {})
    /\ UNCHANGED <<source, Tables, runs>>

\* The first ChunkSize events not yet committed: one transaction of upserts.
Chunk(todo) == {g \in todo : Cardinality({h \in todo : h <= g}) <= ChunkSize}

UpsertChunk(r) ==
    LET left == run[r].todo \ Chunk(run[r].todo) IN
    /\ run[r].at = "upsert"
    /\ events' = events \cup Chunk(run[r].todo)
    /\ run' = IF left # {} THEN [run EXCEPT ![r].todo = left]
              ELSE [run EXCEPT ![r].todo = {}, ![r].attempt = 1,
                               ![r].at = AfterLoad(run[r].from, run[r].to)]
    /\ UNCHANGED <<source, dlq, cursor, runs>>

\* Mutant: a retry goes on behind the chunk that failed.
UpsertFailsSkips(r) ==
    /\ run[r].at = "upsert"
    /\ \E landed \in {{}, Chunk(run[r].todo)} : events' = events \cup landed
    /\ Retry(r, run[r].todo \ Chunk(run[r].todo))
    /\ UNCHANGED <<source, dlq, cursor, runs>>

\* The transaction is rolled back, or it commits and its answer is lost.
UpsertFails(r) ==
    /\ run[r].at = "upsert"
    /\ \E landed \in {{}, Chunk(run[r].todo)} : events' = events \cup landed
    /\ Retry(r, GoodOf(run[r].from, run[r].to))
    /\ UNCHANGED <<source, dlq, cursor, runs>>

Buried(r) == [b \in Bad |-> IF b \in BadOf(run[r].from, run[r].to) THEN dlq[b] + 1 ELSE dlq[b]]

AppendDlq(r) ==
    /\ run[r].at = "dlq"
    /\ dlq' = Buried(r)
    /\ run' = [run EXCEPT ![r].at = "advance", ![r].attempt = 1]
    /\ UNCHANGED <<source, events, cursor, runs>>

\* createMany has no key to fold a repeated append: a lost answer buries twice.
AppendFails(r) ==
    /\ run[r].at = "dlq"
    /\ dlq' \in {dlq, Buried(r)}
    /\ Retry(r, {})
    /\ UNCHANGED <<source, events, cursor, runs>>

\* CursorManager.advance, first statement: compare-and-set on the version.
Advance(r) ==
    /\ run[r].at = "advance"
    /\ IF cursor.version = run[r].known
       THEN /\ cursor' = [pos |-> run[r].to, version |-> cursor.version + 1]
            /\ run' = [run EXCEPT ![r].at = "reread"]
       ELSE End(r, "failed") /\ UNCHANGED cursor
    /\ UNCHANGED <<source, events, dlq, runs>>

\* The page may turn out not to say where to go on from (nextCreationTime or
\* nextId is null): the cursor stays where it is and the generator returns.
LastPage(r) ==
    /\ run[r].at = "advance"
    /\ End(r, IF run[r].done THEN "exhausted" ELSE "stopped")
    /\ UNCHANGED <<source, Tables, runs>>

\* Second statement: the version this run goes on with is read back, and
\* may be one that another run has written since.
Reread(r) ==
    /\ run[r].at = "reread"
    /\ IF run[r].done THEN End(r, "exhausted")
       ELSE run' = [run EXCEPT ![r].at = "fetch", ![r].known = cursor.version,
                      ![r].from = run[r].to, ![r].batches = @ + 1, ![r].attempt = 1]
    /\ UNCHANGED <<source, Tables, runs>>

\* The process dies, or an error that is not retried ends the run.
Crash(r) ==
    /\ run[r].at # "-"
    /\ End(r, "failed")
    /\ UNCHANGED <<source, Tables, runs>>

-----------------------------------------------------------------------------
Step(r) ==
    \/ FetchPage(r) \/ FetchFails(r)
    \/ UpsertChunk(r) \/ UpsertFails(r)
    \/ AppendDlq(r) \/ AppendFails(r)
    \/ Advance(r) \/ LastPage(r) \/ Reread(r)

Next ==
    \/ LogEvent
    \/ \E r \in Runners : Start(r) \/ Step(r) \/ Crash(r)

Spec == Init /\ [][Next]_vars

\* Every call of a run in progress returns or throws in the end (fetch,
\* database and sleep are awaited and have timeouts).
FairSpec == Spec /\ \A r \in Runners : WF_vars(Step(r))

-----------------------------------------------------------------------------
Dead == {b \in Bad : dlq[b] > 0}
Delivered == events \cup Dead

\* No record is skipped, however runs overlap, fail and retry: everything up
\* to the cursor, where the next run begins, is an event or a dead letter
\* (pipeline.ts loads, buries, then advances; cursor_manager.ts).
NothingSkipped == 1..cursor.pos \subseteq Delivered

\* The detailed pipeline implements AuditDelivery: events are never taken
\* back, a record is buried only after every readable record before it is
\* stored (pipeline.ts:99), and the cursor only moves over delivered records,
\* back when a run adopted the version of another (cursor_manager.ts:61).
Delivery == INSTANCE AuditDelivery WITH stored <- events, dead <- Dead, mark <- cursor.pos
DeliverySpec == Delivery!DSpec

\* A run that reports the log exhausted has seen everything in it delivered
\* up to the end of its last page, though another run may have moved the
\* cursor back behind it (pipeline.ts:136-138).
ExhaustedIsDelivered ==
    [][\A r \in Runners :
          run[r].at # "-" /\ run'[r].at = "-" /\ run'[r].out = "exhausted"
             => 1..run[r].from \cup 1..run[r].to \subseteq Delivered']_vars

\* A run ends: retries are bounded, and the generator pages on from where
\* the page before ended until the log has no more (streamPages).
RunsEnd == \A r \in Runners : run[r].at # "-" ~> run[r].at = "-"
=============================================================================
