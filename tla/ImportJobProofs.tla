--------------------------- MODULE ImportJobProofs ---------------------------
(***************************************************************************)
(* TLAPS proofs about ImportJob, for every workbook, chunk size, number of *)
(* workers, attempts and stalls: the state stays well formed, the          *)
(* checkpoint covers only rows that were tried, and until failed rows are  *)
(* retried no imported row loses its survey to another.                    *)
(***************************************************************************)
EXTENDS ImportJob, FiniteSetTheorems, WellFoundedInduction, TLAPS

Job == [status : {"-", "QUEUED", "PROCESSING", "SUCCEEDED", "FAILED"}, total : 0..R,
        processed : 0..R, checkpoint : -1..R, errors : Errors]
Pids == {Pid[i] : i \in Rows}

-----------------------------------------------------------------------------
(* Rows and their numbers.                                                  *)

LEMMA Bounds ==
    /\ R \in Nat /\ Blank \subseteq Rows /\ Late \subseteq Rows
    /\ ChunkSize \in Nat /\ ChunkSize > 0 /\ MaxAttempts \in Nat /\ MaxAttempts > 0
    /\ MaxStalls \in Nat /\ MaxAsks \in Nat /\ MaxFaults \in Nat
  BY ImportAssumption DEF Rows

\* Any rows of the workbook are finitely many, R at most.
LEMMA RowsFinite == ASSUME NEW S \in SUBSET Rows
                    PROVE  IsFiniteSet(S) /\ Cardinality(S) \in 0..R
<1>1. IsFiniteSet(Rows) /\ Cardinality(Rows) = R
  BY Bounds, FS_Interval DEF Rows
<1>2. IsFiniteSet(S) /\ Cardinality(S) <= R
  BY <1>1, FS_Subset
<1>3. Cardinality(S) \in Nat
  BY <1>2, FS_CardinalityType
<1>. QED BY <1>2, <1>3, Bounds

\* A row of a list has a number in it.
LEMMA RankType == ASSUME NEW list \in SUBSET Rows, NEW i \in list
                  PROVE  Rank(i, list) \in Rows
<1>. DEFINE upto == {j \in list : j <= i}
<1>1. i \in Int /\ i <= i
  BY Bounds DEF Rows
<1>2. i \in upto /\ upto \in SUBSET Rows
  BY <1>1
<1>. HIDE DEF upto
<1>3. IsFiniteSet(upto) /\ Cardinality(upto) \in 0..R /\ Cardinality(upto) # 0
  BY <1>2, RowsFinite, FS_EmptySet
<1>. QED BY <1>3, Bounds DEF upto, Rank, Rows

\* In the workbook a row is its own number.
LEMMA RankOfWorkbook == ASSUME NEW i \in Rows PROVE Rank(i, Rows) = i
<1>1. i \in Nat /\ i >= 1 /\ i <= R
  BY Bounds DEF Rows
<1>2. {j \in Rows : j <= i} = 1..i
  BY <1>1, Bounds DEF Rows
<1>3. Cardinality(1..i) = i
  BY <1>1, FS_Interval
<1>. QED BY <1>2, <1>3 DEF Rank

\* Rows have a first one.
LEMMA FirstRow == ASSUME NEW S \in SUBSET Rows, S # {},
                         NEW i, i = (CHOOSE x \in S : \A j \in S : x <= j)
                  PROVE  i \in S /\ \A j \in S : i <= j
<1>1. S \in SUBSET Nat
  BY Bounds DEF Rows
<1>2. PICK x \in S : \A y \in S : ~(<<y, x>> \in OpToRel(<, Nat))
  BY <1>1, WFMin, NatLessThanWellFounded, Zenon
<1>3. \A y \in S : ~(y < x)
  BY <1>1, <1>2, Zenon DEF OpToRel
<1>4. \A y \in S : x <= y
  BY <1>1, <1>3
<1>5. \E u \in S : \A j \in S : u <= j
  BY <1>4
<1>. QED BY <1>5, Zenon

-----------------------------------------------------------------------------
(* The types of what a step computes.                                       *)

LEMMA ChunkEndType == ASSUME NEW r \in Run
                      PROVE  ChunkEnd(r) \in 0..R
<1>1. r.list \in SUBSET Rows /\ r.pos \in 0..R
  BY DEF Run
<1>2. Cardinality(r.list) \in 0..R
  BY <1>1, RowsFinite
<1>. QED BY <1>1, <1>2, Bounds DEF ChunkEnd

LEMMA NoErrorsType == NoErrors \in Errors
  BY DEF NoErrors, Errors

LEMMA RequestType == ASSUME NEW n \in 0..MaxAsks, NEW errors \in Errors,
                            NEW kind \in {"import", "resume", "retry", "sync"}
                     PROVE  Request(n, kind, errors) \in Entry /\ Request(n, kind, errors).kind = kind
<1>1. 0 \in 0..MaxAttempts /\ 0 \in 0..MaxStalls
  BY Bounds
<1>. QED BY <1>1 DEF Request, Entry, Errors

LEMMA IdleType == Idle \in Run /\ Idle.entry.kind = "import" /\ Idle.at = "-" /\ Idle.chunk = {}
<1>1. PICK e : e = Request(0, "import", NoErrors)
  OBVIOUS
<1>2. e \in Entry /\ e.kind = "import"
  BY <1>1, RequestType, NoErrorsType, Bounds
<1>3. 0 \in 0..R
  BY Bounds
<1>4. Idle = [at |-> "-", entry |-> e, list |-> {}, start |-> 0, pos |-> 0, chunk |-> {},
              found |-> {}, bad |-> {}, errors |-> NoErrors]
  BY <1>1 DEF Idle
<1>. QED BY <1>2, <1>3, <1>4, NoErrorsType DEF Run

LEMMA ListType == ASSUME NEW e \in Entry
                  PROVE  ListFor(e) \in SUBSET Rows /\ (e.kind # "retry" => ListFor(e) = Rows)
  BY DEF ListFor, Workbook

\* A run starts at the beginning or behind rows the job row counts.
LEMMA StartType == ASSUME TypeOK, NEW e \in Entry, NEW list \in SUBSET Rows
                   PROVE  /\ StartFor(e, list) \in 0..R
                          /\ \/ StartFor(e, list) = 0
                             \/ StartFor(e, list) <= job.checkpoint
                             \/ StartFor(e, list) <= job.processed
<1>1. /\ Cardinality(list) \in 0..R /\ job.checkpoint \in -1..R /\ job.processed \in 0..R
      /\ R \in Nat
  BY RowsFinite, Bounds DEF TypeOK
<1>2. PICK done, n : /\ done = IF job.checkpoint >= 0 THEN job.checkpoint ELSE job.processed
                     /\ n = Cardinality(list)
  OBVIOUS
<1>3. done \in 0..R /\ (done = job.checkpoint \/ done = job.processed) /\ n \in 0..R
  BY <1>1, <1>2
<1>4. StartFor(e, list) = CASE e.kind # "resume" -> 0 [] done <= n -> done [] OTHER -> n
  BY <1>2, Zenon DEF StartFor
<1>5. \/ StartFor(e, list) = 0
      \/ StartFor(e, list) = done
      \/ StartFor(e, list) = n /\ ~(done <= n)
  BY <1>4
<1>. QED BY <1>1, <1>3, <1>5

LEMMA PreflightType == ASSUME NEW list \in SUBSET Rows, NEW bad \in SUBSET list
                       PROVE  [rows |-> Preflight(list, bad), pids |-> {}] \in Errors
<1>1. \A i \in list : Rank(i, list) \in Rows
  BY RankType
<1>2. Preflight(list, bad) \in SUBSET Rows
  BY <1>1 DEF Preflight
<1>. QED BY <1>2 DEF Errors

LEMMA FailedType == ASSUME NEW r \in Run, NEW rows \in SUBSET r.list, NEW pids \in SUBSET Pids
                    PROVE  Failed(r, rows, pids) \in Errors
<1>1. r.errors \in Errors /\ r.list \in SUBSET Rows
  BY DEF Run
<1>2. \A i \in r.list : Rank(i, r.list) \in Rows
  BY <1>1, RankType
<1>3. PICK new : new = {Rank(i, r.list) : i \in rows}
  OBVIOUS
<1>4. new \in SUBSET Rows
  BY <1>2, <1>3
<1>5. [r.errors EXCEPT !.rows = r.errors.rows \cup new, !.pids = r.errors.pids \cup pids] \in Errors
  BY <1>1, <1>4 DEF Errors, Pids
<1>. QED BY <1>3, <1>5 DEF Failed

\* What a throw puts back is an entry of the same kind.
LEMMA BackType == ASSUME NEW e \in Entry
                  PROVE  Back(e) \in SUBSET Entry /\ \A x \in Back(e) : x.kind = e.kind
<1>1. CASE e.kind # "sync" /\ e.tries + 1 < MaxAttempts
  <2>1. PICK z : z = [e EXCEPT !.tries = e.tries + 1]
    OBVIOUS
  <2>2. z \in Entry /\ z.kind = e.kind
    BY <1>1, <2>1, Bounds DEF Entry
  <2>3. Back(e) = {z}
    BY <1>1, <2>1 DEF Back
  <2>. QED BY <2>2, <2>3
<1>2. CASE ~(e.kind # "sync" /\ e.tries + 1 < MaxAttempts)
  BY <1>2 DEF Back
<1>. QED BY <1>1, <1>2

LEMMA ChunkRows == ASSUME NEW r
                   PROVE  ChunkOf(r) \subseteq r.list
  BY DEF ChunkOf

-----------------------------------------------------------------------------
(* The invariant.                                                           *)

\* All but the runs is well formed.
Tables ==
    /\ masters \in {"ulb", "ward", ""}
    /\ surveys \in [Keys -> 0..Field]
    /\ job \in Job
    /\ queue \subseteq Entry /\ pending \subseteq Entry
    /\ asks \in 0..MaxAsks /\ faults \in 0..MaxFaults
    /\ handled \subseteq Rows /\ written \subseteq Rows
    /\ {retried, lost} \subseteq BOOLEAN

\* A chunk is of the rows the run considers, and only while they are written.
Place(r) == r.chunk \subseteq r.list /\ (r.at # "rows" => r.chunk = {})

\* A run that is no retry considers the whole workbook, and its chunk lies
\* behind its position.
Straight(r) ==
    /\ r.entry.kind # "retry"
    /\ r.at \in {"chunk", "rows"} => r.list = Rows /\ r.bad \subseteq Late /\ r.start <= r.pos
    /\ r.at = "rows" => \A i \in r.chunk : r.pos < i

\* What is behind a run of the job is tried; so will be its chunk once it is
\* written.
Covers(r, tried) ==
    r.at \in {"chunk", "rows"} /\ r.entry.kind # "sync" =>
        /\ 1..r.pos \subseteq tried
        /\ r.at = "rows" => 1..ChunkEnd(r) \subseteq tried \cup r.chunk

NoRetryQueued == \A e \in queue : e.kind # "retry"
JobCovers == 1..job.processed \subseteq handled /\ 1..job.checkpoint \subseteq handled

\* Row i's place among the rows of its Property ID.
NumberOf(i) == Cardinality({j \in Rows : j <= i /\ Pid[j] = Pid[i]})

\* An imported row has the survey its place in the workbook gives it.
OwnSurveys == \A i \in written : Steady(i) => surveys[Pid[i], NumberOf(i)] = i

IInv ==
    /\ Tables /\ run \in [Procs -> Run]
    /\ \A p \in Procs : Place(run[p])
    /\ ~retried => /\ NoRetryQueued /\ JobCovers /\ OwnSurveys
                   /\ \A p \in Procs : Straight(run[p]) /\ Covers(run[p], handled)

\* A step of one run keeps the invariant if what it leaves of the run does.
LEMMA RunStep ==
    ASSUME IInv, NEW p \in Procs, NEW z \in Run, run' = [run EXCEPT ![p] = z], Place(z),
           Tables', handled \subseteq handled', retried' = retried,
           ~retried => /\ NoRetryQueued' /\ JobCovers' /\ OwnSurveys'
                       /\ Straight(z) /\ Covers(z, handled')
    PROVE  IInv'
<1>1. run \in [Procs -> Run]
  BY DEF IInv
<1>2. run' \in [Procs -> Run] /\ run'[p] = z /\ \A q \in Procs \ {p} : run'[q] = run[q]
  BY <1>1
<1>3. ASSUME NEW q \in Procs PROVE Place(run'[q])
  <2>1. CASE q = p
    BY <1>2, <2>1
  <2>2. CASE q # p
    <3>1. run'[q] = run[q] /\ Place(run[q])
      BY <1>2, <2>2 DEF IInv
    <3>. QED BY <3>1
  <2>. QED BY <2>1, <2>2
<1>4. ASSUME ~retried, NEW q \in Procs
      PROVE  Straight(run'[q]) /\ Covers(run'[q], handled')
  <2>1. CASE q = p
    BY <1>2, <1>4, <2>1
  <2>2. CASE q # p
    <3>1. run'[q] = run[q] /\ Straight(run[q]) /\ Covers(run[q], handled)
      BY <1>2, <1>4, <2>2 DEF IInv
    <3>2. Covers(run[q], handled')
      BY <3>1 DEF Covers
    <3>. QED BY <3>1, <3>2
  <2>. QED BY <2>1, <2>2
<1>5. \A q \in Procs : Place(run[q])'
  BY <1>3
<1>6. ~retried' => \A q \in Procs : Straight(run[q])' /\ Covers(run[q], handled)'
  BY <1>4
<1>. QED BY <1>2, <1>5, <1>6 DEF IInv

LEMMA WellTyped == IInv => TypeOK
  BY DEF IInv, Tables, Job, TypeOK

LEMMA Parts == ASSUME IInv
               PROVE  /\ asks \in 0..MaxAsks /\ faults \in 0..MaxFaults
                      /\ faults < MaxFaults => faults + 1 \in 0..MaxFaults
                      /\ asks < MaxAsks => asks + 1 \in 0..MaxAsks
                      /\ job \in Job /\ queue \in SUBSET Entry /\ pending \in SUBSET Entry
                      /\ run \in [Procs -> Run] /\ surveys \in [Keys -> 0..Field]
                      /\ masters \in {"ulb", "ward", ""}
<1>1. /\ asks \in 0..MaxAsks /\ faults \in 0..MaxFaults
      /\ job \in Job /\ queue \in SUBSET Entry /\ pending \in SUBSET Entry
      /\ run \in [Procs -> Run] /\ surveys \in [Keys -> 0..Field]
      /\ masters \in {"ulb", "ward", ""}
  BY DEF IInv, Tables
<1>2. asks \in 0..MaxAsks /\ faults \in 0..MaxFaults
  BY <1>1
<1>3. /\ faults < MaxFaults => faults + 1 \in 0..MaxFaults
      /\ asks < MaxAsks => asks + 1 \in 0..MaxAsks
  BY <1>2, Bounds
<1>. QED BY <1>1, <1>3, Zenon

\* A step of the API or of the queue leaves the runs alone.
LEMMA ApiStep ==
    ASSUME IInv, UNCHANGED <<run, handled>>, Tables',
           ~retried' => ~retried /\ NoRetryQueued' /\ JobCovers' /\ OwnSurveys'
    PROVE  IInv'
<1>1. ~retried' => \A p \in Procs : Straight(run[p])' /\ Covers(run[p], handled)'
  BY DEF IInv
<1>2. \A p \in Procs : Place(run[p])'
  BY DEF IInv
<1>. QED BY <1>1, <1>2 DEF IInv

LEMMA AddMasterKeeps == IInv /\ AddMaster => IInv'
<1> SUFFICES ASSUME IInv, AddMaster PROVE IInv'
  OBVIOUS
<1>1. UNCHANGED <<surveys, job, queue, pending, run, asks, faults, handled, written, retried, lost>>
  BY DEF AddMaster, History
<1>2. Tables'
  BY <1>1 DEF AddMaster, IInv, Tables
<1>3. ~retried' => ~retried /\ NoRetryQueued' /\ JobCovers' /\ OwnSurveys'
  BY <1>1 DEF IInv, NoRetryQueued, JobCovers, OwnSurveys, NumberOf, Steady
<1>. QED BY <1>1, <1>2, <1>3, ApiStep

LEMMA SubmitKeeps == IInv /\ Submit => IInv'
<1> SUFFICES ASSUME IInv, Submit PROVE IInv'
  OBVIOUS
<1>1. UNCHANGED <<masters, surveys, pending, run, asks, handled, written, retried>>
  BY DEF Submit
<1>2. PICK e : e = Request(0, "import", NoErrors)
  OBVIOUS
<1>3. e \in Entry /\ e.kind = "import"
  BY <1>2, RequestType, NoErrorsType, Bounds
<1>4. queue' \subseteq queue \cup {e} /\ faults' \in {faults, faults + 1} /\ lost' \in {lost, TRUE}
      /\ (faults' = faults \/ faults < MaxFaults)
  BY <1>2 DEF Submit, Fault
<1>5. job' = [job EXCEPT !.status = "QUEUED"] /\ job \in Job
  BY DEF Submit, IInv, Tables
<1>6. job' \in Job /\ job'.processed = job.processed /\ job'.checkpoint = job.checkpoint
  BY <1>5 DEF Job
<1>7. Tables'
  <2>1. faults' \in 0..MaxFaults
    BY <1>4, Parts
  <2>2. queue' \subseteq Entry /\ {retried, lost}' \subseteq BOOLEAN
    BY <1>1, <1>3, <1>4 DEF IInv, Tables
  <2>. QED BY <1>1, <1>6, <2>1, <2>2 DEF IInv, Tables
<1>8. ~retried' => ~retried /\ NoRetryQueued' /\ JobCovers' /\ OwnSurveys'
  BY <1>1, <1>3, <1>4, <1>6 DEF IInv, NoRetryQueued, JobCovers, OwnSurveys, NumberOf, Steady
<1>. QED BY <1>1, <1>7, <1>8, ApiStep

LEMMA AskKeeps == IInv /\ Ask => IInv'
<1> SUFFICES ASSUME IInv, Ask PROVE IInv'
  OBVIOUS
<1>1. UNCHANGED <<masters, surveys, job, queue, run, faults, handled, written, retried, lost>>
  BY DEF Ask, History
<1>2. asks' \in 0..MaxAsks /\ asks + 1 \in 0..MaxAsks /\ job.errors \in Errors
  BY Parts DEF Ask, Job
<1>3. /\ Request(asks + 1, "resume", NoErrors) \in Entry
      /\ Request(asks + 1, "retry", job.errors) \in Entry
  BY <1>2, RequestType, NoErrorsType
<1>4. pending' \subseteq Entry
  BY <1>3 DEF Ask, IInv, Tables
<1>5. Tables'
  BY <1>1, <1>2, <1>4 DEF IInv, Tables
<1>6. ~retried' => ~retried /\ NoRetryQueued' /\ JobCovers' /\ OwnSurveys'
  BY <1>1 DEF IInv, NoRetryQueued, JobCovers, OwnSurveys, NumberOf, Steady
<1>. QED BY <1>1, <1>5, <1>6, ApiStep

LEMMA GrantKeeps == ASSUME IInv, NEW q \in pending, Grant(q) PROVE IInv'
<1>1. UNCHANGED <<masters, surveys, run, asks, handled, written>>
  BY DEF Grant
<1>2. q \in Entry /\ pending' \subseteq Entry
  BY DEF Grant, IInv, Tables
<1>3. queue' \subseteq queue \cup {q} /\ faults' \in {faults, faults + 1} /\ lost' \in {lost, TRUE}
      /\ (faults' = faults \/ faults < MaxFaults)
  BY DEF Grant, Fault
<1>4. PICK n : /\ job' = [job EXCEPT !.status = "QUEUED", !.processed = n]
               /\ n = IF q.kind = "retry" THEN 0 ELSE job.processed
  BY DEF Grant
<1>5. job \in Job
  BY DEF IInv, Tables
<1>6. n \in 0..R /\ (q.kind # "retry" => n = job.processed)
  BY <1>4, <1>5, Bounds DEF Job
<1>7. job' \in Job /\ job'.processed = n /\ job'.checkpoint = job.checkpoint
  BY <1>4, <1>5, <1>6 DEF Job
<1>8. retried' = (retried \/ q.kind = "retry")
  BY DEF Grant
<1>9. Tables'
  <2>1. faults' \in 0..MaxFaults
    BY <1>3, Parts
  <2>2. {retried, lost}' \subseteq BOOLEAN
    BY <1>3, <1>8 DEF IInv, Tables
  <2>. QED BY <1>1, <1>2, <1>3, <1>7, <2>1, <2>2 DEF IInv, Tables
<1>10. ~retried' => ~retried /\ NoRetryQueued' /\ JobCovers' /\ OwnSurveys'
  <2> SUFFICES ASSUME ~retried'
               PROVE  ~retried /\ NoRetryQueued' /\ JobCovers' /\ OwnSurveys'
    OBVIOUS
  <2>1. ~retried /\ q.kind # "retry"
    BY <1>8
  <2>2. NoRetryQueued'
    BY <1>3, <2>1 DEF IInv, NoRetryQueued
  <2>3. JobCovers'
    BY <1>1, <1>6, <1>7, <2>1 DEF IInv, JobCovers
  <2>4. OwnSurveys'
    BY <1>1, <2>1 DEF IInv, OwnSurveys, NumberOf, Steady
  <2>. QED BY <2>1, <2>2, <2>3, <2>4
<1>. QED BY <1>1, <1>9, <1>10, ApiStep

-----------------------------------------------------------------------------
(* Steps of a run.                                                          *)

\* What the earlier steps say of the run and the tables.
LEMMA RunFacts == ASSUME IInv, NEW p \in Procs
                  PROVE  /\ run[p] \in Run /\ run[p].entry \in Entry
                         /\ run[p].list \in SUBSET Rows /\ run[p].chunk \in SUBSET Rows
                         /\ Place(run[p])
                         /\ ~retried => Straight(run[p]) /\ Covers(run[p], handled)
<1>1. run[p] \in Run
  BY DEF IInv
<1>2. /\ run[p].entry \in Entry /\ run[p].list \in SUBSET Rows
      /\ run[p].chunk \in SUBSET Rows
  BY <1>1 DEF Run
<1>. QED BY <1>1, <1>2 DEF IInv

\* A run that ends leaves nothing behind.
LEMMA IdleHolds == Place(Idle) /\ Straight(Idle) /\ \A tried : Covers(Idle, tried)
  BY IdleType DEF Place, Straight, Covers

LEMMA TakeKeeps == ASSUME IInv, NEW w \in Workers, Take(w) PROVE IInv'
<1>1. UNCHANGED <<masters, surveys, pending, asks, faults, handled, written, retried, lost>>
  BY DEF Take, History
<1>2. PICK e \in queue : /\ queue' = queue \ {e}
                         /\ run' = [run EXCEPT ![w] = [Idle EXCEPT !.at = "load", !.entry = e]]
  BY DEF Take
<1>3. PICK z : z = [Idle EXCEPT !.at = "load", !.entry = e]
  OBVIOUS
<1>4. e \in Entry
  BY Parts
<1>5. z \in Run /\ z.at = "load" /\ z.entry = e /\ z.chunk = {}
  BY <1>3, <1>4, IdleType DEF Run
<1>6. job' = [job EXCEPT !.status = "PROCESSING"] /\ job \in Job
  BY Parts DEF Take
<1>7. job' \in Job /\ job'.processed = job.processed /\ job'.checkpoint = job.checkpoint
  BY <1>6 DEF Job
<1>8. Tables'
  BY <1>1, <1>2, <1>7 DEF IInv, Tables
<1>9. Place(z)
  BY <1>5 DEF Place
<1>10. ~retried => /\ NoRetryQueued' /\ JobCovers' /\ OwnSurveys'
                   /\ Straight(z) /\ Covers(z, handled')
  <2> SUFFICES ASSUME ~retried
               PROVE  /\ NoRetryQueued' /\ JobCovers' /\ OwnSurveys'
                      /\ Straight(z) /\ Covers(z, handled')
    OBVIOUS
  <2>1. NoRetryQueued' /\ e.kind # "retry"
    BY <1>2 DEF IInv, NoRetryQueued
  <2>2. JobCovers' /\ OwnSurveys'
    BY <1>1, <1>7 DEF IInv, JobCovers, OwnSurveys, NumberOf, Steady
  <2>. QED BY <1>5, <2>1, <2>2 DEF Straight, Covers
<1>. QED BY <1>1, <1>2, <1>3, <1>5, <1>8, <1>9, <1>10, RunStep DEF Procs

LEMMA TakeFailsKeeps == ASSUME IInv, NEW w \in Workers, TakeFails(w) PROVE IInv'
<1>1. UNCHANGED <<masters, surveys, job, pending, run, asks, handled, written, retried>>
  BY DEF TakeFails
<1>2. faults < MaxFaults /\ faults' = faults + 1
  BY DEF TakeFails, Fault
<1>3. PICK e \in queue : /\ queue' = (queue \ {e}) \cup Back(e)
                         /\ lost' = (lost \/ Back(e) = {})
  BY DEF TakeFails
<1>4. Back(e) \in SUBSET Entry /\ \A x \in Back(e) : x.kind = e.kind
  BY Parts, BackType
<1>5. queue' \subseteq Entry /\ \A x \in queue' : \E y \in queue : x.kind = y.kind
  BY <1>3, <1>4, Parts
<1>6. faults' \in 0..MaxFaults /\ lost' \in BOOLEAN
  <2>1. faults' \in 0..MaxFaults
    BY <1>2, Parts
  <2>2. lost' \in BOOLEAN
    BY <1>3, Zenon
  <2>. QED BY <2>1, <2>2
<1>7. Tables'
  BY <1>1, <1>5, <1>6 DEF IInv, Tables
<1>8. ~retried' => ~retried /\ NoRetryQueued' /\ JobCovers' /\ OwnSurveys'
  BY <1>1, <1>5 DEF IInv, NoRetryQueued, JobCovers, OwnSurveys, NumberOf, Steady
<1>. QED BY <1>1, <1>7, <1>8, ApiStep

LEMMA StartSyncKeeps == ASSUME IInv, NEW s \in Syncs, StartSync(s) PROVE IInv'
<1>1. UNCHANGED <<masters, surveys, job, queue, pending, faults, handled, written, retried, lost>>
  BY DEF StartSync, History
<1>2. PICK e, z : /\ run' = [run EXCEPT ![s] = z] /\ z = [Idle EXCEPT !.at = "load", !.entry = e]
                  /\ e = Request(0, "sync", NoErrors)
  BY DEF StartSync
<1>3. e \in Entry /\ e.kind = "sync"
  BY <1>2, RequestType, NoErrorsType, Bounds
<1>4. z \in Run /\ z.at = "load" /\ z.entry = e /\ z.chunk = {}
  BY <1>2, <1>3, IdleType DEF Run
<1>5. asks' \in 0..MaxAsks
  BY Parts DEF StartSync
<1>6. Tables'
  BY <1>1, <1>5 DEF IInv, Tables
<1>7. Place(z) /\ Straight(z) /\ Covers(z, handled')
  BY <1>3, <1>4 DEF Place, Straight, Covers
<1>8. ~retried => NoRetryQueued' /\ JobCovers' /\ OwnSurveys'
  BY <1>1 DEF IInv, NoRetryQueued, JobCovers, OwnSurveys, NumberOf, Steady
<1>. QED BY <1>1, <1>2, <1>4, <1>6, <1>7, <1>8, RunStep DEF Procs

LEMMA LoadKeeps == ASSUME IInv, NEW p \in Procs, Load(p) PROVE IInv'
<1>. DEFINE e == run[p].entry
            list == ListFor(e)
            bad == IF masters = "" THEN {} ELSE Late \cap list
            errors == [rows |-> Preflight(list, bad), pids |-> {}]
<1>0. /\ run[p] \in Run /\ e \in Entry /\ Place(run[p]) /\ TypeOK /\ job \in Job
      /\ ~retried => Straight(run[p]) /\ Covers(run[p], handled)
  BY RunFacts, WellTyped, Parts
<1>1. UNCHANGED <<masters, surveys, queue, pending, asks, faults, handled, written, retried, lost>>
  BY DEF Load, History
<1>2. list \in SUBSET Rows /\ (e.kind # "retry" => list = Rows)
  BY <1>0, ListType
<1>3. bad \in SUBSET list /\ bad \subseteq Late
  OBVIOUS
<1>4. errors \in Errors /\ Cardinality(list) \in 0..R
  BY <1>2, <1>3, PreflightType, RowsFinite
<1>5. PICK start : start = StartFor(e, list)
  OBVIOUS
<1>6. /\ start \in 0..R
      /\ start = 0 \/ start <= job.checkpoint \/ start <= job.processed
  BY <1>0, <1>2, <1>5, StartType
<1>7. \/ run' = [run EXCEPT ![p] = Idle]
      \/ run' = [run EXCEPT ![p] = [run[p] EXCEPT !.at = "chunk", !.list = list, !.start = start,
                                                   !.pos = start, !.bad = bad, !.errors = errors]]
  BY <1>5 DEF Load
<1>8. \/ job' = job
      \/ job' = [job EXCEPT !.status = "FAILED", !.total = Cardinality(list), !.errors = errors]
      \/ job' = [job EXCEPT !.total = Cardinality(list)]
  BY DEF Load
<1>9. run[p].at = "load"
  BY DEF Load
<1>. HIDE DEF e, list, bad, errors
<1>10. job' \in Job /\ job'.processed = job.processed /\ job'.checkpoint = job.checkpoint
  BY <1>0, <1>4, <1>8 DEF Job
<1>11. Tables'
  BY <1>1, <1>10 DEF IInv, Tables
<1>12. ~retried => NoRetryQueued' /\ JobCovers' /\ OwnSurveys'
  BY <1>1, <1>10 DEF IInv, NoRetryQueued, JobCovers, OwnSurveys, NumberOf, Steady
<1>13. CASE run' = [run EXCEPT ![p] = Idle]
  BY <1>1, <1>11, <1>12, <1>13, IdleType, IdleHolds, RunStep
<1>14. CASE run' = [run EXCEPT ![p] = [run[p] EXCEPT !.at = "chunk", !.list = list, !.start = start,
                                                   !.pos = start, !.bad = bad, !.errors = errors]]
  <2>1. PICK z : z = [run[p] EXCEPT !.at = "chunk", !.list = list, !.start = start,
                                    !.pos = start, !.bad = bad, !.errors = errors]
    OBVIOUS
  <2>2. /\ z \in Run /\ z.at = "chunk" /\ z.list = list /\ z.start = start /\ z.pos = start
        /\ z.bad = bad /\ z.entry = e /\ z.chunk = run[p].chunk
    BY <1>0, <1>2, <1>3, <1>4, <1>6, <2>1 DEF Run, e
  <2>3. Place(z)
    BY <1>0, <1>9, <2>2 DEF Place
  <2>4. ASSUME ~retried PROVE Straight(z) /\ Covers(z, handled')
    <3>1. e.kind # "retry" /\ list = Rows
      BY <1>0, <1>2, <2>4 DEF Straight, e
    <3>2. Straight(z)
      BY <1>3, <1>6, <2>2, <3>1, Bounds DEF Straight
    <3>3. 1..start \subseteq handled
      <4>1. 1..job.checkpoint \subseteq handled /\ 1..job.processed \subseteq handled
        BY <2>4 DEF IInv, JobCovers
      <4>2. job.checkpoint \in Int /\ job.processed \in Int /\ start \in Int
        BY <1>0, <1>6, Bounds DEF Job
      <4>. QED BY <1>6, <4>1, <4>2
    <3>. QED BY <1>1, <2>2, <3>2, <3>3 DEF Covers
  <2>. QED BY <1>1, <1>11, <1>12, <1>14, <2>1, <2>2, <2>3, <2>4, RunStep
<1>. QED BY <1>7, <1>13, <1>14

\* The chunk of a run over the whole workbook is the next rows of it.
LEMMA WorkbookChunk ==
    ASSUME NEW r \in Run, r.list = Rows
    PROVE  /\ ChunkOf(r) = (r.pos + 1)..ChunkEnd(r)
           /\ r.pos <= ChunkEnd(r) /\ ChunkEnd(r) \in 0..R
<1>1. r.pos \in 0..R /\ ChunkEnd(r) \in 0..R
  BY ChunkEndType DEF Run
<1>2. Cardinality(r.list) = R
  BY Bounds, FS_Interval DEF Rows
<1>3. ChunkEnd(r) = IF r.pos + ChunkSize < R THEN r.pos + ChunkSize ELSE R
  BY <1>2 DEF ChunkEnd
<1>4. ChunkOf(r) = {i \in Rows : i \in (r.pos + 1)..(r.pos + ChunkSize)}
  <2>1. \A i \in Rows : Rank(i, r.list) = i
    BY RankOfWorkbook
  <2>. QED BY <2>1 DEF ChunkOf
<1>5. {i \in Rows : i \in (r.pos + 1)..(r.pos + ChunkSize)} = (r.pos + 1)..ChunkEnd(r)
  BY <1>1, <1>3, Bounds DEF Rows
<1>. QED BY <1>1, <1>3, <1>4, <1>5, Bounds

LEMMA LookupKeeps == ASSUME IInv, NEW p \in Procs, Lookup(p) PROVE IInv'
<1>. DEFINE r == run[p]
            rows == ChunkOf(r)
            chunk == rows \ r.bad
            first == {i \in rows \ r.bad : Occurrence(r, i) = 1}
            found == {Pid[i] : i \in {j \in first : surveys[Pid[j], 1] # 0}}
            pids == {Pid[i] : i \in rows \cap r.bad}
            errors == Failed(r, rows \cap r.bad, pids)
<1>0. /\ r \in Run /\ r.entry \in Entry /\ r.list \in SUBSET Rows
      /\ ~retried => Straight(r) /\ Covers(r, handled)
  BY RunFacts
<1>1. UNCHANGED <<masters, surveys, job, queue, pending, asks, faults, written, retried, lost>>
  BY DEF Lookup
<1>2. rows \subseteq r.list /\ rows \subseteq Rows
  BY <1>0, ChunkRows
<1>3. chunk \in SUBSET Rows /\ chunk \subseteq r.list /\ rows \subseteq chunk \cup (rows \cap r.bad)
  BY <1>2
<1>4. found \in SUBSET Pids /\ pids \in SUBSET Pids
  BY <1>2 DEF Pids
<1>5. errors \in Errors
  <2>1. rows \cap r.bad \in SUBSET r.list
    BY <1>2
  <2>. HIDE DEF pids, rows
  <2>. QED BY <1>0, <1>4, <2>1, FailedType
<1>6. /\ r.at = "chunk"
      /\ run' = [run EXCEPT ![p] = [r EXCEPT !.at = "rows", !.chunk = chunk, !.found = found,
                                             !.errors = errors]]
      /\ handled' = IF r.entry.kind = "sync" THEN handled ELSE handled \cup (rows \cap r.bad)
  BY DEF Lookup
<1>7. ChunkOf(r) = rows
  OBVIOUS
<1>. HIDE DEF rows, chunk, found, pids, errors
<1>8. PICK z : z = [r EXCEPT !.at = "rows", !.chunk = chunk, !.found = found, !.errors = errors]
  OBVIOUS
<1>9. /\ z \in Run /\ z.at = "rows" /\ z.chunk = chunk /\ z.entry = r.entry /\ z.pos = r.pos
      /\ z.list = r.list /\ z.bad = r.bad /\ z.start = r.start
  BY <1>0, <1>3, <1>4, <1>5, <1>8 DEF Run, Pids
<1>10. ChunkEnd(z) = ChunkEnd(r)
  BY <1>9 DEF ChunkEnd
<1>11. Place(z)
  BY <1>3, <1>9 DEF Place
<1>12. handled \subseteq handled' /\ handled' \subseteq Rows
  BY <1>2, <1>6 DEF IInv, Tables
<1>13. Tables'
  BY <1>1, <1>12 DEF IInv, Tables
<1>14. ASSUME ~retried
       PROVE  NoRetryQueued' /\ JobCovers' /\ OwnSurveys' /\ Straight(z) /\ Covers(z, handled')
  <2>1. NoRetryQueued' /\ JobCovers' /\ OwnSurveys'
    BY <1>1, <1>12, <1>14 DEF IInv, NoRetryQueued, JobCovers, OwnSurveys, NumberOf, Steady
  <2>2. r.list = Rows /\ r.bad \subseteq Late /\ r.start <= r.pos /\ r.entry.kind # "retry"
    BY <1>0, <1>6, <1>14 DEF Straight
  <2>3. rows = (r.pos + 1)..ChunkEnd(r) /\ ChunkEnd(r) \in 0..R /\ r.pos \in 0..R
    BY <1>0, <1>7, <2>2, WorkbookChunk DEF Run
  <2>4. \A i \in chunk : r.pos < i
    BY <2>3 DEF chunk
  <2>5. Straight(z)
    BY <1>9, <2>2, <2>4 DEF Straight
  <2>6. ASSUME r.entry.kind # "sync"
        PROVE  1..r.pos \subseteq handled' /\ 1..ChunkEnd(r) \subseteq handled' \cup chunk
    <3>1. 1..r.pos \subseteq handled /\ handled' = handled \cup (rows \cap r.bad)
      BY <1>0, <1>6, <1>14, <2>6 DEF Covers
    <3>2. 1..ChunkEnd(r) \subseteq 1..r.pos \cup rows
      BY <2>3, Bounds
    <3>. QED BY <1>3, <3>1, <3>2, Zenon
  <2>7. Covers(z, handled')
    BY <1>9, <1>10, <2>6 DEF Covers
  <2>. QED BY <2>1, <2>5, <2>7
<1>. QED BY <1>1, <1>6, <1>8, <1>9, <1>11, <1>12, <1>13, <1>14, RunStep

LEMMA CheckpointKeeps == ASSUME IInv, NEW p \in Procs, Checkpoint(p) PROVE IInv'
<1>. DEFINE r == run[p]
<1>0. /\ r \in Run /\ job \in Job
      /\ ~retried => Straight(r) /\ Covers(r, handled)
  BY RunFacts, Parts
<1>1. UNCHANGED <<masters, surveys, queue, pending, asks, faults, handled, written, retried, lost>>
  BY DEF Checkpoint, History
<1>2. PICK end : end = ChunkEnd(r)
  OBVIOUS
<1>3. end \in 0..R
  BY <1>0, <1>2, ChunkEndType
<1>4. /\ r.at = "rows" /\ r.chunk = {}
      /\ run' = [run EXCEPT ![p] = [r EXCEPT !.at = "chunk", !.pos = end, !.found = {}]]
      /\ job' = IF r.entry.kind = "sync" THEN job
                ELSE [job EXCEPT !.processed = end, !.checkpoint = end]
  BY <1>2 DEF Checkpoint
<1>5. PICK z : z = [r EXCEPT !.at = "chunk", !.pos = end, !.found = {}]
  OBVIOUS
<1>6. /\ z \in Run /\ z.at = "chunk" /\ z.chunk = r.chunk /\ z.entry = r.entry /\ z.pos = end
      /\ z.list = r.list /\ z.bad = r.bad /\ z.start = r.start
  BY <1>0, <1>3, <1>5 DEF Run
<1>7. end \in -1..R
  BY <1>3, Bounds
<1>8. /\ job' \in Job
      /\ r.entry.kind = "sync" => job'.processed = job.processed /\ job'.checkpoint = job.checkpoint
      /\ r.entry.kind # "sync" => job'.processed = end /\ job'.checkpoint = end
  BY <1>0, <1>3, <1>4, <1>7 DEF Job
<1>9. Tables'
  BY <1>1, <1>8 DEF IInv, Tables
<1>10. Place(z)
  BY <1>4, <1>6 DEF Place
<1>11. ASSUME ~retried
       PROVE  NoRetryQueued' /\ JobCovers' /\ OwnSurveys' /\ Straight(z) /\ Covers(z, handled')
  <2>1. NoRetryQueued' /\ OwnSurveys'
    BY <1>1, <1>11 DEF IInv, NoRetryQueued, OwnSurveys, NumberOf, Steady
  <2>2. r.list = Rows /\ r.bad \subseteq Late /\ r.start <= r.pos /\ r.entry.kind # "retry"
    BY <1>0, <1>4, <1>11 DEF Straight
  <2>3. r.pos <= end /\ r.pos \in Int /\ r.start \in Int
    BY <1>0, <1>2, <2>2, WorkbookChunk, Bounds DEF Run
  <2>4. Straight(z)
    BY <1>3, <1>6, <2>2, <2>3 DEF Straight
  <2>5. r.entry.kind # "sync" => 1..end \subseteq handled
    BY <1>0, <1>2, <1>4, <1>11 DEF Covers
  <2>6. Covers(z, handled')
    BY <1>1, <1>6, <2>5 DEF Covers
  <2>7. JobCovers'
    BY <1>1, <1>8, <1>11, <2>5 DEF IInv, JobCovers
  <2>. QED BY <2>1, <2>4, <2>6, <2>7
<1>. QED BY <1>1, <1>4, <1>5, <1>6, <1>9, <1>10, <1>11, RunStep

\* A step that ends a run of the job.
LEMMA EndKeeps ==
    ASSUME IInv, NEW p \in Procs, run' = [run EXCEPT ![p] = Idle],
           UNCHANGED <<masters, surveys, pending, asks, handled, written, retried>>,
           job' \in Job, queue' \subseteq Entry, faults' \in 0..MaxFaults, lost' \in BOOLEAN,
           \A e \in queue' : e \in queue \/ e.kind = run[p].entry.kind,
           ~retried => JobCovers'
    PROVE  IInv'
<1>0. ~retried => Straight(run[p])
  BY RunFacts
<1>1. Tables'
  BY DEF IInv, Tables
<1>2. ~retried => NoRetryQueued' /\ OwnSurveys'
  BY <1>0 DEF IInv, NoRetryQueued, OwnSurveys, NumberOf, Steady, Straight
<1>. QED BY <1>1, <1>2, IdleType, IdleHolds, RunStep

LEMMA FinishKeeps == ASSUME IInv, NEW p \in Procs, Finish(p) PROVE IInv'
<1>. DEFINE r == run[p]
<1>0. /\ r \in Run /\ r.entry \in Entry /\ job \in Job
      /\ ~retried => Straight(r) /\ Covers(r, handled)
  BY RunFacts, Parts
<1>1. UNCHANGED <<masters, surveys, pending, asks, handled, written, retried, lost>>
  BY DEF Finish, History
<1>2. r.at = "chunk" /\ run' = [run EXCEPT ![p] = Idle]
  BY DEF Finish
<1>3. /\ queue' = queue \/ queue' = queue \cup Back(r.entry)
      /\ faults' = faults \/ (faults < MaxFaults /\ faults' = faults + 1)
  BY DEF Finish, Fault
<1>4. PICK status \in {"SUCCEEDED", "FAILED"} :
          job' = IF r.entry.kind = "sync" THEN job
                 ELSE [job EXCEPT !.status = status, !.processed = r.pos,
                                  !.checkpoint = r.pos, !.errors = r.errors]
  BY Zenon DEF Finish
<1>5. r.pos \in 0..R /\ r.pos \in -1..R /\ r.errors \in Errors
  BY <1>0, Bounds DEF Run
<1>6. /\ job' \in Job
      /\ r.entry.kind = "sync" => job'.processed = job.processed /\ job'.checkpoint = job.checkpoint
      /\ r.entry.kind # "sync" => job'.processed = r.pos /\ job'.checkpoint = r.pos
  BY <1>0, <1>4, <1>5 DEF Job
<1>7. queue' \subseteq Entry /\ \A e \in queue' : e \in queue \/ e.kind = r.entry.kind
  BY <1>0, <1>3, BackType, Parts
<1>8. faults' \in 0..MaxFaults /\ lost' \in BOOLEAN
  <2>1. lost \in BOOLEAN
    BY DEF IInv, Tables
  <2>2. faults' \in 0..MaxFaults
    BY <1>3, Parts
  <2>. QED BY <1>1, <2>1, <2>2
<1>9. ~retried => JobCovers'
  BY <1>0, <1>1, <1>2, <1>6 DEF IInv, JobCovers, Covers
<1>. QED BY <1>1, <1>2, <1>6, <1>7, <1>8, <1>9, EndKeeps

LEMMA ThrowKeeps == ASSUME IInv, NEW p \in Procs, Throw(p) PROVE IInv'
<1>. DEFINE r == run[p]
<1>0. r \in Run /\ r.entry \in Entry /\ job \in Job /\ queue \in SUBSET Entry
  BY RunFacts, Parts
<1>1. UNCHANGED <<masters, surveys, pending, asks, handled, written, retried, lost>>
  BY DEF Throw, History
<1>2. /\ run' = [run EXCEPT ![p] = Idle] /\ queue' = queue \cup Back(r.entry)
      /\ job' = job \/ job' = [job EXCEPT !.status = "FAILED"]
      /\ faults < MaxFaults /\ faults' = faults + 1
  BY DEF Throw, Fault
<1>3. job' \in Job /\ job'.processed = job.processed /\ job'.checkpoint = job.checkpoint
  BY <1>0, <1>2 DEF Job
<1>4. queue' \subseteq Entry /\ \A e \in queue' : e \in queue \/ e.kind = r.entry.kind
  BY <1>0, <1>2, BackType
<1>5. faults' \in 0..MaxFaults
  BY <1>2, Parts
<1>6. lost' \in BOOLEAN
  BY <1>1 DEF IInv, Tables
<1>7. ~retried => JobCovers'
  BY <1>1, <1>3 DEF IInv, JobCovers
<1>. QED BY <1>1, <1>2, <1>3, <1>4, <1>5, <1>6, <1>7, EndKeeps

LEMMA ThrowUnrecordedKeeps ==
    ASSUME IInv, NEW w \in Workers, ThrowUnrecorded(w) PROVE IInv'
<1>. DEFINE e == run[w].entry
<1>0. w \in Procs /\ e \in Entry /\ job \in Job /\ queue \in SUBSET Entry
  BY RunFacts, Parts DEF Procs
<1>1. UNCHANGED <<masters, surveys, job, pending, asks, handled, written, retried>>
  BY DEF ThrowUnrecorded
<1>2. /\ run' = [run EXCEPT ![w] = Idle] /\ queue' = queue \cup Back(e)
      /\ faults < MaxFaults /\ faults' = faults + 1
      /\ lost' = (lost \/ Back(e) = {})
  BY DEF ThrowUnrecorded, Fault
<1>3. queue' \subseteq Entry /\ \A x \in queue' : x \in queue \/ x.kind = e.kind
  BY <1>0, <1>2, BackType
<1>4. faults' \in 0..MaxFaults
  BY <1>2, Parts
<1>5. lost' \in BOOLEAN
  BY <1>2, Zenon
<1>6. ~retried => JobCovers'
  BY <1>1 DEF IInv, JobCovers
<1>. QED BY <1>0, <1>1, <1>2, <1>3, <1>4, <1>5, <1>6, EndKeeps

LEMMA DieKeeps == ASSUME IInv, NEW w \in Workers, Die(w) PROVE IInv'
<1>. DEFINE e == run[w].entry
<1>0. w \in Procs /\ e \in Entry /\ job \in Job
  BY RunFacts, Parts DEF Procs
<1>1. UNCHANGED <<masters, surveys, job, pending, asks, handled, written, retried>>
  BY DEF Die
<1>2. /\ run' = [run EXCEPT ![w] = Idle]
      /\ faults < MaxFaults /\ faults' = faults + 1
      /\ lost' \in {lost, TRUE}
  BY DEF Die, Fault
<1>3. PICK z : z = [e EXCEPT !.stalls = e.stalls + 1]
  OBVIOUS
<1>4. (e.stalls < MaxStalls /\ queue' = queue \cup {z}) \/ queue' = queue
  BY <1>3 DEF Die
<1>5. queue' \subseteq Entry /\ \A x \in queue' : x \in queue \/ x.kind = e.kind
  <2>1. CASE e.stalls < MaxStalls /\ queue' = queue \cup {z}
    <3>1. z \in Entry /\ z.kind = e.kind
      BY <1>0, <1>3, <2>1, Bounds DEF Entry
    <3>. QED BY <2>1, <3>1, Parts
  <2>2. CASE queue' = queue
    BY <2>2, Parts
  <2>. QED BY <1>4, <2>1, <2>2
<1>6. faults' \in 0..MaxFaults
  BY <1>2, Parts
<1>7. lost' \in BOOLEAN
  BY <1>2 DEF IInv, Tables
<1>8. ~retried => JobCovers'
  BY <1>1 DEF IInv, JobCovers
<1>. QED BY <1>0, <1>1, <1>2, <1>5, <1>6, <1>7, <1>8, EndKeeps

-----------------------------------------------------------------------------
(* Whose survey a row writes.                                               *)

\* Rows of one Property ID are told apart by their numbers.
LEMMA NumbersDiffer == ASSUME NEW i \in Rows, NEW j \in Rows, Pid[i] = Pid[j], i < j
                       PROVE  NumberOf(i) # NumberOf(j)
<1>. DEFINE A == {h \in Rows : h <= i /\ Pid[h] = Pid[i]}
            B == {h \in Rows : h <= j /\ Pid[h] = Pid[j]}
<1>1. i \in Int /\ j \in Int /\ \A h \in Rows : h \in Int
  BY Bounds DEF Rows
<1>2. A \in SUBSET B /\ j \in B /\ j \notin A /\ B \in SUBSET Rows
  <2>1. /\ \A h \in Rows : h <= i => h <= j
        /\ j <= j /\ ~(j <= i)
    BY <1>1
  <2>. QED BY <2>1
<1>. HIDE DEF A, B
<1>3. IsFiniteSet(B)
  BY <1>2, RowsFinite
<1>4. Cardinality(A) # Cardinality(B)
  BY <1>2, <1>3, FS_Subset
<1>. QED BY <1>4 DEF A, B, NumberOf

LEMMA NumberType == ASSUME NEW i \in Rows
                    PROVE  NumberOf(i) \in Rows
<1>. DEFINE A == {h \in Rows : h <= i /\ Pid[h] = Pid[i]}
<1>1. i \in Int /\ i <= i
  BY Bounds DEF Rows
<1>2. A \in SUBSET Rows /\ i \in A
  BY <1>1
<1>. HIDE DEF A
<1>3. Cardinality(A) \in 0..R /\ Cardinality(A) # 0
  BY <1>2, RowsFinite, FS_EmptySet
<1>. QED BY <1>3, Bounds DEF A, NumberOf, Rows

\* A run over the whole workbook numbers a steady row by its place there,
\* wherever the run starts.
LEMMA OccurrenceOfSteady ==
    ASSUME NEW r \in Run, r.list = Rows, r.bad \subseteq Late,
           NEW i \in Rows, Steady(i), r.start < i
    PROVE  Occurrence(r, i) = NumberOf(i)
<1>. DEFINE A == {j \in r.list : Rank(j, r.list) <= r.start /\ j \notin Blank /\ Pid[j] = Pid[i]}
            B == {j \in r.list \ r.bad : Rank(j, r.list) > r.start /\ j <= i /\ Pid[j] = Pid[i]}
            C == {j \in Rows : j <= i /\ Pid[j] = Pid[i]}
<1>1. \A j \in Rows : Rank(j, r.list) = j /\ j \in Int
  BY RankOfWorkbook, Bounds DEF Rows
<1>2. r.start \in Int /\ i \in Int
  BY Bounds DEF Run, Rows
<1>3. \A j \in Rows : Pid[j] = Pid[i] => j \notin Blank /\ j \notin r.bad
  BY DEF Steady
<1>4. A \in SUBSET Rows /\ B \in SUBSET Rows
  OBVIOUS
<1>5. \A j \in Rows : j \in A <=> j <= r.start /\ Pid[j] = Pid[i]
  BY <1>1, <1>3
<1>6. \A j \in Rows : j \in B <=> j > r.start /\ j <= i /\ Pid[j] = Pid[i]
  BY <1>1, <1>3
<1>7. \A j \in Rows : j \in C <=> j <= i /\ Pid[j] = Pid[i]
  OBVIOUS
<1>8. C \in SUBSET Rows
  OBVIOUS
<1>9. Occurrence(r, i) = Cardinality(A) + Cardinality(B) /\ NumberOf(i) = Cardinality(C)
  BY DEF Occurrence, NumberOf
<1>. HIDE DEF A, B, C
<1>10. A \cap B = {}
  BY <1>1, <1>2, <1>4, <1>5, <1>6
<1>11. C = A \cup B
  <2>1. \A j \in Rows : j \in C <=> j \in A \/ j \in B
    <3> SUFFICES ASSUME NEW j \in Rows
                 PROVE  j \in C <=> j \in A \/ j \in B
      OBVIOUS
    <3>1. j \in Int
      BY <1>1
    <3>2. j <= i <=> j <= r.start \/ (j > r.start /\ j <= i)
      BY <1>2, <3>1
    <3>. QED BY <1>5, <1>6, <1>7, <3>2, Zenon
  <2>. QED BY <1>4, <1>8, <2>1
<1>12. /\ IsFiniteSet(A) /\ IsFiniteSet(B) /\ Cardinality(A) \in 0..R /\ Cardinality(B) \in 0..R
       /\ Cardinality(A \cap B) = 0
  BY <1>4, <1>10, RowsFinite, FS_EmptySet
<1>13. Cardinality(A \cup B) = Cardinality(A) + Cardinality(B) - Cardinality(A \cap B)
  BY <1>12, FS_Union
<1>. QED BY <1>9, <1>11, <1>12, <1>13, Bounds

\* A transaction that commits writes row i to the survey its place gives it.
LEMMA WriteOwns ==
    ASSUME IInv, ~retried, NEW i \in Rows, NEW k,
           surveys' = [surveys EXCEPT ![<<Pid[i], k>>] = i], written' = written \cup {i},
           Steady(i) => k = NumberOf(i)
    PROVE  OwnSurveys'
<1>1. surveys \in [Keys -> 0..Field] /\ written \subseteq Rows /\ OwnSurveys
  BY DEF IInv, Tables
<1>2. \A h \in Rows : <<Pid[h], NumberOf(h)>> \in Keys
  BY NumberType DEF Keys
<1>3. SUFFICES ASSUME NEW h \in written', Steady(h)
               PROVE  surveys'[<<Pid[h], NumberOf(h)>>] = h
  BY DEF OwnSurveys, Steady, NumberOf
<1>4. CASE h = i
  BY <1>1, <1>2, <1>3, <1>4
<1>5. CASE h # i
  <2>1. h \in written /\ h \in Rows /\ surveys[<<Pid[h], NumberOf(h)>>] = h
    BY <1>1, <1>3, <1>5 DEF OwnSurveys
  <2>2. <<Pid[h], NumberOf(h)>> # <<Pid[i], k>>
    <3> SUFFICES ASSUME Pid[h] = Pid[i], NumberOf(h) = k
                 PROVE  FALSE
      OBVIOUS
    <3>1. Steady(i)
      BY <1>3 DEF Steady
    <3>2. h < i \/ i < h
      BY <1>5, <2>1, Bounds DEF Rows
    <3>. QED BY <2>1, <3>1, <3>2, NumbersDiffer
  <2>. QED BY <1>1, <1>2, <2>1, <2>2
<1>. QED BY <1>4, <1>5

LEMMA WriteRowKeeps == ASSUME IInv, NEW p \in Procs, WriteRow(p) PROVE IInv'
<1>. DEFINE r == run[p]
<1>0. /\ r \in Run /\ r.list \in SUBSET Rows /\ r.chunk \in SUBSET Rows /\ Place(r)
      /\ r.found \in SUBSET Pids
      /\ ~retried => Straight(r) /\ Covers(r, handled)
  BY RunFacts DEF Run, Pids
<1>1. UNCHANGED <<masters, job, queue, pending, asks, retried, lost>>
  BY DEF WriteRow
<1>2. PICK i, k : /\ i = (CHOOSE x \in r.chunk : \A j \in r.chunk : x <= j)
                  /\ k = Occurrence(r, i)
  OBVIOUS
<1>3. r.at = "rows" /\ r.chunk # {}
  BY DEF WriteRow
<1>4. i \in r.chunk /\ i \in Rows /\ i \in r.list
  BY <1>0, <1>2, <1>3, FirstRow DEF Place
<1>5. PICK found, errors :
          /\ found = (IF k = 1 THEN r.found \cup {Pid[i]} ELSE r.found)
          /\ errors = Failed(r, {i}, IF k = 1 THEN {Pid[i]} ELSE {})
  OBVIOUS
<1>6. PICK z, y : /\ z = [r EXCEPT !.chunk = r.chunk \ {i}, !.found = found]
                  /\ y = [r EXCEPT !.chunk = r.chunk \ {i}, !.errors = errors]
  OBVIOUS
<1>7. /\ handled' = IF r.entry.kind = "sync" THEN handled ELSE handled \cup {i}
      /\ \/ /\ surveys' = [surveys EXCEPT ![<<Pid[i], k>>] = i] /\ written' = written \cup {i}
            /\ run' = [run EXCEPT ![p] = z] /\ faults' = faults
         \/ /\ UNCHANGED <<surveys, written>> /\ run' = [run EXCEPT ![p] = y]
            /\ faults' = faults \/ (faults < MaxFaults /\ faults' = faults + 1)
  <2>1. handled' = IF r.entry.kind = "sync" THEN handled ELSE handled \cup {i}
    BY <1>2, Zenon DEF WriteRow
  <2>2. CASE faults' = faults /\ surveys' = [surveys EXCEPT ![<<Pid[i], k>>] = i]
             /\ written' = written \cup {i}
             /\ run' = [run EXCEPT ![p].chunk = @ \ {i},
                                   ![p].found = IF k = 1 THEN @ \cup {Pid[i]} ELSE @]
    BY <1>5, <1>6, <2>1, <2>2
  <2>3. CASE /\ UNCHANGED <<surveys, written>>
             /\ faults' = faults \/ (faults < MaxFaults /\ faults' = faults + 1)
             /\ run' = [run EXCEPT ![p].chunk = @ \ {i}, ![p].errors = errors]
    BY <1>6, <2>1, <2>3
  <2>. QED BY <1>2, <1>5, <2>2, <2>3 DEF WriteRow, Fault
<1>8. found \in SUBSET Pids /\ errors \in Errors
  <2>1. found \in SUBSET Pids
    BY <1>0, <1>4, <1>5 DEF Pids
  <2>2. PICK pids : pids = IF k = 1 THEN {Pid[i]} ELSE {}
    OBVIOUS
  <2>3. pids \in SUBSET Pids /\ {i} \in SUBSET r.list
    BY <1>4, <2>2 DEF Pids
  <2>4. errors \in Errors
    BY <1>0, <1>5, <2>2, <2>3, FailedType
  <2>. QED BY <2>1, <2>4
<1>9. \A x \in {y, z} :
          /\ x \in Run /\ x.at = r.at /\ x.chunk = r.chunk \ {i} /\ x.entry = r.entry
          /\ x.pos = r.pos /\ x.list = r.list /\ x.bad = r.bad /\ x.start = r.start
  <2>1. PICK chunk : chunk = r.chunk \ {i}
    OBVIOUS
  <2>2. chunk \in SUBSET Rows
    BY <1>0, <2>1
  <2>3. /\ z \in Run /\ z.at = r.at /\ z.chunk = chunk /\ z.entry = r.entry
        /\ z.pos = r.pos /\ z.list = r.list /\ z.bad = r.bad /\ z.start = r.start
    BY <1>0, <1>6, <1>8, <2>1, <2>2 DEF Run, Pids
  <2>4. /\ y \in Run /\ y.at = r.at /\ y.chunk = chunk /\ y.entry = r.entry
        /\ y.pos = r.pos /\ y.list = r.list /\ y.bad = r.bad /\ y.start = r.start
    BY <1>0, <1>6, <1>8, <2>1, <2>2 DEF Run, Pids
  <2>. QED BY <2>1, <2>3, <2>4
<1>10. handled \subseteq handled' /\ handled' \subseteq Rows
  BY <1>4, <1>7 DEF IInv, Tables
<1>11. faults' \in 0..MaxFaults
  BY <1>7, Parts
<1>12. surveys' \in [Keys -> 0..Field] /\ written' \subseteq Rows
  <2>1. i \in 0..Field
    BY <1>4, Bounds DEF Rows, Field
  <2>. QED BY <1>4, <1>7, <2>1 DEF IInv, Tables
<1>13. Tables'
  BY <1>1, <1>10, <1>11, <1>12 DEF IInv, Tables
<1>14. ASSUME NEW x \in {y, z}
       PROVE  Place(x) /\ (~retried => Straight(x) /\ Covers(x, handled'))
  <2>1. /\ x.at = r.at /\ x.chunk = r.chunk \ {i} /\ x.entry = r.entry
        /\ x.pos = r.pos /\ x.list = r.list /\ x.bad = r.bad /\ x.start = r.start
    BY <1>9
  <2>2. ChunkEnd(x) = ChunkEnd(r)
    BY <2>1 DEF ChunkEnd
  <2>3. Place(x)
    BY <1>0, <1>3, <2>1 DEF Place
  <2>4. ASSUME ~retried PROVE Straight(x)
    BY <1>0, <2>1, <2>4 DEF Straight
  <2>5. ASSUME ~retried PROVE Covers(x, handled')
    BY <1>0, <1>7, <2>1, <2>2, <2>5 DEF Covers
  <2>. QED BY <2>3, <2>4, <2>5
<1>15. ASSUME ~retried
       PROVE  NoRetryQueued' /\ JobCovers' /\ OwnSurveys'
  <2>1. NoRetryQueued' /\ JobCovers'
    BY <1>1, <1>10, <1>15 DEF IInv, NoRetryQueued, JobCovers
  <2>2. Steady(i) => k = NumberOf(i)
    <3>1. /\ r.list = Rows /\ r.bad \subseteq Late /\ r.start <= r.pos /\ r.pos < i
          /\ r.start \in Int /\ r.pos \in Int /\ i \in Int
      BY <1>0, <1>3, <1>4, <1>15, Bounds DEF Straight, Run, Rows
    <3>2. r.start < i
      BY <3>1
    <3>. QED BY <1>0, <1>2, <1>4, <3>1, <3>2, OccurrenceOfSteady
  <2>3. CASE surveys' = [surveys EXCEPT ![<<Pid[i], k>>] = i] /\ written' = written \cup {i}
    BY <1>4, <1>15, <2>1, <2>2, <2>3, WriteOwns
  <2>4. CASE UNCHANGED <<surveys, written>>
    BY <1>15, <2>1, <2>4 DEF IInv, OwnSurveys, NumberOf, Steady
  <2>. QED BY <1>7, <2>1, <2>3, <2>4
<1>. QED BY <1>1, <1>7, <1>9, <1>10, <1>13, <1>14, <1>15, RunStep

-----------------------------------------------------------------------------
(* The theorems.                                                            *)

LEMMA InitHolds == Init => IInv
<1> SUFFICES ASSUME Init PROVE IInv
  OBVIOUS
<1>1. /\ masters \in {"ulb", "ward", ""} /\ queue = {} /\ pending = {}
      /\ run = [p \in Procs |-> Idle] /\ asks = 0 /\ faults = 0
      /\ handled = {} /\ written = {} /\ retried = FALSE /\ lost = FALSE
  BY DEF Init
<1>2. surveys \in [Keys -> 0..Field]
  <2>1. 0 \in 0..Field /\ Field \in 0..Field
    BY Bounds DEF Field
  <2>2. PICK known \in SUBSET {x \in Keys : x[2] = 1} :
            surveys = [x \in Keys |-> IF x \in known THEN Field ELSE 0]
    BY DEF Init
  <2>. QED BY <2>1, <2>2
<1>3. job \in Job /\ job.processed = 0 /\ job.checkpoint = -1
  <2>1. 0 \in 0..R /\ -1 \in -1..R
    BY Bounds
  <2>2. job = [status |-> "-", total |-> 0, processed |-> 0, checkpoint |-> -1,
               errors |-> NoErrors]
    BY DEF Init
  <2>. QED BY <2>1, <2>2, NoErrorsType DEF Job
<1>4. Tables
  <2>0. 0 \in 0..MaxAsks /\ 0 \in 0..MaxFaults
    BY Bounds
  <2>1. asks \in 0..MaxAsks /\ faults \in 0..MaxFaults
    BY <1>1, <2>0
  <2>. QED BY <1>1, <1>2, <1>3, <2>1 DEF Tables
<1>5. run \in [Procs -> Run] /\ \A p \in Procs : run[p] = Idle
  BY <1>1, IdleType
<1>6. NoRetryQueued /\ OwnSurveys
  BY <1>1 DEF NoRetryQueued, OwnSurveys
<1>7. JobCovers
  <2>1. 1..0 = {} /\ 1..(-1) = {}
    OBVIOUS
  <2>. QED BY <1>3, <2>1 DEF JobCovers
<1>. QED BY <1>4, <1>5, <1>6, <1>7, IdleHolds DEF IInv

LEMMA NextHolds == IInv /\ [Next]_vars => IInv'
<1> SUFFICES ASSUME IInv, [Next]_vars PROVE IInv'
  OBVIOUS
<1>1. CASE UNCHANGED vars
  <2>1. Tables' /\ UNCHANGED <<run, handled, retried>>
    BY <1>1 DEF vars, IInv, Tables
  <2>2. ~retried => NoRetryQueued' /\ JobCovers' /\ OwnSurveys'
    BY <1>1 DEF vars, IInv, NoRetryQueued, JobCovers, OwnSurveys, NumberOf, Steady
  <2>. QED BY <2>1, <2>2, ApiStep
<1>2. CASE AddMaster \/ Submit \/ Ask
  BY <1>2, AddMasterKeeps, SubmitKeeps, AskKeeps
<1>3. ASSUME NEW q \in pending, Grant(q) PROVE IInv'
  BY <1>3, GrantKeeps
<1>4. ASSUME NEW w \in Workers, Take(w) \/ TakeFails(w) \/ ThrowUnrecorded(w) \/ Die(w)
      PROVE  IInv'
  BY <1>4, TakeKeeps, TakeFailsKeeps, ThrowUnrecordedKeeps, DieKeeps
<1>5. ASSUME NEW s \in Syncs, StartSync(s) PROVE IInv'
  BY <1>5, StartSyncKeeps
<1>6. ASSUME NEW p \in Procs, Step(p) \/ Throw(p) PROVE IInv'
  BY <1>6, LoadKeeps, LookupKeeps, WriteRowKeeps, CheckpointKeeps, FinishKeeps, ThrowKeeps DEF Step
<1>. QED BY <1>1, <1>2, <1>3, <1>4, <1>5, <1>6 DEF Next

LEMMA Invariant == Spec => []IInv
  BY InitHolds, NextHolds, PTL DEF Spec

\* The job row, the queue, the surveys and every run are well formed, whatever
\* overlaps, throws, dies or is retried.
THEOREM TypeCorrect == Spec => []TypeOK
  BY Invariant, WellTyped, PTL

\* Until failed rows are retried the checkpoint covers only rows that some run
\* has tried: a resumed run skips nothing (import-worker:281-497).
THEOREM CheckpointHonest == Spec => []CheckpointCovers
<1>1. IInv => CheckpointCovers
  BY DEF IInv, JobCovers, CheckpointCovers
<1>. QED BY <1>1, Invariant, PTL

\* Until failed rows are retried every imported row keeps a survey of its own,
\* in repeated, resumed and overlapping runs (import-worker:203).
THEOREM RowsKeepSurveys == Spec => []OnlyRetryDisplaces
<1>1. IInv => OnlyRetryDisplaces
  <2> SUFFICES ASSUME IInv, ~retried, NEW i \in written, Steady(i)
               PROVE  \E k \in Rows : surveys[Pid[i], k] = i
    BY DEF OnlyRetryDisplaces, ImportedRowsStay
  <2>1. i \in Rows /\ surveys[Pid[i], NumberOf(i)] = i
    BY DEF IInv, Tables, OwnSurveys
  <2>2. NumberOf(i) \in Rows
    BY <2>1, NumberType
  <2>. QED BY <2>1, <2>2
<1>. QED BY <1>1, Invariant, PTL

=============================================================================
