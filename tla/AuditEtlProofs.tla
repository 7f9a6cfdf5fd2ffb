--------------------------- MODULE AuditEtlProofs ---------------------------
(***************************************************************************)
(* TLAPS proofs about AuditEtl, for every log, page size, number of        *)
(* runners and retry budget: the state stays well formed, no record is     *)
(* skipped, a run that reports exhaustion is right, and the pipeline       *)
(* implements AuditDelivery.                                               *)
(***************************************************************************)
EXTENDS AuditEtl, TLAPS

\* A page is in hand.
Loading == {"upsert", "dlq", "advance", "reread"}

\* What a run in progress may rely on: everything before its page is
\* delivered, events of the page are stored or still to do, and a step of the
\* page is reached only when the steps before it are done.
RunInv(q) ==
    run[q].at # "-" =>
        /\ 1..run[q].from \subseteq Delivered
        /\ run[q].at = "fetch" => run[q].to <= run[q].from
        /\ run[q].at \in Loading =>
              /\ run[q].from <= run[q].to
              /\ GoodOf(run[q].from, run[q].to) \subseteq events \cup run[q].todo
        /\ run[q].at \in {"dlq", "advance", "reread"} => run[q].todo = {}
        /\ run[q].at \in {"advance", "reread"} => BadOf(run[q].from, run[q].to) \subseteq Dead

\* A record is buried only after the readable ones before it are stored.
BuriedInOrder == \A b \in Dead : \A g \in Good : g < b => g \in events

IInv == TypeOK /\ NothingSkipped /\ BuriedInOrder /\ \A q \in Runners : RunInv(q)

-----------------------------------------------------------------------------
(* Type correctness.                                                        *)

\* A call has at least one attempt.
LEMMA FirstAttempt == 1 \in 1..MaxRetries
<1>1. MaxRetries \in Nat \ {0}
  BY AuditAssumption
<1>. QED BY <1>1

\* A run that ends is well formed.
LEMMA IdleType == ASSUME NEW out \in {"-", "exhausted", "stopped", "failed"}
                  PROVE  Idle(out) \in Run
  BY AuditAssumption, SMT DEF Idle, Run

\* Ending a run keeps the runs well formed.
LEMMA EndType == ASSUME TypeOK, NEW r \in Runners,
                        NEW out \in {"-", "exhausted", "stopped", "failed"}, End(r, out)
                 PROVE  run' \in [Runners -> Run]
  BY IdleType DEF End, TypeOK

\* A failed attempt keeps the runs well formed.
LEMMA RetryType == ASSUME TypeOK, NEW r \in Runners, NEW todo \in SUBSET Good, Retry(r, todo)
                   PROVE  run' \in [Runners -> Run]
<1>1. CASE run[r].attempt < MaxRetries
  <2>1. run' = [run EXCEPT ![r] = [run[r] EXCEPT !.attempt = run[r].attempt + 1, !.todo = todo]]
    BY <1>1 DEF Retry
  <2>2. run[r] \in Run /\ run[r].attempt + 1 \in 1..MaxRetries
    BY <1>1, AuditAssumption DEF TypeOK, Run
  <2>3. [run[r] EXCEPT !.attempt = run[r].attempt + 1, !.todo = todo] \in Run
    BY <2>2 DEF Run
  <2>. QED BY <2>1, <2>3 DEF TypeOK
<1>2. CASE ~(run[r].attempt < MaxRetries)
  BY <1>2, EndType DEF Retry
<1>. QED BY <1>1, <1>2

\* A page ends within the log, and behind its beginning when it holds records.
LEMMA PageEndType == ASSUME TypeOK, NEW r \in Runners
                     PROVE  PageEnd(r) \in 0..N
<1>1. N \in Nat /\ \A x \in Limits \cup {0} : x \in Nat
  BY AuditAssumption
<1>2. source \in 0..N /\ run[r].from \in 0..N /\ run[r].limit \in Limits \cup {0}
  BY DEF TypeOK, Run
<1>3. run[r].limit \in Nat
  BY <1>1, <1>2, Zenon
<1>4. run[r].from + run[r].limit \in Nat
  BY <1>1, <1>2, <1>3
<1>. QED BY <1>1, <1>2, <1>4 DEF PageEnd

\* A run that has read a page is well formed.
LEMMA PageType == ASSUME NEW rec \in Run, NEW at \in {"upsert", "dlq", "advance"},
                         NEW to \in 0..N, NEW done \in BOOLEAN, NEW todo \in SUBSET Good
                  PROVE  [rec EXCEPT !.at = at, !.to = to, !.done = done, !.todo = todo,
                                     !.attempt = 1] \in Run
  BY FirstAttempt DEF Run

\* A page read ends the run or leaves it with the page in hand.
LEMMA PageRead ==
    ASSUME NEW r \in Runners, FetchPage(r), ~(run[r].batches >= run[r].cap),
           ~(run[r].batches < run[r].cap /\ PageEnd(r) <= run[r].from)
    PROVE  \E done \in {FALSE, PageEnd(r) = source} :
              run' = [run EXCEPT ![r] = [run[r] EXCEPT
                        !.at = FirstCall(run[r].from, PageEnd(r)), !.to = PageEnd(r),
                        !.done = done, !.todo = GoodOf(run[r].from, PageEnd(r)), !.attempt = 1]]
<1>. DEFINE capped == run[r].batches >= run[r].cap
            ended == run[r].batches < run[r].cap /\ PageEnd(r) <= run[r].from
            Reads == \E done \in {FALSE, PageEnd(r) = source} :
                        run' = [run EXCEPT ![r].at = FirstCall(run[r].from, PageEnd(r)),
                                  ![r].to = PageEnd(r), ![r].done = done,
                                  ![r].todo = GoodOf(run[r].from, PageEnd(r)), ![r].attempt = 1]
<1>1. (CASE capped -> End(r, "stopped") [] ended -> End(r, "exhausted") [] OTHER -> Reads)
  BY Zenon DEF FetchPage
<1>2. ~capped /\ ~ended
  OBVIOUS
<1>. HIDE DEF capped, ended, Reads
<1>3. Reads
  BY <1>1, <1>2
<1>4. PICK done \in {FALSE, PageEnd(r) = source} :
          run' = [run EXCEPT ![r].at = FirstCall(run[r].from, PageEnd(r)),
                    ![r].to = PageEnd(r), ![r].done = done,
                    ![r].todo = GoodOf(run[r].from, PageEnd(r)), ![r].attempt = 1]
  BY <1>3, Zenon DEF Reads
<1>5. PICK at, to, todo : at = FirstCall(run[r].from, PageEnd(r)) /\ to = PageEnd(r)
                          /\ todo = GoodOf(run[r].from, PageEnd(r))
  OBVIOUS
<1>6. run' = [run EXCEPT ![r].at = at, ![r].to = to, ![r].done = done, ![r].todo = todo,
                        ![r].attempt = 1]
  BY <1>4, <1>5, Zenon
<1>7. run' = [run EXCEPT ![r] = [run[r] EXCEPT !.at = at, !.to = to, !.done = done,
                                             !.todo = todo, !.attempt = 1]]
  BY <1>6
<1>. QED BY <1>5, <1>7, Zenon

\* The type invariant is preserved by every action.
LEMMA TypeStep == TypeOK /\ [Next]_vars => TypeOK'
<1>. SUFFICES ASSUME TypeOK, [Next]_vars PROVE TypeOK'
  OBVIOUS
<1>0. Good \in SUBSET Good /\ \A l, t : GoodOf(l, t) \in SUBSET Good
  BY DEF GoodOf
<1>1. CASE LogEvent
  BY <1>1, AuditAssumption DEF LogEvent, TypeOK
<1>2. ASSUME NEW r \in Runners, Start(r) PROVE TypeOK'
  <2>1. PICK limit \in Limits, cap \in Caps :
            run' = [run EXCEPT ![r] = [Idle("-") EXCEPT
                      !.at = "fetch", !.from = cursor.pos, !.known = cursor.version,
                      !.limit = limit, !.cap = cap]]
    BY <1>2 DEF Start
  <2>2. [Idle("-") EXCEPT !.at = "fetch", !.from = cursor.pos, !.known = cursor.version,
                          !.limit = limit, !.cap = cap] \in Run
    BY IdleType, AuditAssumption DEF TypeOK, Run
  <2>. QED BY <1>2, <2>1, <2>2 DEF Start, Tables, TypeOK
<1>3. ASSUME NEW r \in Runners, FetchPage(r) PROVE TypeOK'
  <2>. DEFINE l == run[r].from
              t == PageEnd(r)
  <2>1. CASE run[r].batches >= run[r].cap
    BY <1>3, <2>1, EndType DEF FetchPage, Tables, TypeOK
  <2>2. CASE run[r].batches < run[r].cap /\ t <= l
    <3>1. ~(run[r].batches >= run[r].cap)
      BY <2>2 DEF TypeOK, Run
    <3>. QED BY <1>3, <2>2, <3>1, EndType DEF FetchPage, Tables, TypeOK
  <2>3. CASE ~(run[r].batches >= run[r].cap) /\ ~(run[r].batches < run[r].cap /\ t <= l)
    <3>1. PICK done \in {FALSE, t = source} :
              run' = [run EXCEPT ![r] = [run[r] EXCEPT !.at = FirstCall(l, t), !.to = t,
                                           !.done = done, !.todo = GoodOf(l, t), !.attempt = 1]]
      BY <1>3, <2>3, PageRead, Zenon
    <3>2. FirstCall(l, t) \in {"upsert", "dlq", "advance"}
      BY DEF FirstCall, AfterLoad
    <3>3. done \in BOOLEAN
      BY Zenon
    <3>4. [run[r] EXCEPT !.at = FirstCall(l, t), !.to = t, !.done = done,
                         !.todo = GoodOf(l, t), !.attempt = 1] \in Run
      <4>1. run[r] \in Run /\ t \in 0..N /\ GoodOf(l, t) \in SUBSET Good
        BY <1>0, PageEndType DEF TypeOK
      <4>. DEFINE at == FirstCall(l, t)
                  todo == GoodOf(l, t)
      <4>2. at \in {"upsert", "dlq", "advance"} /\ todo \in SUBSET Good
        BY <3>2, <4>1
      <4>. HIDE DEF at, todo, t
      <4>3. [run[r] EXCEPT !.at = at, !.to = t, !.done = done, !.todo = todo,
                           !.attempt = 1] \in Run
        BY <3>3, <4>1, <4>2, PageType
      <4>. QED BY <4>3 DEF at, todo
    <3>5. run' \in [Runners -> Run]
      BY <3>1, <3>4 DEF TypeOK
    <3>. QED BY <1>3, <3>5 DEF FetchPage, Tables, TypeOK
  <2>. QED BY <2>1, <2>2, <2>3
<1>4. ASSUME NEW r \in Runners, FetchFails(r) PROVE TypeOK'
  BY <1>4, RetryType DEF FetchFails, Tables, TypeOK
<1>5. ASSUME NEW r \in Runners, UpsertChunk(r) PROVE TypeOK'
  <2>. DEFINE left == run[r].todo \ Chunk(run[r].todo)
  <2>1. run[r] \in Run /\ Chunk(run[r].todo) \subseteq run[r].todo /\ run[r].todo \subseteq Good
    BY DEF Chunk, TypeOK, Run
  <2>2. events' \subseteq Good /\ UNCHANGED <<source, dlq, cursor, runs>>
    BY <1>5, <2>1 DEF UpsertChunk, TypeOK
  <2>3. PICK at : at = AfterLoad(run[r].from, run[r].to)
    OBVIOUS
  <2>4. at \in {"dlq", "advance"}
    BY <2>3 DEF AfterLoad
  <2>5. left \in SUBSET Good
    BY <2>1
  <2>6. \/ run' = [run EXCEPT ![r] = [run[r] EXCEPT !.todo = left]]
        \/ run' = [run EXCEPT ![r] = [run[r] EXCEPT !.todo = {}, !.attempt = 1, !.at = at]]
    BY <1>5, <2>3 DEF UpsertChunk
  <2>. HIDE DEF left
  <2>7. /\ [run[r] EXCEPT !.todo = left] \in Run
        /\ [run[r] EXCEPT !.todo = {}, !.attempt = 1, !.at = at] \in Run
    BY <2>1, <2>4, <2>5, FirstAttempt DEF Run
  <2>8. run' \in [Runners -> Run]
    BY <2>6, <2>7 DEF TypeOK
  <2>. QED BY <2>2, <2>8 DEF TypeOK
<1>6. ASSUME NEW r \in Runners, UpsertFails(r) PROVE TypeOK'
  <2>1. Chunk(run[r].todo) \subseteq Good
    BY DEF Chunk, TypeOK, Run
  <2>2. run' \in [Runners -> Run]
    <3>. DEFINE todo == GoodOf(run[r].from, run[r].to)
    <3>1. todo \in SUBSET Good /\ Retry(r, todo)
      BY <1>0, <1>6 DEF UpsertFails
    <3>. HIDE DEF todo
    <3>. QED BY <3>1, RetryType
  <2>3. events' \subseteq Good /\ UNCHANGED <<source, dlq, cursor, runs>>
    BY <1>6, <2>1 DEF UpsertFails, TypeOK
  <2>. QED BY <2>2, <2>3 DEF TypeOK
<1>7. ASSUME NEW r \in Runners, AppendDlq(r) PROVE TypeOK'
  <2>0. run[r] \in Run
    BY DEF TypeOK
  <2>1. [run[r] EXCEPT !.at = "advance", !.attempt = 1] \in Run
    BY <2>0, FirstAttempt DEF Run
  <2>2. run' = [run EXCEPT ![r] = [run[r] EXCEPT !.at = "advance", !.attempt = 1]]
    BY <1>7 DEF AppendDlq
  <2>3. Buried(r) \in [Bad -> Nat]
    BY DEF Buried, TypeOK
  <2>. QED BY <1>7, <2>1, <2>2, <2>3 DEF AppendDlq, TypeOK
<1>8. ASSUME NEW r \in Runners, AppendFails(r) PROVE TypeOK'
  <2>1. Buried(r) \in [Bad -> Nat]
    BY DEF Buried, TypeOK
  <2>. QED BY <1>8, <2>1, RetryType DEF AppendFails, TypeOK
<1>9. ASSUME NEW r \in Runners, Advance(r) PROVE TypeOK'
  <2>1. CASE cursor.version = run[r].known
    <3>1. [run[r] EXCEPT !.at = "reread"] \in Run
      BY DEF TypeOK, Run
    <3>2. run' = [run EXCEPT ![r] = [run[r] EXCEPT !.at = "reread"]]
      BY <1>9, <2>1 DEF Advance
    <3>3. cursor' \in [pos : 0..N, version : Nat]
      BY <1>9, <2>1 DEF Advance, TypeOK, Run
    <3>. QED BY <1>9, <3>1, <3>2, <3>3 DEF Advance, TypeOK
  <2>2. CASE cursor.version # run[r].known
    BY <1>9, <2>2, EndType DEF Advance, TypeOK
  <2>. QED BY <2>1, <2>2
<1>10. ASSUME NEW r \in Runners, Reread(r) PROVE TypeOK'
  <2>1. CASE run[r].done
    BY <1>10, <2>1, EndType DEF Reread, Tables, TypeOK
  <2>2. CASE ~run[r].done
    <3>1. run' = [run EXCEPT ![r] = [run[r] EXCEPT !.at = "fetch", !.known = cursor.version,
                    !.from = run[r].to, !.batches = run[r].batches + 1, !.attempt = 1]]
      BY <1>10, <2>2 DEF Reread
    <3>2. [run[r] EXCEPT !.at = "fetch", !.known = cursor.version, !.from = run[r].to,
                         !.batches = run[r].batches + 1, !.attempt = 1] \in Run
      <4>1. /\ run[r] \in Run /\ cursor.version \in Nat
            /\ run[r].to \in 0..N /\ run[r].batches + 1 \in Nat
        BY DEF TypeOK, Run
      <4>. QED BY <4>1, FirstAttempt DEF Run
    <3>. QED BY <1>10, <3>1, <3>2 DEF Reread, Tables, TypeOK
  <2>. QED BY <2>1, <2>2
<1>11. ASSUME NEW r \in Runners, Crash(r) PROVE TypeOK'
  BY <1>11, EndType DEF Crash, Tables, TypeOK
<1>12. CASE UNCHANGED vars
  BY <1>12 DEF vars, TypeOK
<1>13. ASSUME NEW r \in Runners, LastPage(r) PROVE TypeOK'
  BY <1>13, EndType DEF LastPage, Tables, TypeOK
<1>. QED BY <1>1, <1>2, <1>3, <1>4, <1>5, <1>6, <1>7, <1>8, <1>9, <1>10, <1>11, <1>12, <1>13
         DEF Next, Step

\* The state is well formed in every reachable state, whatever the log, the
\* number of runners and the retry budget (AuditEtl's TypeOK).
THEOREM TypeCorrect == Spec => []TypeOK
<1>1. Init => TypeOK
  <2>. SUFFICES ASSUME Init PROVE TypeOK
    OBVIOUS
  <2>1. Idle("-") \in Run
    BY IdleType
  <2>. QED BY <2>1, AuditAssumption DEF Init, TypeOK
<1>2. TypeOK /\ [Next]_vars => TypeOK'
  BY TypeStep
<1>. QED BY <1>1, <1>2, PTL DEF Spec

-----------------------------------------------------------------------------
(* What a step leaves alone and what it may not take back.                  *)

\* Dead letters and events only accumulate.
LEMMA Accumulate == ASSUME TypeOK, [Next]_vars
                    PROVE  events \subseteq events' /\ Dead \subseteq Dead'
<1>1. CASE UNCHANGED <<events, dlq>>
  BY <1>1 DEF Dead
<1>2. ASSUME NEW r \in Runners, events \subseteq events', UNCHANGED dlq
      PROVE  events \subseteq events' /\ Dead \subseteq Dead'
  BY <1>2 DEF Dead
<1>3. ASSUME NEW r \in Runners, UNCHANGED events, dlq' = Buried(r)
      PROVE  events \subseteq events' /\ Dead \subseteq Dead'
  BY <1>3 DEF Dead, Buried, TypeOK
<1>. QED
  BY <1>1, <1>2, <1>3
  DEF Next, Step, vars, Tables, LogEvent, Start, FetchPage, FetchFails, UpsertChunk,
      UpsertFails, AppendDlq, AppendFails, Advance, LastPage, Reread, Crash

\* A run that does not move keeps what it relies on.
LEMMA OthersKeep == ASSUME events \subseteq events', Dead \subseteq Dead',
                           NEW q \in Runners, RunInv(q), run'[q] = run[q]
                    PROVE  RunInv(q)'
  BY DEF RunInv, Delivered, Loading

\* A run that is not running relies on nothing.
LEMMA EndedKeeps == ASSUME TypeOK, NEW r \in Runners, NEW out, End(r, out)
                    PROVE  RunInv(r)' /\ run'[r].at = "-" /\ run'[r].out = out
  BY DEF End, Idle, RunInv, TypeOK

\* Only the run that acts changes.
LEMMA EndFrame == ASSUME TypeOK, NEW r \in Runners, NEW out, End(r, out)
                  PROVE  \A q \in Runners \ {r} : run'[q] = run[q]
  BY DEF End, TypeOK

\* A page whose readable records are stored and whose others are buried is
\* delivered, and with what is before it so is everything up to its end.
LEMMA PageDelivered == ASSUME NEW l \in 0..N, NEW t \in 0..N, NEW S, NEW D,
                              1..l \subseteq S \cup D, GoodOf(l, t) \subseteq S,
                              BadOf(l, t) \subseteq D
                       PROVE  1..t \subseteq S \cup D
<1>. SUFFICES ASSUME NEW i \in 1..t PROVE i \in S \cup D
  OBVIOUS
<1>0. N \in Nat
  BY AuditAssumption
<1>1. CASE i \in 1..l
  BY <1>1
<1>2. CASE i \notin 1..l
  <2>1. i \in (l + 1)..t /\ i \in 1..N
    BY <1>0, <1>2
  <2>. QED BY <2>1 DEF GoodOf, BadOf, Good
<1>. QED BY <1>1, <1>2

\* After a failed attempt the run is over or in the same place, with the
\* events of its page to do from the start.
LEMMA RetryKeeps ==
  ASSUME TypeOK, NEW r \in Runners, NEW todo, Retry(r, todo), RunInv(r),
         events \subseteq events', Dead \subseteq Dead',
         run[r].at \in {"fetch", "upsert", "dlq"},
         run[r].at = "upsert" => todo = GoodOf(run[r].from, run[r].to),
         run[r].at # "upsert" => todo = {}
  PROVE  RunInv(r)' /\ \A q \in Runners \ {r} : run'[q] = run[q]
<1>1. CASE run[r].attempt < MaxRetries
  <2>1. run' = [run EXCEPT ![r] = [run[r] EXCEPT !.attempt = run[r].attempt + 1, !.todo = todo]]
    BY <1>1 DEF Retry
  <2>2. /\ run'[r].at = run[r].at /\ run'[r].from = run[r].from
        /\ run'[r].to = run[r].to /\ run'[r].todo = todo
    BY <2>1 DEF TypeOK, Run
  <2>3. \A q \in Runners \ {r} : run'[q] = run[q]
    BY <2>1 DEF TypeOK
  <2>. QED BY <2>2, <2>3 DEF RunInv, Delivered, Loading
<1>2. CASE ~(run[r].attempt < MaxRetries)
  BY <1>2, EndedKeeps, EndFrame DEF Retry
<1>. QED BY <1>1, <1>2

\* What the run that acts relies on after its step, and the frame.
LEMMA RunStep ==
  ASSUME TypeOK, NothingSkipped, \A q \in Runners : RunInv(q), NEW r \in Runners,
         Start(r) \/ Step(r) \/ Crash(r), events \subseteq events', Dead \subseteq Dead'
  PROVE  RunInv(r)' /\ \A q \in Runners \ {r} : run'[q] = run[q]
<1>1. CASE Start(r)
  <2>1. PICK limit \in Limits, cap \in Caps :
            run' = [run EXCEPT ![r] = [Idle("-") EXCEPT
                      !.at = "fetch", !.from = cursor.pos, !.known = cursor.version,
                      !.limit = limit, !.cap = cap]]
    BY <1>1 DEF Start
  <2>2. /\ run'[r].at = "fetch" /\ run'[r].from = cursor.pos /\ run'[r].todo = {}
        /\ run'[r].to = 0 /\ cursor.pos \in 0..N
    BY <2>1 DEF TypeOK, Idle
  <2>3. \A q \in Runners \ {r} : run'[q] = run[q]
    BY <2>1 DEF TypeOK
  <2>. QED BY <2>2, <2>3 DEF RunInv, NothingSkipped, Delivered, Loading
<1>2. CASE FetchPage(r)
  <2>. DEFINE l == run[r].from
              t == PageEnd(r)
  <2>1. CASE run[r].batches >= run[r].cap
    BY <1>2, <2>1, EndedKeeps, EndFrame DEF FetchPage
  <2>2. CASE run[r].batches < run[r].cap /\ t <= l
    <3>1. ~(run[r].batches >= run[r].cap)
      BY <2>2 DEF TypeOK, Run
    <3>. QED BY <1>2, <2>2, <3>1, EndedKeeps, EndFrame DEF FetchPage
  <2>3. CASE ~(run[r].batches >= run[r].cap) /\ ~(run[r].batches < run[r].cap /\ t <= l)
    <3>1. PICK done \in {FALSE, t = source} :
              run' = [run EXCEPT ![r] = [run[r] EXCEPT !.at = FirstCall(l, t), !.to = t,
                                           !.done = done, !.todo = GoodOf(l, t), !.attempt = 1]]
      BY <1>2, <2>3, PageRead, Zenon
    <3>2. /\ run'[r].at = FirstCall(l, t) /\ run'[r].from = l /\ run'[r].to = t
          /\ run'[r].todo = GoodOf(l, t) /\ run'[r].at # "fetch"
      BY <3>1 DEF TypeOK, Run, FirstCall, AfterLoad
    <3>3. l <= t /\ 1..l \subseteq Delivered
      <4>1. run[r].batches \in Nat /\ run[r].cap \in Nat /\ l \in 0..N /\ t \in 0..N
        BY PageEndType DEF TypeOK, Run
      <4>2. N \in Nat
        BY AuditAssumption
      <4>3. l <= t
        BY <2>3, <4>1, <4>2
      <4>. QED BY <1>2, <4>3 DEF RunInv, FetchPage
    <3>4. \A q \in Runners \ {r} : run'[q] = run[q]
      BY <3>1 DEF TypeOK
    <3>. HIDE DEF l, t
    <3>5. 1..run'[r].from \subseteq Delivered'
      BY <3>2, <3>3 DEF Delivered
    <3>6. run'[r].at \in {"dlq", "advance", "reread"} => run'[r].todo = {}
      BY <3>2 DEF FirstCall
    <3>7. run'[r].at \in {"advance", "reread"} => BadOf(run'[r].from, run'[r].to) = {}
      BY <3>2 DEF FirstCall, AfterLoad
    <3>. QED BY <3>2, <3>3, <3>4, <3>5, <3>6, <3>7 DEF RunInv
  <2>. QED BY <2>1, <2>2, <2>3
<1>3. CASE FetchFails(r)
  BY <1>3, RetryKeeps DEF FetchFails
<1>4. CASE UpsertChunk(r)
  <2>. DEFINE left == run[r].todo \ Chunk(run[r].todo)
  <2>1. events' = events \cup Chunk(run[r].todo) /\ run[r].at = "upsert" /\ RunInv(r)
    BY <1>4 DEF UpsertChunk
  <2>2. CASE left # {}
    <3>1. run' = [run EXCEPT ![r] = [run[r] EXCEPT !.todo = left]]
      BY <1>4, <2>2 DEF UpsertChunk
    <3>2. /\ run'[r].at = "upsert" /\ run'[r].from = run[r].from
          /\ run'[r].to = run[r].to /\ run'[r].todo = left
      BY <2>1, <3>1 DEF TypeOK, Run
    <3>3. \A q \in Runners \ {r} : run'[q] = run[q]
      BY <3>1 DEF TypeOK
    <3>. QED BY <2>1, <3>2, <3>3 DEF RunInv, Delivered, Loading
  <2>3. CASE left = {}
    <3>1. run' = [run EXCEPT ![r] = [run[r] EXCEPT !.todo = {}, !.attempt = 1,
                                       !.at = AfterLoad(run[r].from, run[r].to)]]
      BY <1>4, <2>3 DEF UpsertChunk
    <3>2. /\ run'[r].at = AfterLoad(run[r].from, run[r].to) /\ run'[r].from = run[r].from
          /\ run'[r].to = run[r].to /\ run'[r].todo = {}
      BY <3>1 DEF TypeOK, Run
    <3>3. \A q \in Runners \ {r} : run'[q] = run[q]
      BY <3>1 DEF TypeOK
    <3>4. run[r].todo \subseteq events'
      BY <2>1, <2>3
    <3>. QED BY <2>1, <3>2, <3>3, <3>4 DEF RunInv, Delivered, Loading, AfterLoad
  <2>. QED BY <2>2, <2>3
<1>5. CASE UpsertFails(r)
  BY <1>5, RetryKeeps DEF UpsertFails
<1>6. CASE AppendDlq(r)
  <2>1. run' = [run EXCEPT ![r] = [run[r] EXCEPT !.at = "advance", !.attempt = 1]]
    BY <1>6 DEF AppendDlq
  <2>2. /\ run'[r].at = "advance" /\ run'[r].from = run[r].from
        /\ run'[r].to = run[r].to /\ run'[r].todo = run[r].todo
    BY <2>1 DEF TypeOK, Run
  <2>3. \A q \in Runners \ {r} : run'[q] = run[q]
    BY <2>1 DEF TypeOK
  <2>4. BadOf(run[r].from, run[r].to) \subseteq Dead'
    BY <1>6 DEF AppendDlq, Buried, Dead, TypeOK, BadOf
  <2>5. run[r].at = "dlq" /\ RunInv(r)
    BY <1>6 DEF AppendDlq
  <2>. QED BY <2>2, <2>3, <2>4, <2>5 DEF RunInv, Delivered, Loading
<1>7. CASE AppendFails(r)
  BY <1>7, RetryKeeps DEF AppendFails
<1>8. CASE Advance(r)
  <2>1. CASE cursor.version = run[r].known
    <3>1. run' = [run EXCEPT ![r] = [run[r] EXCEPT !.at = "reread"]]
      BY <1>8, <2>1 DEF Advance
    <3>2. /\ run'[r].at = "reread" /\ run'[r].from = run[r].from
          /\ run'[r].to = run[r].to /\ run'[r].todo = run[r].todo
      BY <3>1 DEF TypeOK, Run
    <3>3. \A q \in Runners \ {r} : run'[q] = run[q]
      BY <3>1 DEF TypeOK
    <3>4. run[r].at = "advance" /\ RunInv(r)
      BY <1>8 DEF Advance
    <3>. QED BY <3>2, <3>3, <3>4 DEF RunInv, Delivered, Loading
  <2>2. CASE cursor.version # run[r].known
    BY <1>8, <2>2, EndedKeeps, EndFrame DEF Advance
  <2>. QED BY <2>1, <2>2
<1>9. CASE Reread(r)
  <2>1. CASE run[r].done
    BY <1>9, <2>1, EndedKeeps, EndFrame DEF Reread
  <2>2. CASE ~run[r].done
    <3>1. run' = [run EXCEPT ![r] = [run[r] EXCEPT !.at = "fetch", !.known = cursor.version,
                    !.from = run[r].to, !.batches = run[r].batches + 1, !.attempt = 1]]
      BY <1>9, <2>2 DEF Reread
    <3>2. /\ run'[r].at = "fetch" /\ run'[r].from = run[r].to /\ run'[r].todo = run[r].todo
          /\ run'[r].to = run[r].to
      BY <3>1 DEF TypeOK, Run
    <3>3. \A q \in Runners \ {r} : run'[q] = run[q]
      BY <3>1 DEF TypeOK
    <3>4. run[r].at = "reread" /\ RunInv(r) /\ run[r].from \in 0..N /\ run[r].to \in 0..N
      BY <1>9 DEF Reread, TypeOK, Run
    <3>5. 1..run[r].to \subseteq events \cup Dead
      BY <3>4, PageDelivered DEF RunInv, Delivered, Loading
    <3>. QED BY <3>2, <3>3, <3>4, <3>5 DEF RunInv, Delivered, Loading
  <2>. QED BY <2>1, <2>2
<1>10. CASE LastPage(r)
  BY <1>10, EndedKeeps, EndFrame DEF LastPage
<1>11. CASE Crash(r)
  BY <1>11, EndedKeeps, EndFrame DEF Crash
<1>. QED BY <1>1, <1>2, <1>3, <1>4, <1>5, <1>6, <1>7, <1>8, <1>9, <1>10, <1>11 DEF Step

-----------------------------------------------------------------------------
(* The steps that change a table.                                           *)

\* Appending the bad records of a page buries exactly those.
LEMMA BuryStep == ASSUME TypeOK, NEW r \in Runners, dlq' = Buried(r)
                  PROVE  Dead' = Dead \cup BadOf(run[r].from, run[r].to)
<1>1. \A b \in Bad : dlq[b] \in Nat
  BY DEF TypeOK
<1>2. BadOf(run[r].from, run[r].to) \subseteq Bad
  BY DEF BadOf
<1>3. \A b \in Bad : dlq'[b] = IF b \in BadOf(run[r].from, run[r].to) THEN dlq[b] + 1 ELSE dlq[b]
  BY DEF Buried
<1>. QED BY <1>1, <1>2, <1>3 DEF Dead

\* When dead letters are appended, every readable record up to the end of
\* the page is stored.
LEMMA ReadableFirst ==
  ASSUME TypeOK, NEW r \in Runners, RunInv(r), run[r].at = "dlq"
  PROVE  \A b \in BadOf(run[r].from, run[r].to) : \A g \in Good : g < b => g \in events
<1>. SUFFICES ASSUME NEW b \in BadOf(run[r].from, run[r].to), NEW g \in Good, g < b
              PROVE  g \in events
  OBVIOUS
<1>1. /\ N \in Nat /\ g \in 1..N /\ g \notin Dead
      /\ run[r].from \in 0..N /\ run[r].to \in 0..N
  BY AuditAssumption DEF TypeOK, Run, Good, Dead
<1>2. b \in (run[r].from + 1)..run[r].to
  BY DEF BadOf
<1>3. /\ 1..run[r].from \subseteq events \cup Dead
      /\ GoodOf(run[r].from, run[r].to) \subseteq events
  BY DEF RunInv, Delivered, Loading
<1>4. g \in 1..run[r].from \/ g \in (run[r].from + 1)..run[r].to
  BY <1>1, <1>2
<1>. QED BY <1>1, <1>3, <1>4 DEF GoodOf

\* The cursor only moves to the end of a page that is delivered.
LEMMA AdvanceDelivered ==
  ASSUME TypeOK, NEW r \in Runners, RunInv(r), Advance(r)
  PROVE  /\ 1..run[r].to \subseteq Delivered
         /\ run[r].to \in 0..N
         /\ UNCHANGED cursor \/ cursor'.pos = run[r].to
<1>1. run[r].at = "advance" /\ run[r].from \in 0..N /\ run[r].to \in 0..N
  BY DEF Advance, TypeOK, Run
<1>2. 1..run[r].to \subseteq events \cup Dead
  BY <1>1, PageDelivered DEF RunInv, Delivered, Loading
<1>3. UNCHANGED cursor \/ cursor'.pos = run[r].to
  BY DEF Advance
<1>. QED BY <1>1, <1>2, <1>3 DEF Delivered

\* The inductive invariant is preserved by every step.
LEMMA InvStep == IInv /\ [Next]_vars => IInv'
<1>. SUFFICES ASSUME IInv, [Next]_vars PROVE IInv'
  OBVIOUS
<1>1. TypeOK' /\ events \subseteq events' /\ Dead \subseteq Dead'
  BY TypeStep, Accumulate DEF IInv
<1>2. (\A q \in Runners : RunInv(q))'
  <2>1. ASSUME UNCHANGED run PROVE \A q \in Runners : RunInv(q)'
    BY <1>1, <2>1, OthersKeep DEF IInv
  <2>2. ASSUME NEW r \in Runners, Start(r) \/ Step(r) \/ Crash(r)
        PROVE  \A q \in Runners : RunInv(q)'
    <3>1. RunInv(r)' /\ \A q \in Runners \ {r} : run'[q] = run[q]
      BY <1>1, <2>2, RunStep DEF IInv
    <3>. QED BY <1>1, <3>1, OthersKeep DEF IInv
  <2>. QED BY <2>1, <2>2 DEF Next, LogEvent, vars
<1>3. NothingSkipped'
  <2>1. CASE UNCHANGED cursor
    BY <1>1, <2>1 DEF IInv, NothingSkipped, Delivered
  <2>2. ASSUME NEW r \in Runners, Advance(r) PROVE NothingSkipped'
    BY <1>1, <2>1, <2>2, AdvanceDelivered DEF IInv, NothingSkipped, Delivered
  <2>. QED BY <2>1, <2>2
           DEF Next, Step, vars, Tables, LogEvent, Start, FetchPage, FetchFails, UpsertChunk,
               UpsertFails, AppendDlq, AppendFails, LastPage, Reread, Crash
<1>4. BuriedInOrder'
  <2>1. CASE UNCHANGED dlq
    BY <1>1, <2>1 DEF IInv, BuriedInOrder, Dead
  <2>2. ASSUME NEW r \in Runners, run[r].at = "dlq", dlq' = Buried(r) PROVE BuriedInOrder'
    BY <1>1, <2>2, BuryStep, ReadableFirst DEF IInv, BuriedInOrder
  <2>. QED BY <2>1, <2>2
           DEF Next, Step, vars, Tables, LogEvent, Start, FetchPage, FetchFails, UpsertChunk,
               UpsertFails, AppendDlq, AppendFails, Advance, LastPage, Reread, Crash
<1>. QED BY <1>1, <1>2, <1>3, <1>4 DEF IInv

\* Nothing is stored, buried or running at the start.
LEMMA InvInit == Init => IInv
<1>. SUFFICES ASSUME Init PROVE IInv
  OBVIOUS
<1>1. TypeOK
  <2>1. Idle("-") \in Run
    BY IdleType
  <2>. QED BY <2>1, AuditAssumption DEF Init, TypeOK
<1>2. \A q \in Runners : run[q].at = "-"
  BY DEF Init, Idle
<1>3. Dead = {} /\ cursor.pos = 0
  BY DEF Init, Dead
<1>. QED BY <1>1, <1>2, <1>3 DEF IInv, NothingSkipped, BuriedInOrder, RunInv

LEMMA Invariant == Spec => []IInv
<1>. QED BY InvInit, InvStep, PTL DEF Spec

-----------------------------------------------------------------------------
(* The results.                                                             *)

\* No record before the shared cursor is neither an event nor a dead letter,
\* however many runs overlap, fail, retry and die (pipeline.ts, cursor_manager.ts).
THEOREM NoRecordSkipped == Spec => []NothingSkipped
<1>1. IInv => NothingSkipped
  BY DEF IInv
<1>. QED BY <1>1, Invariant, PTL

\* A failed attempt never reports exhaustion.
LEMMA RetryIsSilent ==
  ASSUME TypeOK, NEW r \in Runners, NEW todo, run[r].at # "-", Retry(r, todo)
  PROVE  ~(run'[r].at = "-" /\ run'[r].out = "exhausted")
<1>1. CASE run[r].attempt < MaxRetries
  <2>1. run' = [run EXCEPT ![r] = [run[r] EXCEPT !.attempt = run[r].attempt + 1, !.todo = todo]]
    BY <1>1 DEF Retry
  <2>. QED BY <2>1 DEF TypeOK, Run
<1>2. CASE ~(run[r].attempt < MaxRetries)
  BY <1>2, EndedKeeps DEF Retry
<1>. QED BY <1>1, <1>2

\* Exhaustion is reported on an empty page or behind a page that is done.
LEMMA OnlyTheEndReports ==
  ASSUME TypeOK, NEW r \in Runners, Start(r) \/ Step(r) \/ Crash(r),
         run[r].at # "-", run'[r].at = "-", run'[r].out = "exhausted"
  PROVE  run[r].at \in {"fetch", "advance", "reread"}
<1>1. CASE Start(r)
  BY <1>1 DEF Start
<1>2. CASE FetchPage(r) \/ FetchFails(r) \/ Reread(r)
  BY <1>2 DEF FetchPage, FetchFails, Reread
<1>3. CASE UpsertChunk(r)
  <2>1. run'[r].at # "-"
    <3>1. CASE run[r].todo \ Chunk(run[r].todo) # {}
      BY <1>3, <3>1 DEF UpsertChunk, TypeOK, Run
    <3>2. CASE run[r].todo \ Chunk(run[r].todo) = {}
      BY <1>3, <3>2 DEF UpsertChunk, TypeOK, Run, AfterLoad
    <3>. QED BY <3>1, <3>2
  <2>. QED BY <2>1
<1>4. CASE UpsertFails(r)
  BY <1>4, RetryIsSilent DEF UpsertFails
<1>5. CASE AppendDlq(r)
  BY <1>5 DEF AppendDlq, TypeOK, Run
<1>6. CASE AppendFails(r)
  BY <1>6, RetryIsSilent DEF AppendFails
<1>7. CASE Advance(r)
  <2>1. CASE cursor.version = run[r].known
    BY <1>7, <2>1 DEF Advance, TypeOK, Run
  <2>2. CASE cursor.version # run[r].known
    BY <1>7, <2>2, EndedKeeps DEF Advance
  <2>. QED BY <2>1, <2>2
<1>8. CASE Crash(r)
  BY <1>8, EndedKeeps DEF Crash
<1>9. CASE LastPage(r)
  BY <1>9 DEF LastPage
<1>. QED BY <1>1, <1>2, <1>3, <1>4, <1>5, <1>6, <1>7, <1>8, <1>9 DEF Step

\* A run that reports the log exhausted has delivered everything up to the
\* end of its last page (pipeline.ts:133-138).
THEOREM ExhaustionIsDelivery == Spec => ExhaustedIsDelivered
<1>. DEFINE Reported(r) == run[r].at # "-" /\ run'[r].at = "-" /\ run'[r].out = "exhausted"
            Honest == \A r \in Runners :
                         Reported(r) => 1..run[r].from \cup 1..run[r].to \subseteq Delivered'
<1>1. IInv /\ [Next]_vars => [Honest]_vars
  <2>. SUFFICES ASSUME IInv, Next PROVE Honest
    OBVIOUS
  <2>1. events \subseteq events' /\ Dead \subseteq Dead'
    BY Accumulate DEF IInv
  <2>2. SUFFICES ASSUME NEW r \in Runners, Reported(r)
                 PROVE  1..run[r].from \cup 1..run[r].to \subseteq Delivered'
    OBVIOUS
  <2>3. run[r].at \in {"fetch", "advance", "reread"}
    <3>1. ~UNCHANGED run
      BY <2>2
    <3>2. PICK q \in Runners : Start(q) \/ Step(q) \/ Crash(q)
      BY <3>1 DEF Next, LogEvent
    <3>3. run'[r] # run[r]
      BY <2>2
    <3>4. r = q
      BY <2>1, <3>2, <3>3, RunStep DEF IInv
    <3>. QED BY <2>2, <3>2, <3>4, OnlyTheEndReports DEF IInv
  <2>4. RunInv(r) /\ run[r].at # "-" /\ run[r].from \in 0..N /\ run[r].to \in 0..N
    BY <2>2 DEF IInv, TypeOK, Run
  <2>5. 1..run[r].from \subseteq Delivered
    BY <2>4 DEF RunInv
  <2>6. CASE run[r].at = "fetch"
    <3>1. run[r].to <= run[r].from /\ N \in Nat
      BY <2>4, <2>6, AuditAssumption DEF RunInv
    <3>2. 1..run[r].to \subseteq 1..run[r].from
      BY <2>4, <3>1
    <3>. QED BY <2>1, <2>5, <3>2 DEF Delivered
  <2>7. CASE run[r].at \in {"advance", "reread"}
    <3>1. 1..run[r].to \subseteq events \cup Dead
      BY <2>4, <2>7, PageDelivered DEF RunInv, Delivered, Loading
    <3>. QED BY <2>1, <2>5, <3>1 DEF Delivered
  <2>. QED BY <2>3, <2>6, <2>7
<1>. QED BY <1>1, Invariant, PTL DEF Spec, ExhaustedIsDelivered

\* A committed chunk is a Store of the abstract specification.
LEMMA StoreImplemented ==
  ASSUME TypeOK, NEW S, S \subseteq Good, events' = events \cup S, UNCHANGED <<dlq, cursor>>
  PROVE  [Delivery!DNext]_(Delivery!dvars)
<1>1. UNCHANGED Dead /\ S \in SUBSET (1..N)
  BY DEF Dead, Good
<1>2. Delivery!Store(S)
  BY <1>1 DEF Delivery!Store, Delivery!Readable, Good
<1>. QED BY <1>1, <1>2 DEF Delivery!DNext

\* Appended dead letters are a Bury.
LEMMA BuryImplemented ==
  ASSUME TypeOK, NEW r \in Runners, RunInv(r), run[r].at = "dlq", dlq' = Buried(r),
         UNCHANGED <<events, cursor>>
  PROVE  [Delivery!DNext]_(Delivery!dvars)
<1>. DEFINE S == BadOf(run[r].from, run[r].to)
<1>1. Dead' = Dead \cup S /\ \A b \in S : \A g \in Good : g < b => g \in events
  BY BuryStep, ReadableFirst
<1>2. S \subseteq Bad /\ S \in SUBSET (1..N)
  BY AuditAssumption DEF BadOf
<1>. HIDE DEF S
<1>3. Delivery!Bury(S)
  BY <1>1, <1>2 DEF Delivery!Bury, Delivery!Readable, Good
<1>. QED BY <1>2, <1>3 DEF Delivery!DNext

\* Moving the cursor is a Mark.
LEMMA MarkImplemented ==
  ASSUME TypeOK, NEW r \in Runners, RunInv(r), Advance(r)
  PROVE  [Delivery!DNext]_(Delivery!dvars)
<1>1. UNCHANGED events /\ UNCHANGED Dead
  BY DEF Advance, Dead
<1>2. CASE UNCHANGED cursor
  BY <1>1, <1>2 DEF Delivery!dvars
<1>3. CASE cursor'.pos = run[r].to
  <2>1. Delivery!Mark(run[r].to)
    BY <1>1, <1>3, AdvanceDelivered DEF Delivery!Mark, Delivered
  <2>. QED BY <2>1, AdvanceDelivered DEF Delivery!DNext
<1>. QED BY <1>2, <1>3, AdvanceDelivered

\* The pipeline implements AuditDelivery: every step of every run stores,
\* buries in order, moves the mark over delivered records, or changes nothing
\* the abstract specification sees.
THEOREM PipelineImplementsDelivery == Spec => DeliverySpec
<1>1. Init => Delivery!DInit
  BY DEF Init, Delivery!DInit, Dead
<1>2. IInv /\ [Next]_vars => [Delivery!DNext]_(Delivery!dvars)
  <2>. SUFFICES ASSUME IInv, [Next]_vars PROVE [Delivery!DNext]_(Delivery!dvars)
    OBVIOUS
  <2>1. CASE UNCHANGED <<events, dlq, cursor>>
    BY <2>1 DEF Delivery!dvars, Dead
  <2>2. ASSUME NEW r \in Runners, UpsertChunk(r) \/ UpsertFails(r)
        PROVE  [Delivery!DNext]_(Delivery!dvars)
    <3>1. Chunk(run[r].todo) \subseteq Good
      BY DEF Chunk, IInv, TypeOK, Run
    <3>2. PICK S \in {{}, Chunk(run[r].todo)} : events' = events \cup S
      BY <2>2 DEF UpsertChunk, UpsertFails
    <3>3. S \subseteq Good /\ UNCHANGED <<dlq, cursor>>
      BY <2>2, <3>1, <3>2 DEF UpsertChunk, UpsertFails
    <3>. QED BY <3>2, <3>3, StoreImplemented DEF IInv
  <2>3. ASSUME NEW r \in Runners, AppendDlq(r) \/ AppendFails(r)
        PROVE  [Delivery!DNext]_(Delivery!dvars)
    <3>1. run[r].at = "dlq" /\ UNCHANGED <<events, cursor>> /\ (UNCHANGED dlq \/ dlq' = Buried(r))
      BY <2>3 DEF AppendDlq, AppendFails
    <3>. QED BY <2>1, <3>1, BuryImplemented DEF IInv
  <2>4. ASSUME NEW r \in Runners, Advance(r) PROVE [Delivery!DNext]_(Delivery!dvars)
    BY <2>4, MarkImplemented DEF IInv
  <2>. QED BY <2>1, <2>2, <2>3, <2>4
           DEF Next, Step, vars, Tables, LogEvent, Start, FetchPage, FetchFails, LastPage, Reread, Crash
<1>. QED BY <1>1, <1>2, Invariant, PTL DEF Spec, DeliverySpec, Delivery!DSpec
=============================================================================
