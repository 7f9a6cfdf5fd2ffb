-------------------------- MODULE TaxConfigsProofs --------------------------
(***************************************************************************)
(* TLAPS proofs about TaxConfigs, for every matrix, set of rates and       *)
(* number of requests: the state stays well formed, an undisturbed         *)
(* publication bills what its snapshot says, an undisturbed rollback       *)
(* restores its snapshot.                                                  *)
(***************************************************************************)
EXTENDS TaxConfigs, TLAPS

\* A request that met no other is the only one.
Lonely(r) == req[r] # Idle /\ req[r].alone => \A o \in Requests \ {r} : req[o] = Idle

\* An undisturbed publication still reads what it is about to publish, and its
\* snapshot, once written, stays.
PublishHolds(q) ==
    q.op = "publish" /\ q.alone =>
        /\ q.params = config.params /\ q.want = rate
        /\ q.at = "status" => \E i \in DOMAIN versions :
              versions[i] = [version |-> q.number, params |-> q.params, rate |-> q.want]

\* An undisturbed rollback has restored all it does not still have to do.
RollbackHolds(q) ==
    q.op = "rollback" /\ q.at = "cells" /\ q.alone =>
        /\ config.status = "DRAFT" /\ config.params = q.params
        /\ \A c \in Cells : q.want[c] # None /\ c \notin q.todo => rate[c] = q.want[c]

\* Nothing is published cleanly while getOrCreate or a rollback writes cells.
DraftHolds(q) ==
    q.op \in {"open", "rollback"} /\ q.at = "cells" /\ clean => config.status # "PUBLISHED"

\* A publication writes no cells.
StageHolds(q) == q.at = "cells" => q.op \in {"open", "cells", "rollback"}

Holds(q) == PublishHolds(q) /\ RollbackHolds(q) /\ DraftHolds(q) /\ StageHolds(q)

\* Only getOrCreate runs before there is a configuration.
Established ==
    versions # <<>> \/ (\E q \in Requests : req[q].op \in {"cells", "publish", "rollback"})
        => Exists

IInv == /\ TypeOK /\ Established /\ PublishedIsSnapshot
        /\ \A r \in Requests : Lonely(r) /\ Holds(req[r])

-----------------------------------------------------------------------------
(* Requests.                                                                *)

\* The idle request is a request.
LEMMA IdleType == Idle \in Request /\ NoMatrix \in Matrix
  BY TaxAssumption DEF Idle, Request, NoMatrix, Matrix

\* A disturbed request is the same request, known not to be alone.
LEMMA DisturbedFacts ==
    ASSUME NEW q \in Request
    PROVE  /\ Disturbed(q) \in Request
           /\ Disturbed(q).op = q.op /\ Disturbed(q).at = q.at
           /\ Disturbed(q).todo = q.todo /\ Disturbed(q).want = q.want
           /\ Disturbed(q).params = q.params /\ Disturbed(q).number = q.number
           /\ Disturbed(q).alone => q = Idle
           /\ q = Idle => Disturbed(q) = Idle
  BY IdleType DEF Disturbed, Request

\* What a new request finds and leaves.
LEMMA BeginFacts ==
    ASSUME TypeOK, NEW r \in Requests, NEW x \in Request, Begin(r, x)
    PROVE  /\ req[r] = Idle
           /\ req' \in [Requests -> Request]
           /\ \A q \in Requests \ {r} : req'[q] = Disturbed(req[q])
           /\ req'[r] = [x EXCEPT !.alone = \A o \in Requests \ {r} : req[o] = Idle]
           /\ calls' \in 0..MaxCalls
<1>. DEFINE lone == \A o \in Requests \ {r} : req[o] = Idle
            y == [x EXCEPT !.alone = lone]
<1>1. lone \in BOOLEAN
  BY Zenon
<1>2. y \in Request
  BY <1>1 DEF Request
<1>3. \A q \in Requests : Disturbed(req[q]) \in Request
  BY DisturbedFacts DEF TypeOK
<1>4. req' = [q \in Requests |-> IF q = r THEN y ELSE Disturbed(req[q])]
  BY DEF Begin
<1>5. calls' \in 0..MaxCalls
  BY TaxAssumption DEF Begin, Counted, TypeOK
<1>6. req[r] = Idle
  BY DEF Begin
<1>7. req'[r] = y
  BY <1>4
<1>8. \A q \in Requests \ {r} : req'[q] = Disturbed(req[q])
  BY <1>4
<1>. HIDE DEF lone, y
<1>9. req' \in [Requests -> Request]
  BY <1>2, <1>3, <1>4
<1>. QED BY <1>5, <1>6, <1>7, <1>8, <1>9 DEF lone, y

\* While a request is in flight no other is alone.
LEMMA OthersDisturbed ==
    ASSUME IInv, NEW r \in Requests, req[r] # Idle, NEW o \in Requests \ {r}, req[o].alone
    PROVE  req[o] = Idle
  BY DEF IInv, Lonely

\* What holds of a request holds of it disturbed, and of an idle one always.
LEMMA DisturbedHolds ==
    ASSUME NEW q \in Request, DraftHolds(q), StageHolds(q)
    PROVE  Holds(Disturbed(q))
<1>1. CASE q = Idle
  BY <1>1 DEF Disturbed, Holds, PublishHolds, RollbackHolds, DraftHolds, StageHolds, Idle
<1>2. CASE q # Idle
  <2>1. ~Disturbed(q).alone /\ Disturbed(q).op = q.op /\ Disturbed(q).at = q.at
    BY <1>2, DisturbedFacts
  <2>. QED BY <2>1 DEF Holds, PublishHolds, RollbackHolds, DraftHolds, StageHolds
<1>. QED BY <1>1, <1>2

\* A read that starts a request keeps the invariant, if it holds of the new request.
LEMMA BeginKeeps ==
    ASSUME IInv, NEW r \in Requests, NEW x \in Request, x # Idle, Begin(r, x),
           UNCHANGED <<config, rate, versions, clean>>,
           x.op \notin {"open", "rollback"} \/ x.at # "cells",
           x.op = "publish" => x.at = "version" /\ x.params = config.params /\ x.want = rate,
           x.op \in {"publish", "rollback"} => x.params \in Params,
           x.op # "idle", x.op \in {"cells", "publish", "rollback"} => Exists
    PROVE  IInv'
<1>. DEFINE lone == \A o \in Requests \ {r} : req[o] = Idle
            y == [x EXCEPT !.alone = lone]
<1>1. TypeOK /\ PublishedIsSnapshot
  BY DEF IInv
<1>2. /\ req[r] = Idle
      /\ req' \in [Requests -> Request]
      /\ \A q \in Requests \ {r} : req'[q] = Disturbed(req[q])
      /\ req'[r] = y
      /\ calls' \in 0..MaxCalls
  BY <1>1, BeginFacts
<1>3. /\ y.op = x.op /\ y.at = x.at /\ y.params = x.params /\ y.want = x.want
      /\ y.alone = lone /\ x.op \in {"open", "cells", "publish", "rollback"}
  BY DEF Request
<1>4. \A q \in Requests : req[q] \in Request
  BY <1>1 DEF TypeOK
<1>5. TypeOK'
  <2>1. ASSUME NEW q \in Requests, req'[q].op \in {"publish", "rollback"}
        PROVE  req'[q].params \in Params
    <3>1. CASE q = r
      BY <1>2, <1>3, <2>1, <3>1
    <3>2. CASE q # r
      <4>1. req'[q].op = req[q].op /\ req'[q].params = req[q].params
        BY <1>2, <1>4, <3>2, DisturbedFacts
      <4>. QED BY <1>1, <2>1, <4>1 DEF TypeOK
    <3>. QED BY <3>1, <3>2
  <2>. QED BY <1>1, <1>2, <2>1 DEF TypeOK, Exists
<1>6. PublishedIsSnapshot'
  <2>1. CellsInFlight => CellsInFlight'
    BY <1>2, <1>4, DisturbedFacts DEF CellsInFlight, Idle
  <2>. QED BY <1>1, <2>1 DEF PublishedIsSnapshot
<1>7. ASSUME NEW q \in Requests PROVE Lonely(q)' /\ Holds(req[q])'
  <2>1. CASE q = r
    <3>0. StageHolds(req[q])'
      BY <1>2, <1>3, <2>1 DEF StageHolds
    <3>1. PublishHolds(y) /\ RollbackHolds(y) /\ DraftHolds(y)
      BY <1>3 DEF PublishHolds, RollbackHolds, DraftHolds
    <3>2. Holds(req[q])'
      <4>0. req'[q] = y
        BY <1>2, <2>1
      <4>. HIDE DEF y
      <4>1. PublishHolds(req[q])' /\ DraftHolds(req[q])'
        BY <3>1, <4>0 DEF PublishHolds, DraftHolds
      <4>2. RollbackHolds(req[q])'
        BY <3>1, <4>0 DEF RollbackHolds
      <4>. QED BY <3>0, <4>1, <4>2 DEF Holds
    <3>3. y.alone => \A o \in Requests \ {r} : req'[o] = Idle
      BY <1>2, <1>3, <1>4, DisturbedFacts
    <3>. QED BY <1>2, <2>1, <3>2, <3>3 DEF Lonely
  <2>2. CASE q # r
    <3>1. req'[q] = Disturbed(req[q]) /\ Holds(req[q])
      BY <1>2, <2>2 DEF IInv
    <3>2. Holds(Disturbed(req[q]))
      BY <1>4, <3>1, DisturbedHolds DEF Holds
    <3>3. Holds(req[q])'
      BY <3>1, <3>2 DEF Holds, PublishHolds, RollbackHolds, DraftHolds, StageHolds
    <3>4. req'[q].alone => req'[q] = Idle
      BY <1>4, <3>1, DisturbedFacts
    <3>. QED BY <3>3, <3>4 DEF Lonely
  <2>. QED BY <2>1, <2>2
<1>8. Established'
  <2>1. ASSUME NEW q \in Requests, req'[q].op \in {"cells", "publish", "rollback"}
        PROVE  Exists
    <3>1. CASE q = r
      BY <1>2, <1>3, <2>1, <3>1
    <3>2. CASE q # r
      <4>1. req'[q].op = req[q].op
        BY <1>2, <1>4, <3>2, DisturbedFacts
      <4>. QED BY <2>1, <4>1 DEF IInv, Established
    <3>. QED BY <3>1, <3>2
  <2>. QED BY <2>1 DEF IInv, Established, Exists
<1>. QED BY <1>5, <1>6, <1>7, <1>8 DEF IInv

\* What a later step of a request leaves of the others: none of them is alone.
LEMMA StepFacts ==
    ASSUME IInv, NEW r \in Requests, req[r] # Idle, NEW z \in Request,
           req' = [req EXCEPT ![r] = z], z = Idle \/ z.alone = req[r].alone
    PROVE  /\ req' \in [Requests -> Request] /\ req'[r] = z
           /\ \A q \in Requests \ {r} : req'[q] = req[q]
           /\ \A q \in Requests : Lonely(q)'
           /\ \A q \in Requests \ {r} :
                PublishHolds(req[q])' /\ RollbackHolds(req[q])'
<1>1. req \in [Requests -> Request]
  BY DEF IInv, TypeOK
<1>2. req' \in [Requests -> Request] /\ req'[r] = z
      /\ \A q \in Requests \ {r} : req'[q] = req[q]
  BY <1>1
<1>3. \A q \in Requests \ {r} : req[q].alone => req[q] = Idle
  BY OthersDisturbed
<1>4. ASSUME NEW q \in Requests PROVE Lonely(q)'
  <2>1. CASE q = r
    BY <1>2, <2>1 DEF IInv, Lonely
  <2>2. CASE q # r
    BY <1>2, <1>3, <2>2 DEF Lonely
  <2>. QED BY <2>1, <2>2
<1>5. ASSUME NEW q \in Requests \ {r}
      PROVE  PublishHolds(req[q])' /\ RollbackHolds(req[q])'
  <2>1. CASE req[q] = Idle
    BY <1>2, <2>1 DEF PublishHolds, RollbackHolds, Idle
  <2>2. CASE ~req[q].alone
    BY <1>2, <2>2 DEF PublishHolds, RollbackHolds
  <2>. QED BY <1>3, <2>1, <2>2
<1>. QED BY <1>2, <1>4, <1>5

\* The same as an invariant of the whole state: what is left to show of a later step.
LEMMA StepKeeps ==
    ASSUME IInv, NEW r \in Requests, req[r] # Idle, NEW z \in Request,
           req' = [req EXCEPT ![r] = z], z = Idle \/ z.alone = req[r].alone,
           config' \in Config, rate' \in Matrix, versions' \in Seq(Version),
           calls' = calls, clean' \in BOOLEAN,
           config'.status # "NONE" => config'.params \in Params,
           z.op \in {"publish", "rollback"} => z.params \in Params,
           Exists' \/ (UNCHANGED <<config, versions>> /\ z.op \in {"idle", req[r].op}),
           PublishedIsSnapshot', Holds(req[r])',
           \A q \in Requests \ {r} : DraftHolds(req[q])'
    PROVE  IInv'
<1>1. /\ req' \in [Requests -> Request] /\ req'[r] = z
      /\ \A q \in Requests \ {r} : req'[q] = req[q]
      /\ \A q \in Requests : Lonely(q)'
      /\ \A q \in Requests \ {r} : PublishHolds(req[q])' /\ RollbackHolds(req[q])'
  BY StepFacts
<1>2. TypeOK'
  BY <1>1 DEF IInv, TypeOK, Exists
<1>3. \A q \in Requests : Holds(req[q])'
  BY <1>1 DEF IInv, Holds, StageHolds
<1>4. Established'
  BY <1>1 DEF IInv, Established, Exists
<1>. QED BY <1>1, <1>2, <1>3, <1>4 DEF IInv

\* A step that neither publishes nor cleans keeps the others' drafts.
LEMMA DraftsKept ==
    ASSUME IInv, NEW r \in Requests, NEW z, req' = [req EXCEPT ![r] = z],
           config'.status \in {config.status, "DRAFT"}, clean' => clean
    PROVE  \A q \in Requests \ {r} : DraftHolds(req[q])'
<1>1. \A q \in Requests \ {r} : req'[q] = req[q] /\ DraftHolds(req[q])
  BY DEF IInv, TypeOK, Holds
<1>. QED BY <1>1 DEF DraftHolds

-----------------------------------------------------------------------------
(* The invariant.                                                           *)

LEMMA InitInv == Init => IInv
<1>. SUFFICES ASSUME Init PROVE IInv
  OBVIOUS
<1>1. TypeOK
  BY TaxAssumption, IdleType DEF Init, TypeOK, Config, Exists, Idle
<1>2. PublishedIsSnapshot
  BY DEF Init, PublishedIsSnapshot
<1>3. \A r \in Requests : Lonely(r) /\ Holds(req[r])
  BY DEF Init, Lonely, Holds, PublishHolds, RollbackHolds, DraftHolds, StageHolds, Idle
<1>4. Established
  BY DEF Init, Established, Idle
<1>. QED BY <1>1, <1>2, <1>3, <1>4 DEF IInv

LEMMA ReadsKeep ==
    ASSUME IInv, NEW r \in Requests,
           OpenReads(r) \/ CellsRead(r) \/ PublishReads(r) \/ RollbackReads(r)
    PROVE  IInv'
<1>0. TypeOK
  BY DEF IInv
<1>1. CASE OpenReads(r)
  <2>1. PICK x : x = [Idle EXCEPT !.op = "open", !.at = "create"] /\ Begin(r, x)
    BY <1>1 DEF OpenReads
  <2>2. x \in Request /\ x.op = "open" /\ x.at = "create" /\ x # Idle
    BY <2>1, IdleType DEF Request, Idle
  <2>3. UNCHANGED <<config, rate, versions, clean>>
    BY <1>1 DEF OpenReads
  <2>. QED BY <2>1, <2>2, <2>3, BeginKeeps
<1>2. CASE CellsRead(r)
  <2>0. PICK todo \in SUBSET Cells : \E want \in [todo -> Rates] :
            Begin(r, [Idle EXCEPT !.op = "cells", !.at = "cells", !.todo = todo,
                        !.want = [c \in Cells |-> IF c \in todo THEN want[c] ELSE None]])
    BY <1>2 DEF CellsRead
  <2>1. PICK want \in [todo -> Rates] :
            Begin(r, [Idle EXCEPT !.op = "cells", !.at = "cells", !.todo = todo,
                        !.want = [c \in Cells |-> IF c \in todo THEN want[c] ELSE None]])
    BY <2>0
  <2>. DEFINE m == [c \in Cells |-> IF c \in todo THEN want[c] ELSE None]
  <2>2. m \in Matrix
    BY DEF Matrix
  <2>3. PICK x : x = [Idle EXCEPT !.op = "cells", !.at = "cells", !.todo = todo, !.want = m]
                 /\ Begin(r, x)
    BY <2>1
  <2>4. x \in Request /\ x.op = "cells" /\ x # Idle
    BY <2>2, <2>3, IdleType DEF Request, Idle
  <2>5. UNCHANGED <<config, rate, versions, clean>> /\ Exists
    BY <1>2 DEF CellsRead
  <2>. QED BY <2>3, <2>4, <2>5, BeginKeeps
<1>3. CASE PublishReads(r)
  <2>1. PICK n, p, m : n = config.version + (IF config.status = "PUBLISHED" THEN 1 ELSE 0)
                       /\ p = config.params /\ m = rate
    OBVIOUS
  <2>2. n \in Nat /\ p \in Params /\ m \in Matrix
    BY <1>0, <1>3, <2>1 DEF TypeOK, PublishReads, Exists, Config
  <2>3. PICK x : x = [Idle EXCEPT !.op = "publish", !.at = "version", !.want = m,
                        !.params = p, !.number = n] /\ Begin(r, x)
    BY <1>3, <2>1 DEF PublishReads
  <2>4. x \in Request /\ x.op = "publish" /\ x.at = "version" /\ x # Idle
        /\ x.params = p /\ x.want = m
    BY <2>2, <2>3, IdleType DEF Request, Idle
  <2>5. UNCHANGED <<config, rate, versions, clean>> /\ Exists
    BY <1>3 DEF PublishReads
  <2>. QED BY <2>1, <2>2, <2>3, <2>4, <2>5, BeginKeeps
<1>4. CASE RollbackReads(r)
  <2>1. PICK i \in DOMAIN versions : Begin(r, [Idle EXCEPT !.op = "rollback", !.at = "status",
                        !.params = versions[i].params, !.want = versions[i].rate])
    BY <1>4 DEF RollbackReads
  <2>2. versions[i] \in Version
    BY <1>0 DEF TypeOK
  <2>3. PICK p, m : p = versions[i].params /\ m = versions[i].rate
    OBVIOUS
  <2>4. p \in Params /\ m \in Matrix
    BY <2>2, <2>3 DEF Version
  <2>5. PICK x : x = [Idle EXCEPT !.op = "rollback", !.at = "status", !.params = p, !.want = m]
                 /\ Begin(r, x)
    BY <2>1, <2>3
  <2>6. x \in Request /\ x.op = "rollback" /\ x.at = "status" /\ x # Idle /\ x.params = p
    BY <2>4, <2>5, IdleType DEF Request, Idle
  <2>7. UNCHANGED <<config, rate, versions, clean>>
    BY <1>4 DEF RollbackReads
  <2>8. i \in DOMAIN versions /\ versions # <<>>
    OBVIOUS
  <2>9. Exists
    BY <2>8 DEF IInv, Established
  <2>. QED BY <2>4, <2>5, <2>6, <2>7, <2>9, BeginKeeps
<1>. QED BY <1>1, <1>2, <1>3, <1>4

LEMMA UpdateParamsKeeps == ASSUME IInv, UpdateParams PROVE IInv'
<1>0. TypeOK /\ \A q \in Requests : req[q] \in Request
  BY DEF IInv, TypeOK
<1>1. PICK p \in Params : config' = [config EXCEPT !.params = p, !.status = "DRAFT"]
  BY DEF UpdateParams
<1>2. /\ config' \in Config /\ config'.status = "DRAFT" /\ config'.params = p
      /\ calls' \in 0..MaxCalls
  <2>1. config \in Config /\ calls \in 0..MaxCalls /\ Counted
    BY <1>0 DEF TypeOK, UpdateParams
  <2>2. config' \in Config /\ config'.status = "DRAFT" /\ config'.params = p
    BY <1>1, <2>1 DEF Config
  <2>. QED BY <2>1, <2>2, TaxAssumption DEF Counted
<1>3. req' = [q \in Requests |-> Disturbed(req[q])] /\ UNCHANGED <<rate, versions, clean>>
  BY DEF UpdateParams
<1>4. \A q \in Requests : /\ req'[q] \in Request
                          /\ req'[q].op = req[q].op /\ req'[q].params = req[q].params
                          /\ req'[q].at = req[q].at
                          /\ req'[q].alone => req'[q] = Idle
  BY <1>0, <1>3, DisturbedFacts
<1>5. TypeOK'
  <2>1. \A q \in Requests : Disturbed(req[q]) \in Request
    BY <1>0, DisturbedFacts
  <2>2. req' \in [Requests -> Request]
    BY <1>3, <2>1
  <2>3. \A q \in Requests : req'[q].op \in {"publish", "rollback"} => req'[q].params \in Params
    BY <1>0, <1>4 DEF TypeOK
  <2>4. rate' \in Matrix /\ versions' \in Seq(Version) /\ clean' \in BOOLEAN
    BY <1>0, <1>3 DEF TypeOK
  <2>. QED BY <1>2, <2>2, <2>3, <2>4 DEF TypeOK
<1>6. PublishedIsSnapshot'
  BY <1>2 DEF PublishedIsSnapshot
<1>7. ASSUME NEW q \in Requests PROVE Lonely(q)' /\ Holds(req[q])'
  <2>1. req'[q].alone => req'[q] = Idle
    BY <1>4
  <2>2. Lonely(q)'
    BY <2>1 DEF Lonely
  <2>3. StageHolds(req[q])'
    BY <1>4 DEF IInv, Holds, StageHolds
  <2>4. PublishHolds(req[q])' /\ RollbackHolds(req[q])' /\ DraftHolds(req[q])'
    BY <1>2, <2>1 DEF PublishHolds, RollbackHolds, DraftHolds, Idle
  <2>. QED BY <2>2, <2>3, <2>4 DEF Holds
<1>8. Established'
  BY <1>2 DEF Established, Exists
<1>. QED BY <1>5, <1>6, <1>7, <1>8 DEF IInv

\* A later step gives its request the new value z.
LEMMA OpenCreatesKeeps == ASSUME IInv, NEW r \in Requests, OpenCreates(r) PROVE IInv'
<1>0. TypeOK /\ req[r] \in Request /\ req[r].op = "open" /\ req[r] # Idle
  BY DEF IInv, TypeOK, OpenCreates, Step, Idle
<1>. DEFINE m == [c \in Cells |-> 0]
<1>1. PICK z : z = [req[r] EXCEPT !.at = "cells", !.todo = Cells, !.want = m]
  OBVIOUS
<1>2. m \in Matrix
  BY TaxAssumption DEF Matrix
<1>3. z \in Request /\ z.op = "open" /\ z.at = "cells" /\ z.alone = req[r].alone
  BY <1>0, <1>1, <1>2 DEF Request
<1>4. req' = [req EXCEPT ![r] = z]
  BY <1>0, <1>1 DEF OpenCreates, TypeOK
<1>5. /\ config' \in Config /\ config'.status = "DRAFT" /\ config'.params \in Params
      /\ UNCHANGED <<rate, versions, calls, clean>>
  BY TaxAssumption DEF OpenCreates, Config
<1>6. PublishedIsSnapshot'
  BY <1>5 DEF PublishedIsSnapshot
<1>7. req'[r] = z
  BY <1>0, <1>4 DEF TypeOK
<1>8. Holds(req[r])'
  BY <1>3, <1>5, <1>7 DEF Holds, PublishHolds, RollbackHolds, DraftHolds, StageHolds
<1>9. \A q \in Requests \ {r} : DraftHolds(req[q])'
  BY <1>4, <1>5, DraftsKept
<1>. QED BY <1>0, <1>3, <1>4, <1>5, <1>6, <1>8, <1>9, StepKeeps DEF TypeOK, Exists

\* getOrCreate may find its cell there; the others write it.  No cell is written under a
\* clean publication but by an edit in flight.
LEMMA WritesCellKeeps == ASSUME IInv, NEW r \in Requests, WritesCell(r) PROVE IInv'
<1>0. TypeOK /\ req[r] \in Request /\ PublishedIsSnapshot /\ Holds(req[r])
  BY DEF IInv, TypeOK
<1>1. PICK c \in req[r].todo :
        /\ req[r].at = "cells"
        /\ rate' = IF req[r].op = "open" /\ rate[c] # None THEN rate
                   ELSE [rate EXCEPT ![c] = req[r].want[c]]
        /\ req' = [req EXCEPT ![r].todo = @ \ {c}]
        /\ UNCHANGED <<config, versions, calls, clean>>
  BY DEF WritesCell
<1>2. PICK z : z = [req[r] EXCEPT !.todo = @ \ {c}]
  OBVIOUS
<1>3. /\ z \in Request /\ z.op = req[r].op /\ z.at = "cells" /\ z.alone = req[r].alone
      /\ z.todo = req[r].todo \ {c} /\ z.want = req[r].want /\ z.params = req[r].params
  BY <1>0, <1>1, <1>2 DEF Request
<1>4. req' = [req EXCEPT ![r] = z] /\ req'[r] = z /\ req[r] # Idle
  BY <1>0, <1>1, <1>2 DEF TypeOK, Idle
<1>5. c \in Cells /\ rate' \in Matrix /\ \A d \in Cells \ {c} : rate'[d] = rate[d]
  BY <1>0, <1>1 DEF TypeOK, Matrix, Request
<1>6. req[r].op # "open" => rate'[c] = req[r].want[c]
  BY <1>0, <1>1, <1>5 DEF TypeOK, Matrix
<1>7. PublishedIsSnapshot'
  <2>1. CASE req[r].op = "cells"
    BY <1>3, <1>4, <2>1 DEF PublishedIsSnapshot, CellsInFlight
  <2>2. CASE req[r].op \in {"open", "rollback"}
    BY <1>0, <1>1, <2>2 DEF PublishedIsSnapshot, Holds, DraftHolds
  <2>. QED BY <1>0, <1>1, <2>1, <2>2 DEF Holds, StageHolds
<1>8. Holds(req[r])'
  <2>1. PublishHolds(req[r])'
    BY <1>0, <1>1, <1>3, <1>4 DEF Holds, StageHolds, PublishHolds
  <2>2. RollbackHolds(req[r])'
    BY <1>0, <1>1, <1>3, <1>4, <1>5, <1>6 DEF Holds, RollbackHolds
  <2>3. DraftHolds(req[r])' /\ StageHolds(req[r])'
    BY <1>0, <1>1, <1>3, <1>4 DEF Holds, DraftHolds, StageHolds
  <2>. QED BY <2>1, <2>2, <2>3 DEF Holds
<1>9. \A q \in Requests \ {r} : DraftHolds(req[q])'
  BY <1>1, <1>4, DraftsKept
<1>10. config'.status # "NONE" => config'.params \in Params
  BY <1>0, <1>1 DEF TypeOK, Exists
<1>11. z.op \in {"publish", "rollback"} => z.params \in Params
  BY <1>0, <1>3 DEF TypeOK
<1>. QED BY <1>0, <1>1, <1>3, <1>4, <1>5, <1>7, <1>8, <1>9, <1>10, <1>11, StepKeeps DEF TypeOK

\* A request that ends, of any kind, leaves nothing to show of itself.
LEMMA IdleHolds == ASSUME NEW r \in Requests, req'[r] = Idle PROVE Holds(req[r])'
  BY DEF Holds, PublishHolds, RollbackHolds, DraftHolds, StageHolds, Idle

\* One that ends without writing configuration or cells.
LEMMA EndKeeps ==
    ASSUME IInv, NEW r \in Requests, req[r] # Idle, Finish(r),
           UNCHANGED <<config, rate, versions, calls>>, clean' \in BOOLEAN,
           clean' => clean /\ req[r].op # "cells"
    PROVE  IInv'
<1>0. TypeOK /\ PublishedIsSnapshot
  BY DEF IInv, TypeOK
<1>1. req' = [req EXCEPT ![r] = Idle] /\ req'[r] = Idle /\ \A q \in Requests \ {r} : req'[q] = req[q]
  BY <1>0 DEF Finish, TypeOK
<1>2. PublishedIsSnapshot'
  <2>1. ASSUME clean', CellsInFlight PROVE CellsInFlight'
    BY <1>1, <2>1 DEF CellsInFlight
  <2>. QED BY <1>0, <2>1 DEF PublishedIsSnapshot
<1>3. Holds(req[r])'
  BY <1>1, IdleHolds
<1>4. \A q \in Requests \ {r} : DraftHolds(req[q])'
  BY <1>1, DraftsKept
<1>5. /\ config' \in Config /\ rate' \in Matrix /\ versions' \in Seq(Version)
      /\ config'.status # "NONE" => config'.params \in Params
  BY <1>0 DEF TypeOK, Exists
<1>6. Idle.op = "idle"
  BY DEF Idle
<1>. QED BY <1>1, <1>2, <1>3, <1>4, <1>5, <1>6, IdleType, StepKeeps

\* The edit marks its draft, so nothing is published any more.
LEMMA CellsMarkDraftKeeps == ASSUME IInv, NEW r \in Requests, CellsMarkDraft(r) PROVE IInv'
<1>0. TypeOK /\ req[r] # Idle
  BY DEF IInv, CellsMarkDraft, Step, Idle
<1>1. req' = [req EXCEPT ![r] = Idle] /\ req'[r] = Idle
  BY <1>0 DEF CellsMarkDraft, Finish, TypeOK
<1>2. /\ config' = [config EXCEPT !.status = "DRAFT"] /\ UNCHANGED <<rate, versions, calls, clean>>
  BY DEF CellsMarkDraft
<1>3. config' \in Config /\ config'.status = "DRAFT" /\ config'.params = config.params
  BY <1>0, <1>2 DEF TypeOK, Config
<1>4. PublishedIsSnapshot' /\ Exists'
  BY <1>3 DEF PublishedIsSnapshot, Exists
<1>5. config'.params \in Params
  <2>1. Exists
    BY DEF CellsMarkDraft, Step, IInv, Established
  <2>. QED BY <1>0, <1>3, <2>1 DEF TypeOK
<1>6. Holds(req[r])'
  BY <1>1, IdleHolds
<1>7. \A q \in Requests \ {r} : DraftHolds(req[q])'
  BY <1>1, <1>2, <1>3, DraftsKept
<1>8. Idle.op = "idle"
  BY DEF Idle
<1>. QED BY <1>0, <1>1, <1>2, <1>3, <1>4, <1>5, <1>6, <1>7, <1>8, IdleType, StepKeeps DEF TypeOK

\* The snapshot is of what was read, and older snapshots stay.
LEMMA PublishSnapshotsKeeps == ASSUME IInv, NEW r \in Requests, PublishSnapshots(r) PROVE IInv'
<1>0. /\ TypeOK /\ req[r] \in Request /\ req[r].op = "publish" /\ req[r] # Idle
      /\ PublishedIsSnapshot /\ PublishHolds(req[r])
  BY DEF IInv, TypeOK, PublishSnapshots, Step, Idle, Holds
<1>1. PICK z : z = [req[r] EXCEPT !.at = "status"]
  OBVIOUS
<1>2. /\ z \in Request /\ z.op = "publish" /\ z.at = "status" /\ z.alone = req[r].alone
      /\ z.params = req[r].params /\ z.want = req[r].want /\ z.number = req[r].number
  BY <1>0, <1>1 DEF Request
<1>3. req' = [req EXCEPT ![r] = z] /\ req'[r] = z
  BY <1>0, <1>1 DEF PublishSnapshots, Move, TypeOK
<1>4. PICK v : v = [version |-> req[r].number, params |-> req[r].params, rate |-> req[r].want]
  OBVIOUS
<1>5. req[r].params \in Params
  BY <1>0 DEF TypeOK
<1>6. v \in Version
  BY <1>0, <1>4, <1>5 DEF Request, Version
<1>7. versions' = Append(versions, v) /\ UNCHANGED <<config, rate, calls, clean>>
  BY <1>4 DEF PublishSnapshots
<1>8. /\ versions' \in Seq(Version) /\ \E i \in DOMAIN versions' : versions'[i] = v
      /\ \A i \in DOMAIN versions : i \in DOMAIN versions' /\ versions'[i] = versions[i]
  <2>1. versions \in Seq(Version)
    BY <1>0 DEF TypeOK
  <2>2. versions' \in Seq(Version) /\ Len(versions') = Len(versions) + 1
        /\ versions'[Len(versions) + 1] = v
    BY <1>6, <1>7, <2>1
  <2>3. \A i \in 1..Len(versions) : i \in 1..Len(versions') /\ versions'[i] = versions[i]
    BY <1>6, <1>7, <2>1
  <2>. QED BY <2>1, <2>2, <2>3
<1>9. PublishedIsSnapshot'
  <2>1. CellsInFlight => CellsInFlight'
    BY <1>0, <1>3 DEF CellsInFlight, TypeOK
  <2>. QED BY <1>0, <1>7, <1>8, <2>1 DEF PublishedIsSnapshot
<1>10. Holds(req[r])'
  BY <1>0, <1>2, <1>3, <1>4, <1>7, <1>8
     DEF Holds, PublishHolds, RollbackHolds, DraftHolds, StageHolds
<1>11. \A q \in Requests \ {r} : DraftHolds(req[q])'
  BY <1>3, <1>7, DraftsKept
<1>12. Exists'
  BY <1>0, <1>7 DEF IInv, Established, Exists
<1>. QED BY <1>0, <1>2, <1>3, <1>5, <1>7, <1>8, <1>9, <1>10, <1>11, <1>12, StepKeeps
         DEF TypeOK, Exists

\* A publication that met no other publishes the snapshot it wrote; any other is not clean.
LEMMA PublishMarksKeeps == ASSUME IInv, NEW r \in Requests, PublishMarks(r) PROVE IInv'
<1>0. /\ TypeOK /\ req[r] \in Request /\ req[r].op = "publish" /\ req[r] # Idle
      /\ req[r].at = "status" /\ PublishHolds(req[r]) /\ Exists /\ Lonely(r)
  BY DEF IInv, TypeOK, PublishMarks, Step, Idle, Holds, Established
<1>1. req' = [req EXCEPT ![r] = Idle] /\ req'[r] = Idle
      /\ \A q \in Requests \ {r} : req'[q] = req[q]
  BY <1>0 DEF PublishMarks, Finish, TypeOK
<1>2. /\ config' = [config EXCEPT !.status = "PUBLISHED", !.version = req[r].number]
      /\ clean' = req[r].alone /\ UNCHANGED <<rate, versions, calls>>
  BY DEF PublishMarks
<1>3. /\ config' \in Config /\ config'.status = "PUBLISHED" /\ config'.params = config.params
      /\ config'.version = req[r].number /\ clean' \in BOOLEAN
  BY <1>0, <1>2 DEF TypeOK, Config, Request
<1>4. PublishedIsSnapshot'
  BY <1>0, <1>2, <1>3 DEF PublishedIsSnapshot, PublishHolds
<1>5. Holds(req[r])'
  BY <1>1, IdleHolds
<1>6. \A q \in Requests \ {r} : DraftHolds(req[q])'
  <2>1. clean' => \A q \in Requests \ {r} : req'[q] = Idle
    BY <1>0, <1>1, <1>2 DEF Lonely
  <2>. QED BY <2>1 DEF DraftHolds, Idle
<1>7. Exists' /\ config'.params \in Params
  BY <1>0, <1>3 DEF TypeOK, Exists
<1>8. Idle.op = "idle"
  BY DEF Idle
<1>. QED BY <1>0, <1>1, <1>2, <1>3, <1>4, <1>5, <1>6, <1>7, <1>8, IdleType, StepKeeps DEF TypeOK

\* The draft a rollback marks has the percentages of its snapshot and all its rates to do.
LEMMA RollbackMarksKeeps == ASSUME IInv, NEW r \in Requests, RollbackMarks(r) PROVE IInv'
<1>0. /\ TypeOK /\ req[r] \in Request /\ req[r].op = "rollback" /\ req[r] # Idle
      /\ req[r].params \in Params
  BY DEF IInv, TypeOK, RollbackMarks, Step, Idle
<1>1. PICK todo : todo = {c \in Cells : req[r].want[c] # None}
  OBVIOUS
<1>2. PICK z : z = [req[r] EXCEPT !.at = "cells", !.todo = todo]
  OBVIOUS
<1>3. /\ z \in Request /\ z.op = "rollback" /\ z.at = "cells" /\ z.alone = req[r].alone
      /\ z.params = req[r].params /\ z.want = req[r].want /\ z.todo = todo
  <2>1. todo \in SUBSET Cells
    BY <1>1
  <2>. QED BY <1>0, <1>2, <2>1 DEF Request
<1>4. req' = [req EXCEPT ![r] = z] /\ req'[r] = z
  BY <1>0, <1>1, <1>2 DEF RollbackMarks, TypeOK
<1>5. /\ config' = [config EXCEPT !.status = "DRAFT", !.params = req[r].params]
      /\ UNCHANGED <<rate, versions, calls, clean>>
  BY DEF RollbackMarks
<1>6. config' \in Config /\ config'.status = "DRAFT" /\ config'.params = req[r].params
  BY <1>0, <1>5 DEF TypeOK, Config
<1>7. PublishedIsSnapshot' /\ Exists'
  BY <1>6 DEF PublishedIsSnapshot, Exists
<1>8. Holds(req[r])'
  <2>1. RollbackHolds(req[r])'
    BY <1>1, <1>3, <1>4, <1>6 DEF RollbackHolds
  <2>. QED BY <1>3, <1>4, <1>6, <2>1 DEF Holds, PublishHolds, DraftHolds, StageHolds
<1>9. \A q \in Requests \ {r} : DraftHolds(req[q])'
  BY <1>4, <1>5, <1>6, DraftsKept
<1>. QED BY <1>0, <1>3, <1>4, <1>5, <1>6, <1>7, <1>8, <1>9, StepKeeps DEF TypeOK

\* The end of getOrCreate or of a rollback, and every failure.
LEMMA EndsKeep == ASSUME IInv, NEW r \in Requests, Ends(r) \/ Fails(r) PROVE IInv'
<1>0. clean \in BOOLEAN
  BY DEF IInv, TypeOK
<1>1. CASE Ends(r)
  BY <1>0, <1>1, EndKeeps DEF Ends, Idle
<1>2. CASE Fails(r)
  BY <1>0, <1>2, EndKeeps DEF Fails
<1>. QED BY <1>1, <1>2

LEMMA NextInv == IInv /\ [Next]_vars => IInv'
<1>. SUFFICES ASSUME IInv, [Next]_vars PROVE IInv'
  OBVIOUS
<1>1. ASSUME NEW r \in Requests,
             \/ OpenReads(r) \/ OpenCreates(r) \/ WritesCell(r) \/ Ends(r)
             \/ CellsRead(r) \/ CellsMarkDraft(r)
             \/ PublishReads(r) \/ PublishSnapshots(r) \/ PublishMarks(r)
             \/ RollbackReads(r) \/ RollbackMarks(r)
             \/ Fails(r)
      PROVE  IInv'
  BY <1>1, ReadsKeep, OpenCreatesKeeps, WritesCellKeeps, CellsMarkDraftKeeps,
     PublishSnapshotsKeeps, PublishMarksKeeps, RollbackMarksKeeps, EndsKeep
<1>2. CASE UpdateParams
  BY <1>2, UpdateParamsKeeps
<1>3. CASE UNCHANGED vars
  BY <1>3 DEF vars, IInv, TypeOK, Established, Exists, PublishedIsSnapshot, CellsInFlight,
     Lonely, Holds, PublishHolds, RollbackHolds, DraftHolds, StageHolds
<1>. QED BY <1>1, <1>2, <1>3 DEF Next

LEMMA Invariance == Spec => []IInv
  BY InitInv, NextInv, PTL DEF Spec

-----------------------------------------------------------------------------

\* Whatever the requests interleave and wherever they fail, configuration, cells,
\* snapshots and what requests hold keep their shape, and what is billed, published or
\* restored has percentages.
THEOREM TypeCorrect == Spec => []TypeOK
  BY Invariance, PTL DEF IInv

\* With any number of requests and any matrix: rows billed from after a publication that
\* met no other request are those of a snapshot of that number, until an edit of cells
\* fails half way or while one runs (publish and upsertCells of tax-configs.service.ts).
THEOREM PublicationHonest == Spec => []PublishedIsSnapshot
  BY Invariance, PTL DEF IInv

\* A rollback that met no other request restores the percentages and every rate of its
\* snapshot (rollback of tax-configs.service.ts).
THEOREM RollbackExact == Spec => []RollbackRestores
<1>1. IInv => RollbackRestores
  BY DEF IInv, Holds, RollbackHolds, RollbackRestores, Step
<1>. QED BY <1>1, Invariance, PTL
=============================================================================
