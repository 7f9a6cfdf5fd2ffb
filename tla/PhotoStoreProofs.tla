-------------------------- MODULE PhotoStoreProofs --------------------------
(***************************************************************************)
(* TLAPS proofs about PhotoStore, for any photos, keys, requests, workers  *)
(* and exports: types and the queue's jobs, no object lost but by a        *)
(* deletion, no retake overwritten by a migration.                         *)
(***************************************************************************)
EXTENDS PhotoStore, TLAPS

-----------------------------------------------------------------------------
(* The queue: a job that is taken has attempts left and one worker.         *)

JobOK(p) == job[p].state \in {"waiting", "active"} => job[p].left >= 1

WorkerOK(w) ==
    mig[w] # Free =>
        /\ mig[w].at # "-" /\ mig[w].id \in Photos
        /\ photo[mig[w].id].life # "unborn"
        /\ Queued(w) => job[mig[w].id].state = "active"

\* Two workers on one photo are known to be, and are not both of the queue.
Meeting(w, v) ==
    w # v /\ mig[w] # Free /\ mig[v] # Free /\ mig[w].id = mig[v].id =>
        mig[w].id \in twice /\ ~(Queued(w) /\ Queued(v))

\* What the code of a request relies on when it uses what it has read or stored.
ReqOK(r) ==
    /\ req[r].op \in {"update", "replace", "delete"} =>
          req[r].id \in Photos /\ photo[req[r].id].life # "unborn"
    /\ req[r].op = "upload" => req[r].type # None
    /\ req[r].op \in {"upload", "replace"} /\ req[r].at \in {"check", "write"} =>
          req[r].new # None

QueueInv ==
    /\ TypeOK
    /\ \A r \in Requests : ReqOK(r)
    /\ \A p \in Photos : JobOK(p)
    /\ \A w \in Workers : WorkerOK(w)
    /\ \A w, v \in Workers : Meeting(w, v)

-----------------------------------------------------------------------------
(* The keys: who may still write one and who may still remove one.          *)

\* An uploaded key that no row names yet and that its request may still remove.
Fresh(r) == req[r].new # None /\ req[r].at \in {"check", "write", "rollback"}

\* w may still write the migrated key of its photo.
Copying(w) == mig[w].at \in {"mark", "copy", "record"}

\* A row names an uploaded key of its own or its migrated key, which no worker can bring
\* back later unless two of them met.
RowOK(p) ==
    /\ photo[p].key # None => photo[p].life = "live" /\ photo[p].key \in used \cup {MigratedKey(p)}
    /\ \A q \in Photos \ {p} : photo[p].key # None => photo[q].key # photo[p].key
    /\ photo[p].key = MigratedKey(p) /\ p \notin twice =>
          \A w \in Workers : mig[w].id = p => ~Copying(w)

FreshOK(r) ==
    Fresh(r) =>
        /\ req[r].new \in used
        /\ \A p \in Photos : photo[p].key # req[r].new
        /\ \A q \in Requests : req[q].seen # req[r].new
        /\ \A q \in Requests \ {r} : Fresh(q) => req[q].new # req[r].new
        /\ req[r].at # "rollback" => req[r].new \in objects

\* The key a replacement or a deletion has read is of its photo alone; a replacement
\* that is about to remove it has given its photo another.
SeenOK(r) ==
    req[r].seen # None =>
        /\ req[r].id \in Photos /\ req[r].seen \in used \cup {MigratedKey(req[r].id)}
        /\ photo[req[r].id].life # "unborn"
        /\ photo[req[r].id].life = "live" => photo[req[r].id].key # None
        /\ \A p \in Photos \ {req[r].id} : photo[p].key # req[r].seen
        /\ req[r].id \notin twice =>
            /\ req[r].at = "cleanup" => photo[req[r].id].key # req[r].seen
            /\ req[r].seen = MigratedKey(req[r].id) =>
                  \A w \in Workers : mig[w].id = req[r].id => ~Copying(w)

CopyOK(w) ==
    mig[w].at = "record" /\ mig[w].id \notin doomed \cup twice =>
        MigratedKey(mig[w].id) \in objects

KeyInv ==
    /\ \A p \in Photos : RowOK(p)
    /\ \A r \in Requests : FreshOK(r) /\ SeenOK(r)
    /\ \A w \in Workers : CopyOK(w)
    /\ LossOnlyByDeletion

-----------------------------------------------------------------------------
(* Smooth running: a worker is alone with its photo, which has no key yet.  *)

SmoothOK(w) ==
    smooth /\ mig[w] # Free =>
        /\ \A r \in Requests : req[r].id # mig[w].id
        /\ \A v \in Workers \ {w} : mig[v].id # mig[w].id
        /\ Copying(w) /\ photo[mig[w].id].life = "live" => photo[mig[w].id].key = None

SmoothInv == \A w \in Workers : SmoothOK(w)

-----------------------------------------------------------------------------
(* Types.                                                                   *)

\* None is no key, and the keys are of two kinds.
LEMMA KeyFacts ==
    /\ None \notin Keys /\ Uploads \subseteq Keys
    /\ \A p \in Photos : MigratedKey(p) = p /\ p \in Keys /\ p \notin Uploads /\ p # None
  BY SentinelAssumption, KeyAssumption DEF Keys, MigratedKey

LEMMA ConstantTypes ==
    Unborn \in Row /\ Gone \in Row /\ Idle \in Request /\ Free \in Migration /\ NoJob \in Job
  BY MigrationAssumption
     DEF Unborn, Gone, Row, Idle, Request, Free, Migration, NoJob, Job, PhotoTypes, Statuses

\* What a step of request r does, whatever it is.
Lives == \A p \in Photos : photo[p].life # "unborn" => photo'[p].life # "unborn"
Others(r) == \A q \in Requests \ {r} : req'[q] = req[q]
ApiTypes(r) ==
    /\ photo' \in [Photos -> Row] /\ objects' \subseteq Keys /\ used' \subseteq Uploads
    /\ req' \in [Requests -> Request] /\ smooth' \in BOOLEAN /\ doomed' \subseteq Photos
    /\ Lives /\ Others(r) /\ ReqOK(r)'

LEMMA InsertTypes ==
    ASSUME TypeOK, NEW p \in Photos, NEW type \in PhotoTypes, NEW key \in Keys \cup {None},
           Insert(p, type, key)
    PROVE  photo' \in [Photos -> Row] /\ Lives
<1>1. photo' = [photo EXCEPT ![p] = [life |-> "live", type |-> type, key |-> key,
                                     status |-> "NONE"]]
  BY DEF Insert
<1>2. [life |-> "live", type |-> type, key |-> key, status |-> "NONE"] \in Row
  BY DEF Row, Statuses
<1>. QED BY <1>1, <1>2 DEF TypeOK, Lives

\* A row keeps being one when its fields change.
LEMMA RowTypes ==
    ASSUME TypeOK, NEW p \in Photos, NEW z \in Row, z.life # "unborn",
           photo' = [photo EXCEPT ![p] = z]
    PROVE  photo' \in [Photos -> Row] /\ Lives
  BY DEF TypeOK, Lives

LEMMA PutTypes ==
    ASSUME TypeOK, NEW r \in Requests, NEW z \in Request, req' = [req EXCEPT ![r] = z]
    PROVE  req' \in [Requests -> Request] /\ Others(r) /\ req'[r] = z
  BY DEF TypeOK, Others

LEMMA FinishTypes ==
    ASSUME TypeOK, NEW r \in Requests, Finish(r)
    PROVE  req' \in [Requests -> Request] /\ Others(r) /\ req'[r] = Idle /\ ReqOK(r)'
<1>1. req' \in [Requests -> Request] /\ Others(r) /\ req'[r] = Idle
  BY PutTypes, ConstantTypes DEF Finish
<1>2. Idle.op = "idle"
  BY DEF Idle
<1>3. req'[r].op = "idle"
  BY <1>1, <1>2
<1>4. ReqOK(r)'
  BY <1>3 DEF ReqOK
<1>. QED BY <1>1, <1>4

LEMMA MoveTypes ==
    ASSUME TypeOK, NEW r \in Requests,
           NEW at \in {"check", "write", "rollback", "cleanup", "row"}, Move(r, at)
    PROVE  /\ req' \in [Requests -> Request] /\ Others(r)
           /\ req'[r].op = req[r].op /\ req'[r].at = at /\ req'[r].id = req[r].id
           /\ req'[r].seen = req[r].seen /\ req'[r].new = req[r].new
           /\ req'[r].type = req[r].type
<1>1. req \in [Requests -> Request] /\ req[r] \in Request
  BY DEF TypeOK
<1>2. PICK z : z = [req[r] EXCEPT !.at = at]
  OBVIOUS
<1>3. /\ z \in Request /\ z.op = req[r].op /\ z.at = at /\ z.id = req[r].id
      /\ z.seen = req[r].seen /\ z.new = req[r].new /\ z.type = req[r].type
  BY <1>1, <1>2 DEF Request
<1>4. req' = [req EXCEPT ![r] = z]
  BY <1>2 DEF Move
<1>. QED BY <1>3, <1>4, PutTypes

\* A storage deletion, whatever it reports.
LEMMA DeletedTypes ==
    ASSUME TypeOK, NEW k, Deleted(k) \/ NotDeleted(k)
    PROVE  /\ objects' \subseteq objects /\ objects \ {k} \subseteq objects'
           /\ smooth' \in BOOLEAN /\ (smooth' => smooth)
<1>1. smooth \in BOOLEAN
  BY DEF TypeOK
<1>2. objects' \subseteq objects /\ objects \ {k} \subseteq objects'
  BY DEF Deleted, NotDeleted
<1>3. smooth' \in BOOLEAN
  BY <1>1 DEF Deleted, NotDeleted, Calm, CutShort
<1>4. smooth' => smooth
  BY DEF Deleted, NotDeleted, Calm, CutShort
<1>. QED BY <1>2, <1>3, <1>4

\* Requests that begin.
LEMMA StartTypes ==
    ASSUME QueueInv, NEW r \in Requests,
           \/ UploadStores(r) \/ UploadNotStored(r) \/ UpdateReads(r) \/ ReplaceReads(r)
           \/ DeleteReads(r)
    PROVE  ApiTypes(r)
<1>0. /\ photo \in [Photos -> Row] /\ smooth \in BOOLEAN
      /\ objects \subseteq Keys /\ used \subseteq Uploads /\ doomed \subseteq Photos /\ TypeOK
  BY DEF TypeOK, QueueInv
<1>1. \A x \in Request : Start(r, x) => req' \in [Requests -> Request] /\ Others(r) /\ req'[r] = x
  BY <1>0, PutTypes DEF Start
<1>2. \A p \in Photos : (smooth /\ ~Meets(p, r)) \in BOOLEAN
  BY Zenon
<1>3. CASE UploadStores(r)
  <2>1. PICK k \in Uploads, type \in PhotoTypes :
          /\ UploadImage(k)
          /\ Start(r, [Idle EXCEPT !.op = "upload", !.at = "write", !.new = k, !.type = type])
          /\ UNCHANGED <<photo, smooth, doomed>>
    BY <1>3 DEF UploadStores
  <2>2. PICK z : z = [Idle EXCEPT !.op = "upload", !.at = "write", !.new = k, !.type = type]
    OBVIOUS
  <2>3. z \in Request /\ z.op = "upload" /\ z.new = k /\ z.type = type
    BY <2>2, ConstantTypes DEF Request, Idle
  <2>4. req' \in [Requests -> Request] /\ Others(r) /\ req'[r] = z
    BY <1>1, <2>1, <2>2, <2>3
  <2>5. ReqOK(r)'
    BY <2>3, <2>4, SentinelAssumption, KeyFacts DEF ReqOK, PhotoTypes
  <2>. QED BY <1>0, <2>1, <2>4, <2>5, KeyFacts DEF ApiTypes, UploadImage, Lives
<1>7. CASE UploadNotStored(r)
  <2>1. PICK k \in Uploads : UploadImage(k) /\ smooth' = FALSE /\ UNCHANGED <<photo, req, doomed>>
    BY <1>7 DEF UploadNotStored, CutShort
  <2>2. req' \in [Requests -> Request] /\ Others(r) /\ ReqOK(r)'
    BY <2>1 DEF QueueInv, TypeOK, Others, ReqOK
  <2>. QED BY <1>0, <2>1, <2>2, KeyFacts DEF ApiTypes, UploadImage, Lives
<1>4. CASE UpdateReads(r)
  <2>1. PICK p \in Photos, type \in PhotoTypes :
          /\ Live(p)
          /\ Start(r, [Idle EXCEPT !.op = "update", !.at = "check", !.id = p, !.type = type])
          /\ smooth' = (smooth /\ ~Meets(p, r))
          /\ UNCHANGED <<photo, objects, used, doomed>>
    BY <1>4 DEF UpdateReads
  <2>2. PICK z : z = [Idle EXCEPT !.op = "update", !.at = "check", !.id = p, !.type = type]
    OBVIOUS
  <2>3. z \in Request /\ z.op = "update" /\ z.id = p
    BY <2>2, ConstantTypes DEF Request, Idle
  <2>4. req' \in [Requests -> Request] /\ Others(r) /\ req'[r] = z
    BY <1>1, <2>1, <2>2, <2>3
  <2>5. ReqOK(r)'
    BY <2>1, <2>3, <2>4 DEF ReqOK, Live
  <2>. QED BY <1>0, <1>2, <2>1, <2>4, <2>5 DEF ApiTypes, Lives
<1>5. CASE ReplaceReads(r)
  <2>1. PICK p, type, k :
          /\ p \in Photos /\ type \in PhotoTypes \cup {None}
          /\ Live(p) /\ k = photo[p].key
          /\ Start(r, [Idle EXCEPT !.op = "replace", !.at = "store",
                                   !.id = p, !.seen = k, !.type = type])
          /\ smooth' = (smooth /\ ~Meets(p, r))
          /\ UNCHANGED <<photo, objects, used, doomed>>
    BY <1>5 DEF ReplaceReads
  <2>2. PICK z : z = [Idle EXCEPT !.op = "replace", !.at = "store", !.id = p, !.seen = k,
                                  !.type = type]
    OBVIOUS
  <2>3. k \in Keys \cup {None}
    BY <1>0, <2>1 DEF Row
  <2>4. z \in Request /\ z.op = "replace" /\ z.id = p /\ z.at = "store"
    BY <2>1, <2>2, <2>3, ConstantTypes DEF Request, Idle
  <2>5. req' \in [Requests -> Request] /\ Others(r) /\ req'[r] = z
    BY <1>1, <2>1, <2>2, <2>4
  <2>6. ReqOK(r)'
    BY <2>1, <2>4, <2>5 DEF ReqOK, Live
  <2>. QED BY <1>0, <1>2, <2>1, <2>5, <2>6 DEF ApiTypes, Lives
<1>6. CASE DeleteReads(r)
  <2>1. PICK p, k :
          /\ p \in Photos
          /\ Live(p) /\ k = photo[p].key
          /\ Start(r, [Idle EXCEPT !.op = "delete", !.at = "remove", !.id = p, !.seen = k])
          /\ smooth' = (smooth /\ ~Meets(p, r))
          /\ UNCHANGED <<photo, objects, used, doomed>>
    BY <1>6 DEF DeleteReads
  <2>2. PICK z : z = [Idle EXCEPT !.op = "delete", !.at = "remove", !.id = p, !.seen = k]
    OBVIOUS
  <2>3. k \in Keys \cup {None}
    BY <1>0, <2>1 DEF Row
  <2>4. z \in Request /\ z.op = "delete" /\ z.id = p
    BY <2>1, <2>2, <2>3, ConstantTypes DEF Request, Idle
  <2>5. req' \in [Requests -> Request] /\ Others(r) /\ req'[r] = z
    BY <1>1, <2>1, <2>2, <2>4
  <2>6. ReqOK(r)'
    BY <2>1, <2>4, <2>5 DEF ReqOK, Live
  <2>. QED BY <1>0, <1>2, <2>1, <2>5, <2>6 DEF ApiTypes, Lives
<1>. QED BY <1>3, <1>4, <1>5, <1>6, <1>7

\* Requests that store, remove, refuse or stop.
LEMMA StoreTypes ==
    ASSUME QueueInv, NEW r \in Requests,
           \/ ReplaceStores(r) \/ ReplaceNotStored(r) \/ UpdateChecks(r) \/ WriteFails(r)
           \/ ReplaceCleansUp(r) \/ RollBack(r) \/ DeleteRemovesObject(r) \/ RequestDies(r)
    PROVE  ApiTypes(r)
<1>0. /\ photo \in [Photos -> Row] /\ req \in [Requests -> Request] /\ smooth \in BOOLEAN
      /\ objects \subseteq Keys /\ used \subseteq Uploads /\ doomed \subseteq Photos
      /\ TypeOK /\ ReqOK(r)
  BY DEF TypeOK, QueueInv
<1>1. CASE ReplaceStores(r)
  <2>1. PICK k \in Uploads : /\ UploadImage(k) /\ UNCHANGED <<photo, smooth, doomed, calls>>
                            /\ req' = [req EXCEPT ![r].at = "check", ![r].new = k]
                            /\ At(r, "replace", "store")
    BY <1>1 DEF ReplaceStores
  <2>2. PICK z : z = [req[r] EXCEPT !.at = "check", !.new = k]
    OBVIOUS
  <2>3. z \in Request /\ z.op = "replace" /\ z.id = req[r].id /\ z.new = k
    BY <1>0, <2>1, <2>2 DEF Request, At
  <2>4. req' = [req EXCEPT ![r] = z]
    BY <2>1, <2>2
  <2>5. req' \in [Requests -> Request] /\ Others(r) /\ req'[r] = z
    BY <1>0, <2>3, <2>4, PutTypes
  <2>6. ReqOK(r)'
    BY <1>0, <2>1, <2>3, <2>5, KeyFacts DEF ReqOK, At
  <2>. QED BY <1>0, <2>1, <2>5, <2>6, KeyFacts DEF ApiTypes, UploadImage, Lives
<1>2. CASE ReplaceNotStored(r)
  <2>1. /\ UNCHANGED <<photo, doomed>> /\ Finish(r)
        /\ \/ UNCHANGED <<objects, used, smooth>>
           \/ (\E k \in Uploads : UploadImage(k)) /\ smooth' = FALSE
    BY <1>2 DEF ReplaceNotStored, Calm, CutShort
  <2>2. objects' \subseteq Keys /\ used' \subseteq Uploads /\ smooth' \in BOOLEAN
    BY <1>0, <2>1, KeyFacts DEF UploadImage
  <2>. QED BY <1>0, <2>1, <2>2, FinishTypes DEF ApiTypes, Lives
<1>3. CASE UpdateChecks(r)
  <2>1. Move(r, "write") /\ UNCHANGED <<photo, objects, used, smooth, doomed, calls>>
        /\ req[r].at = "check" /\ req[r].op # "upload"
    BY <1>3 DEF UpdateChecks
  <2>2. req' \in [Requests -> Request] /\ Others(r) /\ ReqOK(r)'
    BY <1>0, <2>1, MoveTypes DEF ReqOK
  <2>. QED BY <1>0, <2>1, <2>2 DEF ApiTypes, Lives
<1>4. CASE WriteFails(r)
  <2>1. /\ Finish(r) \/ Move(r, "rollback")
        /\ UNCHANGED <<photo, objects, used, smooth, doomed, calls>>
    BY <1>4 DEF WriteFails
  <2>2. req' \in [Requests -> Request] /\ Others(r) /\ ReqOK(r)'
    BY <1>0, <2>1, MoveTypes, FinishTypes DEF ReqOK
  <2>. QED BY <1>0, <2>1, <2>2 DEF ApiTypes, Lives
<1>5. CASE ReplaceCleansUp(r)
  BY <1>0, <1>5, FinishTypes, DeletedTypes DEF ApiTypes, ReplaceCleansUp, Lives
<1>6. CASE RollBack(r)
  BY <1>0, <1>6, FinishTypes, DeletedTypes DEF ApiTypes, RollBack, Lives
<1>7. CASE DeleteRemovesObject(r)
  <2>1. /\ Finish(r) \/ Move(r, "row")
        /\ Deleted(req[r].seen) \/ NotDeleted(req[r].seen)
        /\ doomed' = doomed \cup {req[r].id} /\ UNCHANGED <<photo, used, calls>>
        /\ req[r].op = "delete"
    BY <1>7 DEF DeleteRemovesObject, At
  <2>2. req' \in [Requests -> Request] /\ Others(r) /\ ReqOK(r)'
    BY <1>0, <2>1, MoveTypes, FinishTypes DEF ReqOK
  <2>3. doomed' \subseteq Photos
    BY <1>0, <2>1 DEF ReqOK
  <2>. QED BY <1>0, <2>1, <2>2, <2>3, DeletedTypes DEF ApiTypes, Lives
<1>8. CASE RequestDies(r)
  BY <1>0, <1>8, FinishTypes DEF ApiTypes, RequestDies, CutShort, Lives
<1>. QED BY <1>1, <1>2, <1>3, <1>4, <1>5, <1>6, <1>7, <1>8

\* Requests that write a row.
LEMMA WriteTypes ==
    ASSUME QueueInv, NEW r \in Requests,
           UploadInserts(r) \/ UpdateWrites(r) \/ ReplaceWrites(r) \/ DeleteRow(r)
    PROVE  ApiTypes(r)
<1>0. /\ photo \in [Photos -> Row] /\ req \in [Requests -> Request] /\ smooth \in BOOLEAN
      /\ objects \subseteq Keys /\ used \subseteq Uploads /\ doomed \subseteq Photos
      /\ TypeOK /\ ReqOK(r) /\ req[r] \in Request
  BY DEF TypeOK, QueueInv
<1>1. CASE UploadInserts(r)
  <2>1. PICK p, type, key :
          /\ p \in Photos /\ Insert(p, type, key)
          /\ type = req[r].type /\ key = req[r].new
    BY <1>1 DEF UploadInserts
  <2>2. Finish(r) /\ At(r, "upload", "write")
        /\ UNCHANGED <<objects, used, smooth, doomed, calls>>
    BY <1>1 DEF UploadInserts
  <2>3. type \in PhotoTypes /\ key \in Keys \cup {None}
    BY <1>0, <2>1, <2>2, KeyFacts DEF Request, ReqOK, At
  <2>4. photo' \in [Photos -> Row] /\ Lives
    BY <1>0, <2>1, <2>3, InsertTypes
  <2>. QED BY <1>0, <2>2, <2>4, FinishTypes DEF ApiTypes
<1>2. ASSUME req[r].op \in {"update", "replace"}
      PROVE  req[r].id \in Photos /\ photo[req[r].id] \in Row /\ TypeAfter(r) \in PhotoTypes
  BY <1>0, <1>2 DEF ReqOK, Row, Request, TypeAfter
<1>3. CASE UpdateWrites(r)
  <2>1. PICK p, type, z : p = req[r].id /\ type = TypeAfter(r) /\ z = [photo[p] EXCEPT !.type = type]
    OBVIOUS
  <2>2. p \in Photos /\ z \in Row /\ z.life = "live"
    BY <1>2, <1>3, <2>1 DEF UpdateWrites, At, Row, Live
  <2>3. photo' = [photo EXCEPT ![p] = z] /\ Finish(r)
        /\ UNCHANGED <<objects, used, smooth, doomed, calls>>
    BY <1>3, <2>1 DEF UpdateWrites
  <2>. QED BY <1>0, <2>2, <2>3, RowTypes, FinishTypes DEF ApiTypes
<1>4. CASE ReplaceWrites(r)
  <2>1. PICK p, type, key, z :
          /\ p = req[r].id /\ type = TypeAfter(r) /\ key = req[r].new
          /\ z = [photo[p] EXCEPT !.type = type, !.key = key]
    OBVIOUS
  <2>2. p \in Photos /\ z \in Row /\ z.life = "live"
    BY <1>0, <1>2, <1>4, <2>1, KeyFacts DEF ReplaceWrites, At, Row, Request, Live
  <2>3. photo' = [photo EXCEPT ![p] = z] /\ (Finish(r) \/ Move(r, "cleanup"))
        /\ UNCHANGED <<objects, used, smooth, doomed, calls>>
    BY <1>4, <2>1 DEF ReplaceWrites
  <2>4. photo' \in [Photos -> Row] /\ Lives
    BY <1>0, <2>2, <2>3, RowTypes
  <2>5. req' \in [Requests -> Request] /\ Others(r) /\ ReqOK(r)'
    BY <1>0, <2>3, <2>4, MoveTypes, FinishTypes DEF ReqOK, Lives
  <2>. QED BY <1>0, <2>3, <2>4, <2>5 DEF ApiTypes
<1>5. CASE DeleteRow(r)
  <2>1. PICK p : p = req[r].id
    OBVIOUS
  <2>2. p \in Photos
    BY <1>0, <1>5, <2>1 DEF DeleteRow, At, ReqOK
  <2>3. photo' = photo \/ photo' = [photo EXCEPT ![p] = Gone]
    BY <1>5, <2>1 DEF DeleteRow
  <2>4. Gone.life # "unborn"
    BY DEF Gone, Unborn
  <2>5. photo' \in [Photos -> Row] /\ Lives
    BY <1>0, <2>2, <2>3, <2>4, RowTypes, ConstantTypes DEF Lives
  <2>6. Finish(r) /\ UNCHANGED <<objects, used, smooth, doomed, calls>>
    BY <1>5 DEF DeleteRow
  <2>. QED BY <1>0, <2>5, <2>6, FinishTypes DEF ApiTypes
<1>. QED BY <1>1, <1>3, <1>4, <1>5

LEMMA RequestTypes ==
    ASSUME QueueInv, NEW r \in Requests, RequestStep(r)
    PROVE  ApiTypes(r)
  BY StartTypes, StoreTypes, WriteTypes DEF RequestStep

\* The API and the workers write different parts of the queue's invariant.
LEMMA ApiQueue == QueueInv /\ ApiStep => QueueInv'
<1> SUFFICES ASSUME QueueInv, ApiStep
             PROVE  QueueInv'
  OBVIOUS
<1>0. UNCHANGED <<mig, job, enqueues, twice>> /\ TypeOK
  BY DEF ApiStep, QueueInv
<1>1. /\ photo' \in [Photos -> Row] /\ objects' \subseteq Keys /\ used' \subseteq Uploads
      /\ req' \in [Requests -> Request] /\ smooth' \in BOOLEAN /\ doomed' \subseteq Photos
      /\ Lives /\ \A q \in Requests : ReqOK(q)'
  <2>1. ASSUME NEW r \in Requests, RequestStep(r)
        PROVE  /\ ApiTypes(r)
               /\ \A q \in Requests \ {r} : ReqOK(q)'
    BY <2>1, RequestTypes DEF ApiTypes, Others, Lives, ReqOK, QueueInv
  <2>2. CASE CreateLegacy
    <3>1. PICK p \in Photos, type \in PhotoTypes : Insert(p, type, None)
      BY <2>2 DEF CreateLegacy
    <3>2. photo' \in [Photos -> Row] /\ Lives
      BY <1>0, <3>1, InsertTypes
    <3>3. UNCHANGED <<objects, used, req, smooth, doomed, calls>>
      BY <2>2 DEF CreateLegacy
    <3>4. \A q \in Requests : ReqOK(q)'
      BY <3>2, <3>3 DEF ReqOK, Lives, QueueInv
    <3>. QED BY <1>0, <3>2, <3>3, <3>4 DEF TypeOK
  <2>3. CASE \E r \in Requests : RequestStep(r)
    BY <2>1, <2>3 DEF ApiTypes
  <2>. QED BY <2>2, <2>3 DEF ApiStep
<1>2. TypeOK'
  BY <1>0, <1>1 DEF TypeOK
<1>3. \A p \in Photos : JobOK(p)'
  BY <1>0 DEF QueueInv, JobOK
<1>4. \A w \in Workers : WorkerOK(w)'
  BY <1>0, <1>1 DEF QueueInv, WorkerOK, Lives
<1>5. \A w, v \in Workers : Meeting(w, v)'
  BY <1>0 DEF QueueInv, Meeting
<1>. QED BY <1>1, <1>2, <1>3, <1>4, <1>5 DEF QueueInv

\* What a step of worker w does, whatever it is.
MigKept(w) == mig' \in [Workers -> Migration] /\ \A v \in Workers \ {w} : mig'[v] = mig[v]
JobKept(w) ==
    /\ job' \in [Photos -> Job] /\ \A p \in Photos : JobOK(p)'
    /\ \A v \in Workers \ {w} :
          Queued(v) /\ mig[v] # Free => job'[mig[v].id].state = "active"
WorkerTypes(w) ==
    /\ photo' \in [Photos -> Row] /\ Lives
    /\ objects' \subseteq Keys /\ smooth' \in BOOLEAN /\ UNCHANGED <<used, req, doomed, enqueues>>
    /\ twice \subseteq twice' /\ twice' \subseteq Photos
    /\ MigKept(w) /\ JobKept(w) /\ WorkerOK(w)'
    /\ \A v \in Workers : Meeting(w, v)'

LEMMA WorkerQueue == ASSUME QueueInv, NEW w \in Workers, WorkerTypes(w)
                     PROVE  QueueInv'
<1>1. TypeOK'
  BY DEF QueueInv, WorkerTypes, TypeOK, MigKept, JobKept
<1>2. \A r \in Requests : ReqOK(r)'
  BY DEF QueueInv, WorkerTypes, ReqOK, Lives
<1>3. \A p \in Photos : JobOK(p)'
  BY DEF WorkerTypes, JobKept
<1>4. ASSUME NEW v \in Workers \ {w}
      PROVE  WorkerOK(v)'
  BY <1>4 DEF QueueInv, WorkerTypes, MigKept, JobKept, WorkerOK, Lives
<1>5. ASSUME NEW u \in Workers, NEW v \in Workers
      PROVE  Meeting(u, v)'
  <2>1. CASE u = w \/ v = w
    BY <2>1, <1>5 DEF WorkerTypes, Meeting
  <2>2. CASE u # w /\ v # w
    BY <2>2, <1>5 DEF QueueInv, WorkerTypes, MigKept, Meeting
  <2>. QED BY <2>1, <2>2
<1>. QED BY <1>1, <1>2, <1>3, <1>4, <1>5 DEF QueueInv, WorkerTypes

\* A job changes: no other worker of the queue has it.
LEMMA JobTypes ==
    ASSUME QueueInv, NEW w \in Workers, NEW p \in Photos, NEW z \in Job,
           z.state \in {"waiting", "active"} => z.left >= 1,
           \A v \in Workers \ {w} : Queued(v) /\ mig[v] # Free => mig[v].id # p,
           job' = [job EXCEPT ![p] = z]
    PROVE  JobKept(w)
<1>1. job \in [Photos -> Job]
  BY DEF QueueInv, TypeOK
<1>2. job' \in [Photos -> Job] /\ job'[p] = z /\ \A q \in Photos \ {p} : job'[q] = job[q]
  BY <1>1
<1>3. \A q \in Photos : JobOK(q)'
  BY <1>2 DEF QueueInv, JobOK
<1>4. \A v \in Workers \ {w} : Queued(v) /\ mig[v] # Free => job'[mig[v].id].state = "active"
  BY <1>2 DEF QueueInv, WorkerOK
<1>. QED BY <1>2, <1>3, <1>4 DEF JobKept

LEMMA JobUntouched ==
    ASSUME QueueInv, NEW w \in Workers, UNCHANGED job
    PROVE  JobKept(w)
  BY DEF QueueInv, TypeOK, JobOK, WorkerOK, JobKept

\* A worker's place in the code changes.
LEMMA MigTypes ==
    ASSUME QueueInv, NEW w \in Workers, NEW m \in Migration, mig' = [mig EXCEPT ![w] = m]
    PROVE  MigKept(w) /\ mig'[w] = m
  BY DEF QueueInv, TypeOK, MigKept

LEMMA StepTypes ==
    ASSUME QueueInv, NEW w \in Workers,
           NEW at \in {"copy", "record", "count", "broken", "countFail"}, Step(w, at)
    PROVE  /\ MigKept(w) /\ mig'[w].at = at /\ mig'[w].id = mig[w].id
           /\ mig'[w].prev = mig[w].prev
<1>1. PICK m : m = [mig[w] EXCEPT !.at = at]
  OBVIOUS
<1>2. mig[w] \in Migration
  BY DEF QueueInv, TypeOK
<1>3. m \in Migration /\ m.at = at /\ m.id = mig[w].id /\ m.prev = mig[w].prev
  BY <1>1, <1>2 DEF Migration
<1>4. mig' = [mig EXCEPT ![w] = m]
  BY <1>1 DEF Step
<1>. QED BY <1>3, <1>4, MigTypes

\* A worker that goes on, and one that stops, keep what they need of the queue.
LEMMA StepKeeps ==
    ASSUME QueueInv, NEW w \in Workers, mig[w] # Free, twice' = twice, Lives, UNCHANGED job,
           NEW at \in {"copy", "record", "count", "broken", "countFail"}, Step(w, at)
    PROVE  /\ MigKept(w) /\ JobKept(w) /\ WorkerOK(w)' /\ \A v \in Workers : Meeting(w, v)'
<1>1. MigKept(w) /\ mig'[w].at = at /\ mig'[w].id = mig[w].id
  BY StepTypes
<1>2. JobKept(w)
  BY JobUntouched
<1>3. WorkerOK(w)'
  BY <1>1 DEF QueueInv, WorkerOK, Lives
<1>4. \A v \in Workers : Meeting(w, v)'
  BY <1>1 DEF QueueInv, Meeting, MigKept
<1>. QED BY <1>1, <1>2, <1>3, <1>4

LEMMA StopKeeps ==
    ASSUME QueueInv, NEW w \in Workers, mig' = [mig EXCEPT ![w] = Free]
    PROVE  MigKept(w) /\ WorkerOK(w)' /\ \A v \in Workers : Meeting(w, v)'
<1>1. MigKept(w) /\ mig'[w] = Free
  BY MigTypes, ConstantTypes
<1>. QED BY <1>1 DEF WorkerOK, Meeting

\* An attempt that failed, the last one or not.
LEMMA SpentTypes ==
    ASSUME NEW j \in Job, j.left >= 1, NEW cut \in BOOLEAN
    PROVE  Spent(j, cut) \in Job /\ (Spent(j, cut).state \in {"waiting", "active"} => Spent(j, cut).left >= 1)
<1>1. j.left \in 0..MaxAttempts /\ MaxAttempts \in Nat
  BY MigrationAssumption DEF Job
<1>2. PICK left, lost, z :
        /\ left = j.left - 1 /\ lost = (cut /\ j.left = 1)
        /\ z = [j EXCEPT !.left = left, !.cut = lost,
                         !.state = IF j.left = 1 THEN "failed" ELSE "waiting"]
  OBVIOUS
<1>3. lost \in BOOLEAN
  BY <1>2, Zenon
<1>4. left \in 0..MaxAttempts /\ (j.left # 1 => left >= 1)
  BY <1>1, <1>2
<1>5. z \in Job /\ z.left = left /\ (z.state \in {"waiting", "active"} => j.left # 1)
  BY <1>2, <1>3, <1>4 DEF Job
<1>6. Spent(j, cut) = z
  BY <1>2 DEF Spent
<1>. QED BY <1>4, <1>5, <1>6

\* A finished, failed or stalled job.
LEMMA EndTypes ==
    ASSUME QueueInv, NEW w \in Workers, NEW cut \in BOOLEAN, mig[w] # Free,
           Done(w) \/ Errs(w, cut)
    PROVE  /\ MigKept(w) /\ JobKept(w) /\ WorkerOK(w)' /\ \A v \in Workers : Meeting(w, v)'
<1>1. mig' = [mig EXCEPT ![w] = Free]
  BY DEF Done, Errs
<1>2. JobKept(w)
  <2>1. CASE UNCHANGED job
    BY <2>1, JobUntouched
  <2>2. CASE Queued(w)
    <3>1. PICK p : p = mig[w].id
      OBVIOUS
    <3>2. /\ p \in Photos /\ job[p] \in Job /\ job[p].state = "active" /\ job[p].left >= 1
          /\ \A v \in Workers \ {w} : Queued(v) /\ mig[v] # Free => mig[v].id # p
      BY <2>2, <3>1 DEF QueueInv, TypeOK, WorkerOK, JobOK, Meeting
    <3>3. CASE Done(w)
      <4>1. job' = [job EXCEPT ![p] = NoJob]
        BY <2>2, <3>1, <3>3 DEF Done
      <4>2. NoJob \in Job /\ NoJob.state = "none"
        BY ConstantTypes DEF NoJob
      <4>. QED BY <3>2, <4>1, <4>2, JobTypes
    <3>4. CASE Errs(w, cut)
      <4>1. PICK z : z = Spent(job[p], cut)
        OBVIOUS
      <4>2. z \in Job /\ (z.state \in {"waiting", "active"} => z.left >= 1)
        BY <3>2, <4>1, SpentTypes
      <4>3. job' = [job EXCEPT ![p] = z]
        BY <2>2, <3>1, <3>4, <4>1 DEF Errs
      <4>. QED BY <3>2, <4>2, <4>3, JobTypes
    <3>. QED BY <3>3, <3>4
  <2>. QED BY <2>1, <2>2 DEF Done, Errs
<1>. QED BY <1>1, <1>2, StopKeeps

LEMMA StatusTypes ==
    ASSUME TypeOK, NEW p \in Photos, NEW status \in Statuses, photo[p].life # "unborn",
           SetStatus(p, status)
    PROVE  photo' \in [Photos -> Row] /\ Lives
<1>1. PICK z : z = [photo[p] EXCEPT !.status = status]
  OBVIOUS
<1>2. z \in Row /\ z.life # "unborn"
  BY <1>1 DEF TypeOK, Row
<1>3. photo' = [photo EXCEPT ![p] = z]
  BY <1>1 DEF SetStatus
<1>. QED BY <1>2, <1>3, RowTypes

LEMMA TakeTypes ==
    ASSUME QueueInv, NEW w \in Workers, Skips(w) \/ ReadFails(w) \/ Reads(w)
    PROVE  WorkerTypes(w)
<1>0. TypeOK /\ photo \in [Photos -> Row] /\ objects \subseteq Keys /\ smooth \in BOOLEAN
      /\ twice \subseteq Photos
      /\ job \in [Photos -> Job] /\ mig \in [Workers -> Migration]
  BY DEF QueueInv, TypeOK
\* A waiting job is no worker's.
<1>1. ASSUME NEW p \in Photos, job[p].state = "waiting"
      PROVE  \A v \in Workers : Queued(v) /\ mig[v] # Free => mig[v].id # p
  BY <1>1 DEF QueueInv, WorkerOK
<1>2. CASE Skips(w)
  <2>1. PICK p \in Photos :
          /\ Queued(w) /\ mig[w] = Free /\ MayTake(w, p)
          /\ IF Live(p) /\ photo[p].key = None THEN SetStatus(p, "FAILED") ELSE UNCHANGED photo
          /\ job' = [job EXCEPT ![p] = NoJob]
          /\ UNCHANGED <<objects, used, req, calls, mig, smooth, doomed, enqueues, twice>>
    BY <1>2 DEF Skips
  <2>2. photo' \in [Photos -> Row] /\ Lives
    BY <1>0, <2>1, StatusTypes DEF Statuses, Live, Lives
  <2>3. JobKept(w)
    <3>1. job[p].state = "waiting"
      BY <2>1 DEF MayTake
    <3>2. NoJob \in Job /\ NoJob.state = "none"
      BY ConstantTypes DEF NoJob
    <3>. QED BY <1>1, <2>1, <3>1, <3>2, JobTypes
  <2>4. MigKept(w) /\ WorkerOK(w)' /\ \A v \in Workers : Meeting(w, v)'
    BY <1>0, <2>1 DEF MigKept, WorkerOK, Meeting
  <2>. QED BY <1>0, <2>1, <2>2, <2>3, <2>4 DEF WorkerTypes
<1>4. CASE ReadFails(w)
  <2>1. PICK p \in Photos :
          /\ Queued(w) /\ mig[w] = Free /\ MayTake(w, p)
          /\ job' = [job EXCEPT ![p] = Spent(@, TRUE)]
          /\ UNCHANGED <<photoVars, mig, enqueues, twice>>
    BY <1>4 DEF ReadFails
  <2>2. UNCHANGED <<photo, objects, used, req, smooth, doomed, mig, enqueues, twice>>
    BY <2>1 DEF photoVars
  <2>3. JobKept(w)
    <3>1. job[p].state = "waiting" /\ job[p] \in Job /\ job[p].left >= 1
      BY <1>0, <2>1 DEF MayTake, QueueInv, JobOK
    <3>2. PICK z : z = Spent(job[p], TRUE)
      OBVIOUS
    <3>3. z \in Job /\ (z.state \in {"waiting", "active"} => z.left >= 1)
      BY <3>1, <3>2, SpentTypes
    <3>4. job' = [job EXCEPT ![p] = z]
      BY <2>1, <3>2
    <3>. QED BY <1>1, <3>1, <3>3, <3>4, JobTypes
  <2>4. MigKept(w) /\ WorkerOK(w)' /\ \A v \in Workers : Meeting(w, v)'
    BY <1>0, <2>1, <2>2 DEF MigKept, WorkerOK, Meeting
  <2>. QED BY <1>0, <2>2, <2>3, <2>4 DEF WorkerTypes, Lives
<1>3. CASE Reads(w)
  <2>1. PICK p, m :
          /\ p \in Photos
          /\ mig[w] = Free /\ MayTake(w, p) /\ Live(p)
          /\ m = [at |-> "mark", id |-> p, prev |-> Restored(w, p)]
          /\ mig' = [mig EXCEPT ![w] = m]
          /\ job' = IF Queued(w) THEN [job EXCEPT ![p].state = "active"] ELSE job
          /\ twice' = IF \E v \in Workers \ {w} : mig[v].id = p THEN twice \cup {p} ELSE twice
          /\ smooth' = (smooth /\ ~Busy(p, Requests, Workers \ {w}))
          /\ UNCHANGED <<photo, objects, used, req, calls, doomed, enqueues>>
    BY <1>3 DEF Reads
  <2>2. m \in Migration /\ m.id = p /\ m.at = "mark" /\ m # Free
    BY <1>0, <2>1 DEF Row, Migration, Free, Restored, Statuses
  <2>3. MigKept(w) /\ mig'[w] = m
    BY <2>1, <2>2, MigTypes
  <2>4. JobKept(w) /\ (Queued(w) => job'[p].state = "active")
    <3>1. CASE ~Queued(w)
      BY <2>1, <3>1, JobUntouched
    <3>2. CASE Queued(w)
      <4>1. job[p].state = "waiting" /\ job[p].left >= 1 /\ job[p] \in Job
        BY <1>0, <2>1, <3>2 DEF MayTake, QueueInv, JobOK
      <4>2. PICK z : z = [job[p] EXCEPT !.state = "active"]
        OBVIOUS
      <4>3. z \in Job /\ z.left = job[p].left /\ z.state = "active"
        BY <4>1, <4>2 DEF Job
      <4>4. job' = [job EXCEPT ![p] = z]
        BY <2>1, <3>2, <4>2
      <4>5. \A v \in Workers : Queued(v) /\ mig[v] # Free => mig[v].id # p
        BY <1>1, <2>1, <4>1
      <4>6. JobKept(w)
        BY <2>1, <4>1, <4>3, <4>4, <4>5, JobTypes
      <4>. QED BY <1>0, <2>1, <4>3, <4>4, <4>6
    <3>. QED BY <3>1, <3>2
  <2>5. WorkerOK(w)'
    BY <2>1, <2>2, <2>3, <2>4 DEF WorkerOK, Live
  <2>6. \A v \in Workers : Meeting(w, v)'
    <3> SUFFICES ASSUME NEW v \in Workers, v # w, mig[v] # Free, mig[v].id = p
                 PROVE  p \in twice' /\ ~(Queued(w) /\ Queued(v))
      BY <2>2, <2>3 DEF Meeting, MigKept
    <3>1. ~(Queued(w) /\ Queued(v))
      BY <1>1, <2>1 DEF MayTake
    <3>. QED BY <2>1, <3>1
  <2>7. smooth' \in BOOLEAN
    <3>1. (smooth /\ ~Busy(p, Requests, Workers \ {w})) \in BOOLEAN
      BY Zenon
    <3>. QED BY <2>1, <3>1
  <2>8. twice \subseteq twice' /\ twice' \subseteq Photos
    BY <1>0, <2>1
  <2>9. photo' \in [Photos -> Row] /\ Lives
    BY <1>0, <2>1 DEF Lives
  <2>. QED BY <1>0, <2>1, <2>3, <2>4, <2>5, <2>6, <2>7, <2>8, <2>9 DEF WorkerTypes
<1>. QED BY <1>2, <1>3, <1>4

LEMMA GoTypes ==
    ASSUME QueueInv, NEW w \in Workers,
           Marks(w) \/ Copies(w) \/ Records(w) \/ RecordFails(w) \/ Breaks(w)
    PROVE  WorkerTypes(w)
<1>0. TypeOK /\ photo \in [Photos -> Row] /\ objects \subseteq Keys /\ smooth \in BOOLEAN
      /\ twice \subseteq Photos
      /\ mig \in [Workers -> Migration]
  BY DEF QueueInv, TypeOK
<1>1. mig[w] # Free
  <2>1. mig[w].at # "-"
    BY DEF Marks, Copies, Records, RecordFails, Breaks
  <2>. QED BY <2>1 DEF Free
<1>2. PICK p \in Photos : p = mig[w].id /\ photo[p].life # "unborn"
  BY <1>1 DEF QueueInv, WorkerOK
<1>3. CASE Marks(w)
  <2>1. UNCHANGED <<objects, used, req, calls, smooth, doomed, enqueues, twice>>
    BY <1>3 DEF Marks
  <2>2. photo' \in [Photos -> Row] /\ Lives
    BY <1>0, <1>2, <1>3, StatusTypes DEF Marks, Statuses, Lives
  <2>3. MigKept(w) /\ JobKept(w) /\ WorkerOK(w)' /\ \A v \in Workers : Meeting(w, v)'
    BY <1>1, <1>3, <2>1, <2>2, StepKeeps, EndTypes DEF Marks
  <2>. QED BY <1>0, <2>1, <2>2, <2>3 DEF WorkerTypes
<1>4. CASE Copies(w)
  <2>1. UNCHANGED <<photo, used, req, calls, doomed, job, enqueues, twice>>
        /\ (Step(w, "record") \/ Step(w, "broken"))
        /\ (objects' = objects \/ objects' = objects \cup {MigratedKey(p)})
        /\ (smooth' = smooth \/ smooth' = FALSE)
    BY <1>2, <1>4 DEF Copies, Calm, CutShort
  <2>2. photo' \in [Photos -> Row] /\ Lives /\ objects' \subseteq Keys
    BY <1>0, <2>1, KeyFacts DEF Lives
  <2>3. MigKept(w) /\ JobKept(w) /\ WorkerOK(w)' /\ \A v \in Workers : Meeting(w, v)'
    BY <1>1, <2>1, <2>2, StepKeeps
  <2>. QED BY <1>0, <2>1, <2>2, <2>3 DEF WorkerTypes
<1>5. CASE Records(w)
  <2>1. UNCHANGED <<objects, used, req, calls, smooth, doomed, enqueues, twice>>
    BY <1>5 DEF Records
  <2>2. PICK z : z = [photo[p] EXCEPT !.key = MigratedKey(p), !.status = "SUCCEEDED"]
    OBVIOUS
  <2>3. z \in Row /\ z.life # "unborn"
    <3>1. photo[p] \in Row /\ MigratedKey(p) \in Keys
      BY <1>0, KeyFacts
    <3>. QED BY <1>2, <2>2, <3>1 DEF Row, Statuses
  <2>4. photo' = [photo EXCEPT ![p] = z]
    BY <1>2, <1>5, <2>2 DEF Records
  <2>5. photo' \in [Photos -> Row] /\ Lives
    BY <1>0, <2>3, <2>4, RowTypes
  <2>6. MigKept(w) /\ JobKept(w) /\ WorkerOK(w)' /\ \A v \in Workers : Meeting(w, v)'
    BY <1>1, <1>5, <2>1, <2>5, StepKeeps, EndTypes DEF Records
  <2>. QED BY <1>0, <2>1, <2>5, <2>6 DEF WorkerTypes
<1>6. CASE RecordFails(w)
  <2>1. UNCHANGED <<photo, objects, used, req, calls, doomed, job, enqueues, twice>>
        /\ Step(w, "broken") /\ smooth' = FALSE
    BY <1>6 DEF RecordFails, CutShort
  <2>2. photo' \in [Photos -> Row] /\ Lives
    BY <1>0, <2>1 DEF Lives
  <2>3. MigKept(w) /\ JobKept(w) /\ WorkerOK(w)' /\ \A v \in Workers : Meeting(w, v)'
    BY <1>1, <2>1, <2>2, StepKeeps
  <2>. QED BY <1>0, <2>1, <2>2, <2>3 DEF WorkerTypes
<1>7. CASE Breaks(w)
  <2>1. UNCHANGED <<objects, used, req, calls, smooth, doomed, enqueues, twice>>
    BY <1>7 DEF Breaks
  <2>2. PICK status \in Statuses : status = IF Queued(w) THEN "FAILED"
                       ELSE IF mig[w].prev = "NONE" THEN "PENDING" ELSE mig[w].prev
    BY <1>0 DEF Migration, Statuses
  <2>3. SetStatus(p, status) \/ UNCHANGED photo
    BY <1>2, <1>7, <2>2 DEF Breaks
  <2>4. photo' \in [Photos -> Row] /\ Lives
    BY <1>0, <1>2, <2>3, StatusTypes DEF Lives
  <2>5. MigKept(w) /\ JobKept(w) /\ WorkerOK(w)' /\ \A v \in Workers : Meeting(w, v)'
    BY <1>1, <1>7, <2>1, <2>4, StepKeeps, EndTypes DEF Breaks
  <2>. QED BY <1>0, <2>1, <2>4, <2>5 DEF WorkerTypes
<1>. QED BY <1>3, <1>4, <1>5, <1>6, <1>7

LEMMA StopTypes ==
    ASSUME QueueInv, NEW w \in Workers,
           CountsSuccess(w) \/ CountsFailure(w) \/ StatusNotWritten(w) \/ WorkerDies(w)
    PROVE  WorkerTypes(w)
<1>0. TypeOK /\ photo \in [Photos -> Row] /\ objects \subseteq Keys /\ smooth \in BOOLEAN
      /\ twice \subseteq Photos
      /\ mig \in [Workers -> Migration]
  BY DEF QueueInv, TypeOK
<1>1. mig[w] # Free
  <2>1. CASE mig[w].at # "-"
    BY <2>1 DEF Free
  <2>. QED BY <2>1 DEF CountsSuccess, CountsFailure, StatusNotWritten, WorkerDies
<1>2. /\ UNCHANGED <<photo, objects, used, req, calls, doomed, enqueues, twice>>
      /\ smooth' \in BOOLEAN
  BY <1>0 DEF CountsSuccess, CountsFailure, StatusNotWritten, WorkerDies, CutShort, photoVars
<1>4. MigKept(w) /\ JobKept(w) /\ WorkerOK(w)' /\ \A v \in Workers : Meeting(w, v)'
  <2>3. Lives
    BY <1>2 DEF Lives
  <2>1. CASE CountsSuccess(w) \/ CountsFailure(w) \/ StatusNotWritten(w)
    BY <1>1, <1>2, <2>1, <2>3, EndTypes, StepKeeps DEF CountsSuccess, CountsFailure, StatusNotWritten
  <2>2. CASE WorkerDies(w)
    <3>1. mig' = [mig EXCEPT ![w] = Free]
      BY <2>2 DEF WorkerDies
    <3>2. CASE ~Queued(w)
      BY <2>2, <3>1, <3>2, JobUntouched, StopKeeps DEF WorkerDies
    <3>3. CASE Queued(w)
      <4>1. PICK p : p = mig[w].id
        OBVIOUS
      <4>2. /\ p \in Photos /\ job[p] \in Job /\ job[p].state = "active" /\ job[p].left >= 1
            /\ \A v \in Workers \ {w} : Queued(v) /\ mig[v] # Free => mig[v].id # p
        BY <1>1, <3>3, <4>1 DEF QueueInv, TypeOK, WorkerOK, JobOK, Meeting
      <4>3. PICK y, z : /\ y = [job[p] EXCEPT !.state = "failed", !.cut = TRUE]
                        /\ z = [job[p] EXCEPT !.state = "waiting", !.stalls = @ + 1]
        OBVIOUS
      <4>4. y \in Job /\ y.state = "failed"
        BY <4>2, <4>3 DEF Job
      <4>5. ASSUME job[p].stalls # MaxStalls
            PROVE  z \in Job /\ z.left >= 1
        <5>1. job[p].stalls \in 0..MaxStalls /\ MaxStalls \in Nat
          BY <4>2, MigrationAssumption DEF Job
        <5>2. job[p].stalls + 1 \in 0..MaxStalls
          BY <4>5, <5>1
        <5>. QED BY <4>2, <4>3, <5>2 DEF Job
      <4>6. job' = IF job[p].stalls = MaxStalls THEN [job EXCEPT ![p] = y]
                   ELSE [job EXCEPT ![p] = z]
        BY <2>2, <3>3, <4>1, <4>3 DEF WorkerDies
      <4>7. JobKept(w)
        BY <4>2, <4>4, <4>5, <4>6, JobTypes
      <4>. QED BY <3>1, <4>7, StopKeeps
    <3>. QED BY <3>2, <3>3
  <2>. QED BY <2>1, <2>2
<1>5. photo' \in [Photos -> Row] /\ Lives
  BY <1>0, <1>2 DEF Lives
<1>. QED BY <1>0, <1>2, <1>4, <1>5 DEF WorkerTypes

LEMMA EnqueueQueue == QueueInv /\ EnqueuePending => QueueInv'
<1> SUFFICES ASSUME QueueInv, EnqueuePending
             PROVE  QueueInv'
  OBVIOUS
<1>0. TypeOK /\ job \in [Photos -> Job]
  BY DEF QueueInv, TypeOK
<1>1. UNCHANGED <<photo, objects, used, req, smooth, doomed, mig, twice>>
  BY DEF EnqueuePending, photoVars
<1>2. enqueues' \in 0..MaxEnqueues
  <2>1. enqueues \in 0..MaxEnqueues /\ MaxEnqueues \in Nat
    BY <1>0, MigrationAssumption DEF TypeOK
  <2>2. enqueues < MaxEnqueues /\ enqueues' = enqueues + 1
    BY DEF EnqueuePending
  <2>. QED BY <2>1, <2>2
<1>3. PICK new : new = [NoJob EXCEPT !.state = "waiting", !.left = MaxAttempts]
  OBVIOUS
<1>4. new \in Job /\ new.state = "waiting" /\ new.left >= 1
  <2>1. NoJob \in Job /\ MaxAttempts \in 0..MaxAttempts /\ MaxAttempts >= 1
    BY ConstantTypes, MigrationAssumption
  <2>. QED BY <1>3, <2>1 DEF Job
<1>5. PICK S : job' = [p \in Photos |-> IF p \in S /\ job[p].state = "none" THEN new ELSE job[p]]
  BY <1>3 DEF EnqueuePending
<1>6. job' \in [Photos -> Job] /\ \A p \in Photos : job'[p] = job[p] \/
                                      (job[p].state = "none" /\ job'[p] = new)
  BY <1>0, <1>4, <1>5
<1>7. \A p \in Photos : JobOK(p)'
  BY <1>4, <1>6 DEF QueueInv, JobOK
<1>8. \A w \in Workers : WorkerOK(w)'
  BY <1>1, <1>6 DEF QueueInv, WorkerOK
<1>9. TypeOK'
  BY <1>0, <1>1, <1>2, <1>6 DEF TypeOK
<1>10. (\A r \in Requests : ReqOK(r)') /\ \A w, v \in Workers : Meeting(w, v)'
  BY <1>1 DEF QueueInv, ReqOK, Meeting
<1>. QED BY <1>7, <1>8, <1>9, <1>10 DEF QueueInv

LEMMA InitQueue == Init => QueueInv
<1> SUFFICES ASSUME Init
             PROVE  QueueInv
  OBVIOUS
<1>1. PICK front \in SUBSET Imported :
        /\ \A p, q \in front : p = q
        /\ photo = [p \in Photos |->
                IF p \notin Imported THEN Unborn
                ELSE [life |-> "live", type |-> IF p \in front THEN "FRONT" ELSE "SIDE",
                      key |-> None, status |-> "PENDING"]]
  BY DEF Init, PhotosInit
<1>2. photo \in [Photos -> Row]
  <2>1. \A type \in PhotoTypes : [life |-> "live", type |-> type, key |-> None,
                                  status |-> "PENDING"] \in Row
    BY DEF Row, Statuses
  <2>2. [life |-> "live", type |-> "FRONT", key |-> None, status |-> "PENDING"] \in Row
        /\ [life |-> "live", type |-> "SIDE", key |-> None, status |-> "PENDING"] \in Row
    BY <2>1 DEF PhotoTypes
  <2>3. ASSUME NEW p \in Photos
        PROVE  (IF p \notin Imported THEN Unborn
                ELSE [life |-> "live", type |-> IF p \in front THEN "FRONT" ELSE "SIDE",
                      key |-> None, status |-> "PENDING"]) \in Row
    BY <2>2, ConstantTypes
  <2>. QED BY <1>1, <2>3
<1>3. /\ objects = {} /\ used = {} /\ req = [r \in Requests |-> Idle] /\ smooth = TRUE
      /\ doomed = {} /\ mig = [w \in Workers |-> Free] /\ job = [p \in Photos |-> NoJob]
      /\ enqueues = 0 /\ twice = {}
  BY DEF Init, PhotosInit
<1>4. TypeOK
  BY <1>2, <1>3, ConstantTypes, MigrationAssumption DEF TypeOK
<1>5. \A r \in Requests : ReqOK(r)
  BY <1>3 DEF ReqOK, Idle
<1>6. (\A p \in Photos : JobOK(p)) /\ \A w \in Workers : WorkerOK(w)
  BY <1>3 DEF JobOK, WorkerOK, NoJob
<1>7. \A w, v \in Workers : Meeting(w, v)
  BY <1>3 DEF Meeting
<1>. QED BY <1>4, <1>5, <1>6, <1>7 DEF QueueInv

LEMMA NextQueue == QueueInv /\ [Next]_vars => QueueInv'
<1> SUFFICES ASSUME QueueInv, [Next]_vars
             PROVE  QueueInv'
  OBVIOUS
<1>1. CASE ApiStep
  BY <1>1, ApiQueue
<1>2. CASE EnqueuePending
  BY <1>2, EnqueueQueue
<1>3. ASSUME NEW w \in Workers, WorkerStep(w) \/ WorkerFails(w)
      PROVE  QueueInv'
  BY <1>3, TakeTypes, GoTypes, StopTypes, WorkerQueue DEF WorkerStep, WorkerFails
<1>4. CASE UNCHANGED vars
  <2>1. UNCHANGED <<photo, objects, used, req, mig, smooth, doomed, job, enqueues, twice>>
    BY <1>4 DEF vars
  <2>. QED BY <2>1 DEF QueueInv, TypeOK, ReqOK, JobOK, WorkerOK, Meeting
<1>. QED BY <1>1, <1>2, <1>3, <1>4 DEF Next

-----------------------------------------------------------------------------
(* No object is lost: requests.                                             *)

SameKeys == \A p \in Photos : photo'[p].key = photo[p].key /\ photo'[p].life = photo[p].life

\* Request r goes on with the keys it had, or forgets them.
Quiet(r) ==
    /\ Others(r)
    /\ req'[r].seen # None =>
          /\ req'[r].seen = req[r].seen /\ req'[r].id = req[r].id
          /\ req'[r].at = "cleanup" => req[r].at = "cleanup"
    /\ Fresh(r)' =>
          /\ Fresh(r) /\ req'[r].new = req[r].new
          /\ req'[r].at # "rollback" => req[r].at # "rollback"

LEMMA RowsKeep ==
    ASSUME KeyInv, SameKeys, UNCHANGED mig, used \subseteq used', twice \subseteq twice'
    PROVE  \A p \in Photos : RowOK(p)'
  BY DEF KeyInv, SameKeys, RowOK, Copying

\* At most the object k is removed; no row, request or worker needs it.
LEMMA QuietKeys ==
    ASSUME KeyInv, NEW r \in Requests, Quiet(r), SameKeys, UNCHANGED <<mig, twice>>,
           used \subseteq used', doomed \subseteq doomed', NEW k, objects \ {k} \subseteq objects',
           \A p \in Photos : photo[p].key = k /\ k # None => p \in doomed' \cup twice,
           \A q \in Requests : Fresh(q)' => req'[q].new # k,
           \A w \in Workers : mig[w].at = "record" /\ MigratedKey(mig[w].id) = k =>
               mig[w].id \in doomed' \cup twice
    PROVE  KeyInv'
<1>1. \A p \in Photos : RowOK(p)'
  BY RowsKeep
<1>2. ASSUME NEW q \in Requests, Fresh(q)'
      PROVE  Fresh(q) /\ req'[q].new = req[q].new /\ FreshOK(q)
             /\ (req'[q].at # "rollback" => req[q].at # "rollback")
  <2>1. CASE q = r
    BY <1>2, <2>1 DEF Quiet, KeyInv
  <2>2. CASE q # r
    BY <1>2, <2>2 DEF Quiet, Others, KeyInv, Fresh
  <2>. QED BY <2>1, <2>2
<1>3. ASSUME NEW q \in Requests, req'[q].seen # None
      PROVE  /\ SeenOK(q) /\ req'[q].seen = req[q].seen /\ req'[q].id = req[q].id
             /\ req'[q].at = "cleanup" => req[q].at = "cleanup"
  <2>1. CASE q = r
    BY <1>3, <2>1 DEF Quiet, KeyInv
  <2>2. CASE q # r
    BY <1>3, <2>2 DEF Quiet, Others, KeyInv
  <2>. QED BY <2>1, <2>2
<1>4. ASSUME NEW q \in Requests
      PROVE  FreshOK(q)'
  <2> SUFFICES ASSUME Fresh(q)'
               PROVE  FreshOK(q)'
    BY DEF FreshOK
  <2>1. Fresh(q) /\ req'[q].new = req[q].new /\ FreshOK(q) /\ req[q].new # None
        /\ (req'[q].at # "rollback" => req[q].at # "rollback")
    BY <1>2 DEF Fresh
  <2>2. \A p \in Photos : photo'[p].key # req'[q].new
    BY <2>1 DEF FreshOK, SameKeys
  <2>3. \A u \in Requests : req'[u].seen # req'[q].new
    BY <1>3, <2>1 DEF FreshOK
  <2>4. \A u \in Requests \ {q} : Fresh(u)' => req'[u].new # req'[q].new
    BY <1>2, <2>1 DEF FreshOK
  <2>5. req'[q].at # "rollback" => req'[q].new \in objects'
    BY <2>1 DEF FreshOK
  <2>. QED BY <2>1, <2>2, <2>3, <2>4, <2>5 DEF FreshOK
<1>5. ASSUME NEW q \in Requests
      PROVE  SeenOK(q)'
  <2> SUFFICES ASSUME req'[q].seen # None
               PROVE  SeenOK(q)'
    BY DEF SeenOK
  <2>. QED BY <1>3 DEF SeenOK, SameKeys, Copying
<1>6. \A w \in Workers : CopyOK(w)'
  BY DEF KeyInv, CopyOK
<1>7. LossOnlyByDeletion'
  BY DEF KeyInv, LossOnlyByDeletion, SameKeys, Live
<1>. QED BY <1>1, <1>4, <1>5, <1>6, <1>7 DEF KeyInv

\* No object is removed at all.
LEMMA StillKeys ==
    ASSUME QueueInv, KeyInv, NEW r \in Requests, Quiet(r), SameKeys,
           UNCHANGED <<mig, doomed, twice>>, objects \subseteq objects', used \subseteq used'
    PROVE  KeyInv'
<1>1. \A q \in Requests : Fresh(q)' => req'[q].new # None
  BY DEF Fresh
<1>2. \A w \in Workers : mig[w].at = "record" => MigratedKey(mig[w].id) # None
  <2>1. \A w \in Workers : mig[w].at = "record" => mig[w].id \in Photos
    BY DEF QueueInv, WorkerOK, Free
  <2>. QED BY <2>1, KeyFacts
<1>. QED BY <1>1, <1>2, QuietKeys

LEMMA FinishQuiet == ASSUME QueueInv, NEW r \in Requests, Finish(r)
                     PROVE  Quiet(r)
<1>1. Others(r) /\ req'[r] = Idle
  BY FinishTypes DEF QueueInv
<1>. QED BY <1>1 DEF Quiet, Fresh, Idle

LEMMA MoveQuiet ==
    ASSUME QueueInv, NEW r \in Requests, NEW at \in {"write", "rollback", "row"}, Move(r, at),
           at = "row" \/ req[r].at \in {"check", "write"}
    PROVE  Quiet(r)
<1>1. Others(r) /\ req'[r].at = at /\ req'[r].id = req[r].id
      /\ req'[r].seen = req[r].seen /\ req'[r].new = req[r].new
  BY MoveTypes DEF QueueInv
<1>. QED BY <1>1 DEF Quiet, Fresh

\* Requests that leave rows' keys alone, and add to the bucket at most an object
\* nobody knows of.
LEMMA RestKeys ==
    ASSUME QueueInv, KeyInv, NEW r \in Requests, UNCHANGED <<mig, twice>>,
           \/ UpdateReads(r) \/ UpdateChecks(r) \/ UpdateWrites(r) \/ ReplaceNotStored(r)
           \/ UploadNotStored(r) \/ WriteFails(r) \/ RequestDies(r)
    PROVE  KeyInv'
<1>0. TypeOK /\ ReqOK(r) /\ photo \in [Photos -> Row] /\ req \in [Requests -> Request]
  BY DEF QueueInv, TypeOK
<1>1. objects \subseteq objects' /\ used \subseteq used' /\ UNCHANGED doomed
  BY DEF UpdateReads, UpdateChecks, UpdateWrites, ReplaceNotStored, UploadNotStored, UploadImage,
         WriteFails, RequestDies
<1>2. SameKeys
  <2>1. CASE UpdateWrites(r)
    <3>1. PICK p, type : photo' = [photo EXCEPT ![p].type = type]
      BY <2>1 DEF UpdateWrites
    <3>. QED BY <1>0, <3>1 DEF SameKeys, Row
  <2>. QED BY <2>1 DEF UpdateReads, UpdateChecks, ReplaceNotStored, UploadNotStored, WriteFails,
                       RequestDies, SameKeys
<1>3. Quiet(r)
  <2>1. CASE UpdateReads(r)
    <3>1. PICK p, type, z : /\ z = [Idle EXCEPT !.op = "update", !.at = "check", !.id = p, !.type = type]
                            /\ req' = [req EXCEPT ![r] = z]
      BY <2>1 DEF UpdateReads, Start
    <3>2. z.seen = None /\ z.new = None
      BY <3>1 DEF Idle
    <3>3. req'[r] = z /\ Others(r)
      BY <1>0, <3>1 DEF Others
    <3>. QED BY <3>2, <3>3 DEF Quiet, Fresh
  <2>2. CASE UpdateChecks(r)
    BY <2>2, MoveQuiet DEF UpdateChecks
  <2>3. CASE WriteFails(r)
    BY <2>3, MoveQuiet, FinishQuiet DEF WriteFails
  <2>4. CASE UpdateWrites(r) \/ ReplaceNotStored(r) \/ RequestDies(r)
    BY <2>4, FinishQuiet DEF UpdateWrites, ReplaceNotStored, RequestDies
  <2>5. CASE UploadNotStored(r)
    BY <2>5 DEF UploadNotStored, Quiet, Others, Fresh
  <2>. QED BY <2>1, <2>2, <2>3, <2>4, <2>5
<1>. QED BY <1>1, <1>2, <1>3, StillKeys

\* A request that removes the key it read: a deletion, or the end of a replacement.
LEMMA RemoveSeenKeys ==
    ASSUME QueueInv, KeyInv, NEW r \in Requests, UNCHANGED <<mig, twice>>,
           ReplaceCleansUp(r) \/ DeleteRemovesObject(r)
    PROVE  KeyInv'
<1>0. TypeOK /\ ReqOK(r) /\ SeenOK(r) /\ req[r] \in Request
  BY DEF QueueInv, KeyInv, TypeOK
<1>1. UNCHANGED <<photo, used>> /\ doomed \subseteq doomed'
      /\ (Deleted(req[r].seen) \/ NotDeleted(req[r].seen))
      /\ (req[r].at = "cleanup" \/ req[r].id \in doomed')
  BY DEF ReplaceCleansUp, DeleteRemovesObject, At
<1>2. Quiet(r) /\ SameKeys
  BY <1>1, FinishQuiet, MoveQuiet DEF ReplaceCleansUp, DeleteRemovesObject, SameKeys
<1>3. PICK k : k = req[r].seen
  OBVIOUS
<1>4. objects \ {k} \subseteq objects'
  BY <1>0, <1>1, <1>3, DeletedTypes
<1>5. \A p \in Photos : photo[p].key = k /\ k # None => p \in doomed' \cup twice
  BY <1>0, <1>1, <1>3 DEF SeenOK
<1>6. \A q \in Requests : Fresh(q)' => req'[q].new # k
  <2>1. ~Fresh(r)'
    BY FinishTypes, MoveTypes, <1>0 DEF ReplaceCleansUp, DeleteRemovesObject, Fresh, Idle
  <2>2. ASSUME NEW q \in Requests \ {r}, Fresh(q)'
        PROVE  req'[q].new # k
    BY <1>2, <1>3, <2>2 DEF Quiet, Others, Fresh, KeyInv, FreshOK
  <2>. QED BY <2>1, <2>2
<1>7. ASSUME NEW w \in Workers, mig[w].at = "record", MigratedKey(mig[w].id) = k
      PROVE  mig[w].id \in doomed' \cup twice
  <2>1. mig[w].id \in Photos
    BY <1>7 DEF QueueInv, WorkerOK, Free
  <2>2. k # None /\ k \notin Uploads /\ used \subseteq Uploads
    BY <1>0, <1>7, <2>1, KeyFacts DEF TypeOK
  <2>3. req[r].id \in Photos /\ k = MigratedKey(req[r].id)
    BY <1>0, <1>3, <2>2 DEF SeenOK
  <2>4. req[r].id = mig[w].id
    BY <1>7, <2>1, <2>3, KeyFacts
  <2>. QED BY <1>0, <1>1, <1>3, <1>7, <2>2, <2>3, <2>4 DEF SeenOK, Copying
<1>. QED BY <1>1, <1>2, <1>4, <1>5, <1>6, <1>7, QuietKeys

\* The rollback removes a key no row names.
LEMMA RollBackKeys ==
    ASSUME QueueInv, KeyInv, NEW r \in Requests, UNCHANGED <<mig, twice>>, RollBack(r)
    PROVE  KeyInv'
<1>0. TypeOK /\ FreshOK(r) /\ req[r] \in Request
  BY DEF QueueInv, KeyInv, TypeOK
<1>1. UNCHANGED <<photo, used, doomed>> /\ Finish(r) /\ req[r].at = "rollback"
      /\ (Deleted(req[r].new) \/ NotDeleted(req[r].new))
  BY DEF RollBack
<1>2. Quiet(r) /\ SameKeys
  BY <1>1, FinishQuiet DEF SameKeys
<1>3. PICK k : k = req[r].new
  OBVIOUS
<1>4. objects \ {k} \subseteq objects'
  BY <1>0, <1>1, <1>3, DeletedTypes
<1>5. \A p \in Photos : photo[p].key = k /\ k # None => p \in doomed' \cup twice
  BY <1>0, <1>1, <1>3 DEF FreshOK, Fresh
<1>6. \A q \in Requests : Fresh(q)' => req'[q].new # k
  <2>1. ~Fresh(r)'
    BY <1>0, <1>1, FinishTypes DEF Fresh, Idle
  <2>2. ASSUME NEW q \in Requests \ {r}, Fresh(q)'
        PROVE  req'[q].new # k
    <3>1. req'[q] = req[q] /\ Fresh(q) /\ req[q].new # None
      BY <1>2, <2>2 DEF Quiet, Others, Fresh
    <3>. QED BY <1>0, <1>1, <1>3, <3>1 DEF FreshOK, Fresh
  <2>. QED BY <2>1, <2>2
<1>7. \A w \in Workers : mig[w].at = "record" => MigratedKey(mig[w].id) # k
  <2>1. \A w \in Workers : mig[w].at = "record" => mig[w].id \in Photos
    BY DEF QueueInv, WorkerOK, Free
  <2>2. k \in Uploads \cup {None}
    BY <1>0, <1>3 DEF Request
  <2>. QED BY <2>1, <2>2, KeyFacts
<1>. QED BY <1>1, <1>2, <1>4, <1>5, <1>6, <1>7, QuietKeys

\* A request that reads a row's key, to remove its object later.
LEMMA ReadKeys ==
    ASSUME QueueInv, KeyInv, NEW r \in Requests, UNCHANGED <<mig, twice>>,
           ReplaceReads(r) \/ DeleteReads(r)
    PROVE  KeyInv'
<1>0. TypeOK /\ photo \in [Photos -> Row] /\ req \in [Requests -> Request]
  BY DEF QueueInv, TypeOK
<1>1. PICK p, k, z :
        /\ p \in Photos
        /\ Live(p) /\ k = photo[p].key /\ req' = [req EXCEPT ![r] = z]
        /\ z.id = p /\ z.seen = k /\ z.new = None /\ z.at # "cleanup"
  <2>1. CASE ReplaceReads(r)
    <3>1. PICK p, type :
            /\ p \in Photos
            /\ Live(p)
            /\ Start(r, [Idle EXCEPT !.op = "replace", !.at = "store",
                                 !.id = p, !.seen = photo[p].key, !.type = type])
      BY <2>1 DEF ReplaceReads
    <3>2. PICK k, z : k = photo[p].key /\
            z = [Idle EXCEPT !.op = "replace", !.at = "store", !.id = p, !.seen = k, !.type = type]
      OBVIOUS
    <3>3. z.id = p /\ z.seen = k /\ z.new = None /\ z.at = "store"
      BY <3>2 DEF Idle
    <3>. QED BY <3>1, <3>2, <3>3 DEF Start
  <2>2. CASE DeleteReads(r)
    <3>1. PICK p \in Photos : /\ Live(p)
            /\ Start(r, [Idle EXCEPT !.op = "delete", !.at = "remove",
                                 !.id = p, !.seen = photo[p].key])
      BY <2>2 DEF DeleteReads
    <3>2. PICK k, z : k = photo[p].key /\
            z = [Idle EXCEPT !.op = "delete", !.at = "remove", !.id = p, !.seen = k]
      OBVIOUS
    <3>3. z.id = p /\ z.seen = k /\ z.new = None /\ z.at = "remove"
      BY <3>2 DEF Idle
    <3>. QED BY <3>1, <3>2, <3>3 DEF Start
  <2>. QED BY <2>1, <2>2
<1>2. UNCHANGED <<photo, objects, used, doomed>>
  BY DEF ReplaceReads, DeleteReads
<1>3. req'[r] = z /\ \A q \in Requests \ {r} : req'[q] = req[q]
  BY <1>0, <1>1
<1>4. ~Fresh(r)'
  BY <1>1, <1>3 DEF Fresh
<1>5. ASSUME NEW q \in Requests
      PROVE  FreshOK(q)'
  <2> SUFFICES ASSUME Fresh(q)'
               PROVE  FreshOK(q)'
    BY DEF FreshOK
  <2>1. q # r /\ Fresh(q) /\ FreshOK(q) /\ req'[q] = req[q]
    BY <1>3, <1>4 DEF Fresh, KeyInv
  <2>2. \A u \in Requests : req'[u].seen # req[q].new
    BY <1>1, <1>3, <2>1 DEF FreshOK
  <2>3. \A u \in Requests \ {q} : Fresh(u)' => req'[u].new # req[q].new
    BY <1>3, <1>4, <2>1 DEF FreshOK, Fresh
  <2>. QED BY <1>2, <2>1, <2>2, <2>3 DEF FreshOK
<1>6. ASSUME NEW q \in Requests \ {r}
      PROVE  SeenOK(q)'
  BY <1>2, <1>3 DEF KeyInv, SeenOK, Copying
<1>7. SeenOK(r)'
  BY <1>1, <1>2, <1>3 DEF KeyInv, RowOK, SeenOK, Live, Copying
<1>8. \A q \in Photos : RowOK(q)'
  BY <1>2, RowsKeep DEF SameKeys
<1>9. (\A w \in Workers : CopyOK(w)') /\ LossOnlyByDeletion'
  BY <1>2 DEF KeyInv, CopyOK, LossOnlyByDeletion, Live
<1>. QED BY <1>5, <1>6, <1>7, <1>8, <1>9 DEF KeyInv

\* A key that was never drawn is in nobody's hands.
LEMMA StoreKeys ==
    ASSUME QueueInv, KeyInv, NEW r \in Requests, UNCHANGED <<mig, twice>>,
           UploadStores(r) \/ ReplaceStores(r)
    PROVE  KeyInv'
<1>0. TypeOK /\ photo \in [Photos -> Row] /\ req \in [Requests -> Request] /\ used \subseteq Uploads
  BY DEF QueueInv, TypeOK
<1>1. PICK k, z :
        /\ k \in Uploads
        /\ UploadImage(k) /\ req' = [req EXCEPT ![r] = z]
        /\ z.new = k /\ z.at \in {"check", "write"}
        /\ z.seen # None => z.seen = req[r].seen /\ z.id = req[r].id /\ z.at # "cleanup"
  <2>1. CASE UploadStores(r)
    <3>1. PICK k, type :
            /\ k \in Uploads
            /\ UploadImage(k)
            /\ Start(r, [Idle EXCEPT !.op = "upload", !.at = "write", !.new = k, !.type = type])
      BY <2>1 DEF UploadStores
    <3>2. PICK z : z = [Idle EXCEPT !.op = "upload", !.at = "write", !.new = k, !.type = type]
      OBVIOUS
    <3>3. z.new = k /\ z.at = "write" /\ z.seen = None
      BY <3>2 DEF Idle
    <3>. QED BY <3>1, <3>2, <3>3 DEF Start
  <2>2. CASE ReplaceStores(r)
    <3>1. PICK k \in Uploads : /\ UploadImage(k)
                              /\ req' = [req EXCEPT ![r].at = "check", ![r].new = k]
      BY <2>2 DEF ReplaceStores
    <3>2. PICK z : z = [req[r] EXCEPT !.at = "check", !.new = k]
      OBVIOUS
    <3>3. req' = [req EXCEPT ![r] = z]
      BY <3>1, <3>2
    <3>4. z.new = k /\ z.at = "check" /\ z.seen = req[r].seen /\ z.id = req[r].id
      BY <1>0, <3>2 DEF Request
    <3>. QED BY <3>1, <3>3, <3>4
  <2>. QED BY <2>1, <2>2
<1>2. UNCHANGED <<photo, doomed>> /\ used' = used \cup {k} /\ objects' = objects \cup {k} /\ k \notin used
  BY <1>1 DEF UploadStores, ReplaceStores, UploadImage
<1>3. req'[r] = z /\ \A q \in Requests \ {r} : req'[q] = req[q]
  BY <1>0, <1>1
<1>4. k # None /\ \A p \in Photos : MigratedKey(p) # k
  BY <1>1, KeyFacts
<1>5. /\ \A p \in Photos : photo[p].key # k
      /\ \A q \in Requests : req[q].seen # k
      /\ \A q \in Requests : Fresh(q) => req[q].new # k
  <2>1. \A p \in Photos : photo[p].key # k
    BY <1>2, <1>4 DEF KeyInv, RowOK
  <2>2. \A q \in Requests : req[q].seen # k
    BY <1>2, <1>4 DEF KeyInv, SeenOK
  <2>3. \A q \in Requests : Fresh(q) => req[q].new # k
    BY <1>2 DEF KeyInv, FreshOK
  <2>. QED BY <2>1, <2>2, <2>3
<1>6. ASSUME NEW q \in Requests \ {r}
      PROVE  FreshOK(q)' /\ SeenOK(q)'
  <2>1. SeenOK(q)'
    BY <1>2, <1>3 DEF KeyInv, SeenOK, Copying
  <2>2. ASSUME Fresh(q)'
        PROVE  FreshOK(q)'
    <3>1. Fresh(q) /\ FreshOK(q) /\ req'[q] = req[q] /\ req[q].new # k /\ req[q].new # None
      BY <1>3, <1>5, <2>2 DEF Fresh, KeyInv
    <3>2. \A u \in Requests : req'[u].seen # req[q].new
      BY <1>1, <1>3, <3>1 DEF FreshOK
    <3>3. \A u \in Requests \ {q} : Fresh(u)' => req'[u].new # req[q].new
      BY <1>1, <1>3, <3>1 DEF FreshOK, Fresh
    <3>. QED BY <1>2, <3>1, <3>2, <3>3 DEF FreshOK
  <2>. QED BY <2>1, <2>2 DEF FreshOK
<1>7. FreshOK(r)'
  <2>1. \A u \in Requests : req'[u].seen # k
    BY <1>1, <1>3, <1>4, <1>5
  <2>2. \A u \in Requests \ {r} : Fresh(u)' => req'[u].new # k
    BY <1>3, <1>5 DEF Fresh
  <2>. QED BY <1>1, <1>2, <1>3, <1>5, <2>1, <2>2 DEF FreshOK
<1>8. SeenOK(r)'
  <2> SUFFICES ASSUME req'[r].seen # None
               PROVE  SeenOK(r)'
    BY DEF SeenOK
  <2>1. req'[r].seen = req[r].seen /\ req'[r].id = req[r].id /\ req'[r].at # "cleanup" /\ SeenOK(r)
    BY <1>1, <1>3 DEF KeyInv
  <2>. QED BY <1>2, <2>1 DEF SeenOK, Copying
<1>9. \A p \in Photos : RowOK(p)'
  BY <1>2, RowsKeep DEF SameKeys
<1>10. (\A w \in Workers : CopyOK(w)') /\ LossOnlyByDeletion'
  BY <1>2 DEF KeyInv, CopyOK, LossOnlyByDeletion, Live
<1>. QED BY <1>6, <1>7, <1>8, <1>9, <1>10 DEF KeyInv

\* A row takes the key its request uploaded; a replacement still knows the former one.
LEMMA AdoptKeys ==
    ASSUME QueueInv, KeyInv, NEW r \in Requests, UNCHANGED <<mig, twice>>,
           UploadInserts(r) \/ ReplaceWrites(r)
    PROVE  KeyInv'
<1>0. TypeOK /\ photo \in [Photos -> Row] /\ ReqOK(r) /\ req[r] \in Request
      /\ used \subseteq Uploads /\ FreshOK(r)
  BY DEF QueueInv, KeyInv, TypeOK
<1>1. PICK p, k :
        /\ p \in Photos
        /\ k = req[r].new /\ k # None
        /\ photo'[p].life = "live" /\ photo'[p].key = k
        /\ \A q \in Photos \ {p} : photo'[q] = photo[q]
        /\ Finish(r) \/ p = req[r].id
  <2>1. CASE UploadInserts(r)
    <3>1. PICK p, type, k : p \in Photos /\ Insert(p, type, k) /\ k = req[r].new
      BY <2>1 DEF UploadInserts
    <3>2. PICK z : z = [life |-> "live", type |-> type, key |-> k, status |-> "NONE"]
      OBVIOUS
    <3>3. photo' = [photo EXCEPT ![p] = z] /\ z.life = "live" /\ z.key = k
      BY <3>1, <3>2 DEF Insert
    <3>4. k # None /\ Finish(r)
      BY <1>0, <2>1, <3>1 DEF UploadInserts, ReqOK, At
    <3>5. photo'[p].life = "live" /\ photo'[p].key = k /\ \A q \in Photos \ {p} : photo'[q] = photo[q]
      BY <1>0, <3>1, <3>3
    <3>. QED BY <3>1, <3>4, <3>5
  <2>2. CASE ReplaceWrites(r)
    <3>1. PICK p, type, k, z : /\ p = req[r].id /\ k = req[r].new /\ type = TypeAfter(r)
                            /\ z = [photo[p] EXCEPT !.type = type, !.key = k]
      OBVIOUS
    <3>2. photo' = [photo EXCEPT ![p] = z] /\ photo[p].life = "live"
      BY <2>2, <3>1 DEF ReplaceWrites, Live
    <3>3. p \in Photos /\ k # None
      BY <1>0, <2>2, <3>1 DEF ReplaceWrites, ReqOK, At
    <3>4. photo[p] \in Row
      BY <1>0, <3>3
    <3>5. z.life = "live" /\ z.key = k
      BY <3>1, <3>2, <3>4 DEF Row
    <3>6. photo'[p].life = "live" /\ photo'[p].key = k /\ \A q \in Photos \ {p} : photo'[q] = photo[q]
      BY <1>0, <3>2, <3>3, <3>5
    <3>. QED BY <3>1, <3>3, <3>6
  <2>. QED BY <2>1, <2>2
<1>2. UNCHANGED <<objects, used, doomed>> /\ req[r].at = "write"
  BY DEF UploadInserts, ReplaceWrites, At
<1>3. k \in used /\ k \in Uploads /\ k \in objects /\ \A q \in Photos : MigratedKey(q) # k
  BY <1>0, <1>1, <1>2, KeyFacts DEF FreshOK, Fresh
<1>4. /\ \A q \in Photos : photo[q].key # k
      /\ \A q \in Requests : req[q].seen # k
      /\ \A q \in Requests \ {r} : Fresh(q) => req[q].new # k
  BY <1>0, <1>1, <1>2 DEF FreshOK, Fresh
<1>5. /\ \A q \in Requests \ {r} : req'[q] = req[q]
      /\ ~Fresh(r)'
      /\ req'[r].seen # None =>
            req'[r].seen = req[r].seen /\ req'[r].id = req[r].id /\ req[r].id = p
  <2>1. CASE Finish(r)
    BY <1>0, <2>1, FinishTypes DEF Others, Fresh, Idle
  <2>2. CASE Move(r, "cleanup") /\ ~Finish(r)
    BY <1>0, <1>1, <2>2, MoveTypes DEF Others, Fresh
  <2>. QED BY <2>1, <2>2 DEF UploadInserts, ReplaceWrites
<1>6. ASSUME NEW q \in Photos
      PROVE  RowOK(q)'
  <2>1. CASE q = p
    BY <1>1, <1>2, <1>3, <1>4, <2>1 DEF RowOK
  <2>2. CASE q # p
    BY <1>1, <1>2, <1>4, <2>2 DEF KeyInv, RowOK, Copying
  <2>. QED BY <2>1, <2>2
<1>7. ASSUME NEW q \in Requests
      PROVE  FreshOK(q)'
  <2> SUFFICES ASSUME Fresh(q)'
               PROVE  FreshOK(q)'
    BY DEF FreshOK
  <2>1. q # r /\ Fresh(q) /\ FreshOK(q) /\ req'[q] = req[q] /\ req[q].new # k /\ req[q].new # None
    BY <1>4, <1>5 DEF Fresh, KeyInv
  <2>2. \A u \in Requests : req'[u].seen # req[q].new
    BY <1>5, <2>1 DEF FreshOK
  <2>3. \A u \in Requests \ {q} : Fresh(u)' => req'[u].new # req[q].new
    BY <1>5, <2>1 DEF FreshOK, Fresh
  <2>4. \A u \in Photos : photo'[u].key # req[q].new
    BY <1>1, <2>1 DEF FreshOK
  <2>. QED BY <1>2, <2>1, <2>2, <2>3, <2>4 DEF FreshOK
<1>8. ASSUME NEW q \in Requests
      PROVE  SeenOK(q)'
  <2> SUFFICES ASSUME req'[q].seen # None
               PROVE  SeenOK(q)'
    BY DEF SeenOK
  <2>1. req'[q].seen = req[q].seen /\ req'[q].id = req[q].id /\ SeenOK(q) /\ req[q].seen # k
        /\ (q # r => req'[q].at = req[q].at)
    BY <1>4, <1>5 DEF KeyInv
  <2>2. PICK i \in Photos : i = req[q].id
    BY <2>1 DEF SeenOK
  <2>3. photo'[i].life # "unborn" /\ (photo'[i].life = "live" => photo'[i].key # None)
    BY <1>1, <2>1, <2>2 DEF SeenOK
  <2>4. \A u \in Photos \ {i} : photo'[u].key # req[q].seen
    BY <1>1, <2>1, <2>2 DEF SeenOK
  <2>5. i \notin twice /\ req'[q].at = "cleanup" => photo'[i].key # req[q].seen
    <3>1. CASE i = p
      BY <1>1, <2>1, <3>1
    <3>2. CASE i # p
      <4>1. q # r
        BY <1>5, <2>2, <3>2
      <4>. QED BY <1>1, <2>1, <2>2, <3>2, <4>1 DEF SeenOK
    <3>. QED BY <3>1, <3>2
  <2>. QED BY <1>2, <2>1, <2>2, <2>3, <2>4, <2>5 DEF SeenOK, Copying
<1>9. \A w \in Workers : CopyOK(w)'
  BY <1>2 DEF KeyInv, CopyOK
<1>10. LossOnlyByDeletion'
  BY <1>1, <1>2, <1>3 DEF KeyInv, LossOnlyByDeletion, Live
<1>. QED BY <1>6, <1>7, <1>8, <1>9, <1>10 DEF KeyInv

\* A row that comes without a key, or goes.
LEMMA KeylessKeys ==
    ASSUME QueueInv, KeyInv, UNCHANGED <<mig, twice>>,
           CreateLegacy \/ \E r \in Requests : DeleteRow(r)
    PROVE  KeyInv'
<1>0. TypeOK /\ photo \in [Photos -> Row]
  BY DEF QueueInv, TypeOK
<1>1. PICK p \in Photos :
        /\ \A q \in Photos \ {p} : photo'[q] = photo[q]
        /\ \/ photo'[p] = photo[p]
           \/ photo'[p].key = None /\ (photo[p].life = "unborn" \/ photo'[p].life = "gone")
  <2>1. CASE CreateLegacy
    <3>1. PICK p, type, z :
            /\ p \in Photos
            /\ photo[p] = Unborn /\ photo' = [photo EXCEPT ![p] = z]
            /\ z = [life |-> "live", type |-> type, key |-> None, status |-> "NONE"]
      BY <2>1 DEF CreateLegacy, Insert
    <3>2. photo'[p].key = None /\ photo[p].life = "unborn" /\ \A q \in Photos \ {p} : photo'[q] = photo[q]
      BY <1>0, <3>1 DEF Unborn
    <3>. QED BY <3>1, <3>2
  <2>2. ASSUME NEW r \in Requests, DeleteRow(r)
        PROVE  \E p \in Photos :
                 /\ \A q \in Photos \ {p} : photo'[q] = photo[q]
                 /\ \/ photo'[p] = photo[p]
                    \/ photo'[p].key = None /\ photo'[p].life = "gone"
    <3>1. PICK p : p = req[r].id /\ (photo' = photo \/ photo' = [photo EXCEPT ![p] = Gone])
      BY <2>2 DEF DeleteRow
    <3>2. p \in Photos
      BY <2>2, <3>1 DEF QueueInv, ReqOK, DeleteRow, At
    <3>3. Gone.key = None /\ Gone.life = "gone"
      BY DEF Gone, Unborn
    <3>4. CASE photo' = photo
      BY <3>2, <3>4
    <3>5. CASE photo' = [photo EXCEPT ![p] = Gone]
      <4>1. photo'[p] = Gone /\ \A q \in Photos \ {p} : photo'[q] = photo[q]
        BY <1>0, <3>2, <3>5
      <4>. QED BY <3>2, <3>3, <4>1
    <3>. QED BY <3>1, <3>4, <3>5
  <2>. QED BY <2>1, <2>2
<1>2. UNCHANGED <<objects, used, doomed>>
  BY DEF CreateLegacy, DeleteRow
\* Requests keep their keys.
<1>3. ASSUME NEW q \in Requests
      PROVE  /\ Fresh(q)' => Fresh(q) /\ req'[q] = req[q]
             /\ req'[q].seen # None => req'[q] = req[q]
  <2>1. CASE UNCHANGED req
    BY <2>1 DEF Fresh
  <2>2. ASSUME NEW r \in Requests, Finish(r)
        PROVE  /\ Fresh(q)' => Fresh(q) /\ req'[q] = req[q]
               /\ req'[q].seen # None => req'[q] = req[q]
    <3>1. req'[r] = Idle /\ Others(r)
      BY <1>0, <2>2, FinishTypes
    <3>2. CASE q = r
      BY <3>1, <3>2 DEF Idle, Fresh
    <3>3. CASE q # r
      BY <3>1, <3>3 DEF Others, Fresh
    <3>. QED BY <3>2, <3>3
  <2>. QED BY <2>1, <2>2 DEF CreateLegacy, DeleteRow
<1>4. \A q \in Photos : photo'[q].key = None \/ photo'[q] = photo[q]
  BY <1>1
<1>5. ASSUME NEW q \in Photos
      PROVE  RowOK(q)'
  <2>1. CASE photo'[q].key = None
    BY <2>1, KeyFacts DEF RowOK
  <2>2. CASE photo'[q].key # None
    <3>1. photo'[q] = photo[q] /\ RowOK(q)
      BY <1>4, <2>2 DEF KeyInv
    <3>. QED BY <1>2, <1>4, <2>2, <3>1 DEF RowOK, Copying
  <2>. QED BY <2>1, <2>2
<1>6. ASSUME NEW q \in Requests
      PROVE  FreshOK(q)'
  <2> SUFFICES ASSUME Fresh(q)'
               PROVE  FreshOK(q)'
    BY DEF FreshOK
  <2>1. Fresh(q) /\ FreshOK(q) /\ req'[q] = req[q] /\ req[q].new # None
    BY <1>3 DEF Fresh, KeyInv
  <2>2. \A u \in Requests : req'[u].seen # req[q].new
    BY <1>3, <2>1 DEF FreshOK
  <2>3. \A u \in Requests \ {q} : Fresh(u)' => req'[u].new # req[q].new
    BY <1>3, <2>1 DEF FreshOK
  <2>4. \A u \in Photos : photo'[u].key # req[q].new
    BY <1>4, <2>1 DEF FreshOK
  <2>. QED BY <1>2, <2>1, <2>2, <2>3, <2>4 DEF FreshOK
<1>7. ASSUME NEW q \in Requests
      PROVE  SeenOK(q)'
  <2> SUFFICES ASSUME req'[q].seen # None
               PROVE  SeenOK(q)'
    BY DEF SeenOK
  <2>1. req'[q] = req[q] /\ SeenOK(q) /\ req[q].seen # None
    BY <1>3 DEF KeyInv
  <2>2. PICK i \in Photos : i = req[q].id
    BY <2>1 DEF SeenOK
  <2>3. photo'[i].life # "unborn" /\ (photo'[i].life = "live" => photo'[i].key # None)
    BY <1>1, <2>1, <2>2 DEF SeenOK
  <2>4. \A u \in Photos : photo[u].key # req[q].seen => photo'[u].key # req[q].seen
    BY <1>4, <2>1
  <2>. QED BY <1>2, <2>1, <2>2, <2>3, <2>4 DEF SeenOK, Copying
<1>8. \A w \in Workers : CopyOK(w)'
  BY <1>2 DEF KeyInv, CopyOK
<1>9. LossOnlyByDeletion'
  BY <1>2, <1>4 DEF KeyInv, LossOnlyByDeletion, Live
<1>. QED BY <1>5, <1>6, <1>7, <1>8, <1>9 DEF KeyInv

LEMMA ApiKeys == QueueInv /\ KeyInv /\ ApiStep => KeyInv'
<1> SUFFICES ASSUME QueueInv, KeyInv, ApiStep
             PROVE  KeyInv'
  OBVIOUS
<1>0. UNCHANGED <<mig, twice>>
  BY DEF ApiStep
<1>1. CASE CreateLegacy \/ \E r \in Requests : DeleteRow(r)
  BY <1>0, <1>1, KeylessKeys
<1>2. ASSUME NEW r \in Requests, RequestStep(r), ~DeleteRow(r)
      PROVE  KeyInv'
  BY <1>0, <1>2, RestKeys, RemoveSeenKeys, RollBackKeys, ReadKeys, StoreKeys, AdoptKeys
     DEF RequestStep
<1>. QED BY <1>1, <1>2 DEF ApiStep

-----------------------------------------------------------------------------
(* No object is lost: workers.                                              *)

\* Rows keep their keys, no object goes, no worker takes up copying.
LEMMA WorkerRestKeys ==
    ASSUME KeyInv, SameKeys, UNCHANGED <<used, req, doomed, twice>>, objects \subseteq objects',
           \A w \in Workers : mig'[w].at \in {"mark", "copy", "record"} =>
               mig'[w].id = mig[w].id /\ Copying(w),
           \A w \in Workers : mig'[w].at = "record" =>
               mig[w].at = "record" \/ MigratedKey(mig[w].id) \in objects'
    PROVE  KeyInv'
<1>1. \A p \in Photos : RowOK(p)'
  BY DEF KeyInv, SameKeys, RowOK, Copying
<1>2. \A r \in Requests : FreshOK(r)'
  BY DEF KeyInv, SameKeys, FreshOK, Fresh
<1>3. \A r \in Requests : SeenOK(r)'
  BY DEF KeyInv, SameKeys, SeenOK, Copying
<1>4. \A w \in Workers : CopyOK(w)'
  BY DEF KeyInv, CopyOK
<1>5. LossOnlyByDeletion'
  BY DEF KeyInv, SameKeys, LossOnlyByDeletion, Live
<1>. QED BY <1>1, <1>2, <1>3, <1>4, <1>5 DEF KeyInv

\* A worker that goes on from mark to copy to record, or does something else.
LEMMA WorkerGoesKeys ==
    ASSUME QueueInv, KeyInv, NEW w \in Workers,
           \/ Skips(w) \/ Marks(w) \/ Copies(w) \/ RecordFails(w) \/ CountsSuccess(w)
           \/ Breaks(w) \/ CountsFailure(w) \/ WorkerFails(w)
    PROVE  KeyInv'
<1>0. TypeOK /\ photo \in [Photos -> Row] /\ mig \in [Workers -> Migration]
  BY DEF QueueInv, TypeOK
<1>1. UNCHANGED <<used, req, doomed, twice>> /\ objects \subseteq objects'
  BY DEF Skips, Marks, Copies, RecordFails, CountsSuccess, Breaks, CountsFailure, WorkerFails, ReadFails,
         StatusNotWritten, WorkerDies, photoVars
<1>2. SameKeys
  <2>1. CASE UNCHANGED photo
    BY <2>1 DEF SameKeys
  <2>2. ASSUME NEW p, NEW status, SetStatus(p, status)
        PROVE  SameKeys
    BY <1>0, <2>2 DEF SetStatus, SameKeys, Row
  <2>. QED BY <2>1, <2>2
       DEF Skips, Marks, Copies, RecordFails, CountsSuccess, Breaks, CountsFailure, WorkerFails, ReadFails,
         StatusNotWritten, WorkerDies, photoVars
<1>3. \/ UNCHANGED mig
      \/ mig' = [mig EXCEPT ![w] = Free]
      \/ Step(w, "copy") /\ mig[w].at = "mark"
      \/ Step(w, "record") /\ mig[w].at = "copy" /\ MigratedKey(mig[w].id) \in objects'
      \/ Step(w, "count") \/ Step(w, "broken") \/ Step(w, "countFail")
  BY DEF Skips, Marks, Copies, RecordFails, CountsSuccess, Breaks, CountsFailure, WorkerFails, ReadFails,
         StatusNotWritten, WorkerDies, Done, Errs
<1>4. \A v \in Workers \ {w} : mig'[v] = mig[v]
  BY <1>0, <1>3, StepTypes, StopKeeps DEF MigKept
<1>5. mig'[w].at \in {"mark", "copy", "record"} =>
        /\ mig'[w].id = mig[w].id /\ Copying(w)
        /\ mig'[w].at = "record" => mig[w].at = "record" \/ MigratedKey(mig[w].id) \in objects'
  <2>1. CASE mig' = [mig EXCEPT ![w] = Free]
    <3>1. mig'[w].at = "-"
      BY <1>0, <2>1 DEF Free
    <3>. QED BY <3>1
  <2>2. CASE mig' # [mig EXCEPT ![w] = Free]
    BY <1>3, <2>2, StepTypes DEF Copying
  <2>. QED BY <2>1, <2>2
<1>6. \A v \in Workers : mig'[v].at \in {"mark", "copy", "record"} =>
        mig'[v].id = mig[v].id /\ Copying(v)
  BY <1>4, <1>5 DEF Copying
<1>7. \A v \in Workers : mig'[v].at = "record" =>
        mig[v].at = "record" \/ MigratedKey(mig[v].id) \in objects'
  BY <1>4, <1>5
<1>. QED BY <1>1, <1>2, <1>6, <1>7, WorkerRestKeys

\* A worker takes a photo that has no key.
LEMMA TakenKeys ==
    ASSUME QueueInv, KeyInv, NEW w \in Workers, Reads(w)
    PROVE  KeyInv'
<1>1. PICK p, m :
        /\ p \in Photos
        /\ Live(p) /\ photo[p].key = None
        /\ m = [at |-> "mark", id |-> p, prev |-> Restored(w, p)]
        /\ mig' = [mig EXCEPT ![w] = m]
        /\ twice' = IF \E v \in Workers \ {w} : mig[v].id = p THEN twice \cup {p} ELSE twice
        /\ UNCHANGED <<photo, objects, used, req, doomed>>
  BY DEF Reads
<1>2. mig'[w] = m /\ m.at = "mark" /\ m.id = p /\ \A v \in Workers \ {w} : mig'[v] = mig[v]
  BY <1>1 DEF QueueInv, TypeOK
<1>3. twice \subseteq twice'
  BY <1>1
<1>4. ASSUME NEW q \in Photos
      PROVE  RowOK(q)'
  <2>1. CASE q = p
    BY <1>1, <2>1, KeyFacts DEF RowOK
  <2>2. CASE q # p
    <3>1. \A v \in Workers : mig'[v].id = q => mig'[v] = mig[v]
      BY <1>2, <2>2
    <3>. QED BY <1>1, <1>3, <3>1 DEF KeyInv, RowOK, Copying
  <2>. QED BY <2>1, <2>2
<1>5. \A r \in Requests : FreshOK(r)'
  BY <1>1 DEF KeyInv, FreshOK, Fresh
<1>6. ASSUME NEW r \in Requests
      PROVE  SeenOK(r)'
  <2> SUFFICES ASSUME req[r].seen # None
               PROVE  SeenOK(r)'
    BY <1>1 DEF SeenOK
  <2>1. SeenOK(r) /\ req[r].id # p
    BY <1>1 DEF KeyInv, SeenOK, Live
  <2>2. \A v \in Workers : mig'[v].id = req[r].id => mig'[v] = mig[v]
    BY <1>2, <2>1
  <2>. QED BY <1>1, <1>3, <2>1, <2>2 DEF SeenOK, Copying
<1>7. \A v \in Workers : CopyOK(v)'
  BY <1>1, <1>2, <1>3 DEF KeyInv, CopyOK
<1>8. LossOnlyByDeletion'
  BY <1>1, <1>3 DEF KeyInv, LossOnlyByDeletion, Live
<1>. QED BY <1>4, <1>5, <1>6, <1>7, <1>8 DEF KeyInv

\* A worker names the migrated object in the row, which nobody is about to remove.
LEMMA RecordedKeys ==
    ASSUME QueueInv, KeyInv, NEW w \in Workers, Records(w)
    PROVE  KeyInv'
<1>0. TypeOK /\ photo \in [Photos -> Row] /\ mig \in [Workers -> Migration]
      /\ req \in [Requests -> Request] /\ used \subseteq Uploads /\ mig[w] # Free
  BY DEF QueueInv, TypeOK, Records, Free
<1>1. PICK p \in Photos : p = mig[w].id
  BY <1>0 DEF QueueInv, WorkerOK
<1>2. mig[w].at = "record" /\ photo[p].life = "live"
      /\ UNCHANGED <<objects, used, req, doomed, twice>>
  BY <1>1 DEF Records, Live
<1>3. PICK k, z : k = MigratedKey(p) /\ z = [photo[p] EXCEPT !.key = k, !.status = "SUCCEEDED"]
  OBVIOUS
<1>4. photo' = [photo EXCEPT ![p] = z]
  BY <1>1, <1>3 DEF Records
<1>5. photo[p] \in Row
  BY <1>0
<1>6. z.key = k /\ z.life = "live"
  BY <1>2, <1>3, <1>5 DEF Row
<1>7. photo'[p].key = k /\ photo'[p].life = "live" /\ \A q \in Photos \ {p} : photo'[q] = photo[q]
  BY <1>0, <1>4, <1>6
<1>8. k # None /\ k \notin Uploads /\ k \notin used /\ \A q \in Photos \ {p} : MigratedKey(q) # k
  BY <1>0, <1>3, KeyFacts
<1>9. /\ \A v \in Workers \ {w} : mig'[v] = mig[v]
      /\ mig'[w].at \notin {"mark", "copy", "record"}
  <2>1. CASE Step(w, "count")
    BY <2>1, StepTypes DEF MigKept
  <2>2. CASE mig' = [mig EXCEPT ![w] = Free]
    BY <1>0, <2>2 DEF Free
  <2>. QED BY <2>1, <2>2 DEF Records, Done
\* Another worker on the photo would make it one of twice.
<1>10. p \notin twice => \A v \in Workers : mig'[v].id = p => ~Copying(v)'
  <2> SUFFICES ASSUME p \notin twice, NEW v \in Workers \ {w}, mig[v].id = p, mig[v] # Free
               PROVE  FALSE
    BY <1>9 DEF Copying, Free
  <2>. QED BY <1>0, <1>1 DEF QueueInv, Meeting
<1>11. \A q \in Photos \ {p} : photo[q].key # k
  BY <1>8 DEF KeyInv, RowOK
<1>12. ASSUME NEW q \in Photos
       PROVE  RowOK(q)'
  <2>1. CASE q = p
    BY <1>2, <1>3, <1>7, <1>10, <1>11, <2>1 DEF RowOK
  <2>2. CASE q # p
    <3>1. photo'[q] = photo[q] /\ RowOK(q) /\ photo[q].key # k
      BY <1>7, <1>11, <2>2 DEF KeyInv
    <3>2. \A v \in Workers : mig'[v].id = q /\ Copying(v)' => mig[v].id = q /\ Copying(v)
      BY <1>9 DEF Copying
    <3>. QED BY <1>2, <1>7, <3>1, <3>2 DEF RowOK
  <2>. QED BY <2>1, <2>2
<1>13. \A r \in Requests : FreshOK(r)'
  <2>1. \A r \in Requests : req[r].new # k
    BY <1>0, <1>8 DEF Request
  <2>. QED BY <1>2, <1>7, <2>1 DEF KeyInv, FreshOK, Fresh
<1>14. ASSUME NEW r \in Requests
       PROVE  SeenOK(r)'
  <2> SUFFICES ASSUME req[r].seen # None
               PROVE  SeenOK(r)'
    BY <1>2 DEF SeenOK
  <2>1. SeenOK(r)
    BY DEF KeyInv
  <2>2. PICK i \in Photos : i = req[r].id
    BY <2>1 DEF SeenOK
  <2>3. \A v \in Workers : mig'[v].id = i /\ Copying(v)' => mig[v].id = i /\ Copying(v)
    BY <1>9 DEF Copying
  <2>4. photo'[i].life # "unborn" /\ (photo'[i].life = "live" => photo'[i].key # None)
    BY <1>7, <1>8, <2>1, <2>2 DEF SeenOK
  <2>5. \A q \in Photos \ {i} : photo'[q].key # req[r].seen
    <3>1. i # p => req[r].seen # k
      BY <1>8, <2>1, <2>2 DEF SeenOK
    <3>. QED BY <1>7, <2>1, <2>2, <3>1 DEF SeenOK
  <2>6. i \notin twice /\ req[r].at = "cleanup" => photo'[i].key # req[r].seen
    <3>1. CASE i = p
      <4>1. i \notin twice => req[r].seen # k
        BY <1>1, <1>2, <1>3, <2>1, <2>2, <3>1 DEF SeenOK, Copying
      <4>. QED BY <1>7, <3>1, <4>1
    <3>2. CASE i # p
      BY <1>7, <2>1, <2>2, <3>2 DEF SeenOK
    <3>. QED BY <3>1, <3>2
  <2>. QED BY <1>2, <2>1, <2>2, <2>3, <2>4, <2>5, <2>6 DEF SeenOK
<1>15. \A v \in Workers : CopyOK(v)'
  BY <1>2, <1>9 DEF KeyInv, CopyOK
<1>16. LossOnlyByDeletion'
  <2>1. p \notin doomed \cup twice => k \in objects
    BY <1>1, <1>2, <1>3 DEF KeyInv, CopyOK
  <2>. QED BY <1>2, <1>7, <2>1 DEF KeyInv, LossOnlyByDeletion, Live
<1>. QED BY <1>12, <1>13, <1>14, <1>15, <1>16 DEF KeyInv

LEMMA NextKeys == QueueInv /\ KeyInv /\ [Next]_vars => KeyInv'
<1> SUFFICES ASSUME QueueInv, KeyInv, [Next]_vars
             PROVE  KeyInv'
  OBVIOUS
<1>1. CASE ApiStep
  BY <1>1, ApiKeys
<1>2. CASE EnqueuePending \/ UNCHANGED vars
  <2>1. UNCHANGED <<photo, objects, used, req, doomed, mig, twice>>
    BY <1>2 DEF EnqueuePending, photoVars, vars
  <2>. QED BY <2>1, WorkerRestKeys DEF SameKeys, Copying
<1>3. ASSUME NEW w \in Workers, WorkerStep(w) \/ WorkerFails(w)
      PROVE  KeyInv'
  BY <1>3, WorkerGoesKeys, TakenKeys, RecordedKeys DEF WorkerStep
<1>. QED BY <1>1, <1>2, <1>3 DEF Next

LEMMA InitKeys == Init => KeyInv
<1> SUFFICES ASSUME Init
             PROVE  KeyInv
  OBVIOUS
<1>1. /\ req = [r \in Requests |-> Idle] /\ mig = [w \in Workers |-> Free]
      /\ \A p \in Photos : photo[p].key = None
  BY DEF Init, PhotosInit, Unborn
<1>2. \A p \in Photos : RowOK(p)
  BY <1>1, KeyFacts DEF RowOK
<1>3. \A r \in Requests : req[r].seen = None /\ req[r].new = None
  BY <1>1 DEF Idle
<1>4. \A w \in Workers : mig[w].at = "-"
  BY <1>1 DEF Free
<1>. QED BY <1>1, <1>2, <1>3, <1>4 DEF KeyInv, FreshOK, Fresh, SeenOK, CopyOK, LossOnlyByDeletion

-----------------------------------------------------------------------------
(* Smooth running: what the API does to a photo a worker has.               *)

\* A request writes the row it read, or inserts one, and never a migrated key.
RowsOf(i) ==
    \A p \in Photos :
        \/ photo'[p] = photo[p]
        \/ /\ p = i \/ photo[p].life = "unborn"
           /\ photo'[p].key \in Uploads \cup {None, photo[p].key}

LEMMA RequestRows == ASSUME QueueInv, NEW r \in Requests, RequestStep(r)
                     PROVE  RowsOf(req[r].id)
<1>0. TypeOK /\ photo \in [Photos -> Row] /\ req[r] \in Request
  BY DEF QueueInv, TypeOK
<1>1. CASE UNCHANGED photo
  BY <1>1 DEF RowsOf
<1>2. CASE UploadInserts(r)
  <2>1. PICK p, type, key, z :
          /\ photo[p] = Unborn /\ photo' = [photo EXCEPT ![p] = z] /\ key = req[r].new
          /\ z = [life |-> "live", type |-> type, key |-> key, status |-> "NONE"]
    BY <1>2 DEF UploadInserts, Insert
  <2>2. z.key \in Uploads \cup {None}
    BY <1>0, <2>1 DEF Request
  <2>3. Unborn.life = "unborn"
    BY DEF Unborn
  <2>. QED BY <1>0, <2>1, <2>2, <2>3 DEF RowsOf
<1>3. CASE UpdateWrites(r) \/ ReplaceWrites(r)
  <2>1. PICK p, type, key, y, z :
          /\ p = req[r].id /\ type = TypeAfter(r) /\ key = req[r].new
          /\ y = [photo[p] EXCEPT !.type = type] /\ z = [photo[p] EXCEPT !.type = type, !.key = key]
    OBVIOUS
  <2>2. photo' = [photo EXCEPT ![p] = y] \/ photo' = [photo EXCEPT ![p] = z]
    BY <1>3, <2>1 DEF UpdateWrites, ReplaceWrites
  <2>3. p \in Photos /\ photo[p] \in Row /\ key \in Uploads \cup {None}
    BY <1>0, <1>3, <2>1 DEF Request, QueueInv, ReqOK, UpdateWrites, ReplaceWrites, At
  <2>4. y.key = photo[p].key /\ z.key = key
    BY <2>1, <2>3 DEF Row
  <2>. QED BY <1>0, <2>1, <2>2, <2>3, <2>4 DEF RowsOf
<1>4. CASE DeleteRow(r)
  <2>1. PICK p : p = req[r].id /\ (photo' = photo \/ photo' = [photo EXCEPT ![p] = Gone])
    BY <1>4 DEF DeleteRow
  <2>2. Gone.key = None
    BY DEF Gone, Unborn
  <2>. QED BY <1>0, <2>1, <2>2 DEF RowsOf
<1>. QED BY <1>1, <1>2, <1>3, <1>4
     DEF RequestStep, UploadStores, UpdateReads, UpdateChecks, ReplaceReads, ReplaceStores,
         ReplaceNotStored, UploadNotStored, ReplaceCleansUp, WriteFails, RollBack, DeleteReads,
         DeleteRemovesObject, RequestDies

\* A request that begins on a photo at hand ends the smooth running.
LEMMA RequestSmooth ==
    ASSUME QueueInv, NEW r \in Requests, RequestStep(r)
    PROVE  /\ smooth' => smooth
           /\ \/ req'[r].id \in {req[r].id, None}
              \/ smooth' => \A w \in Workers : mig[w].id # req'[r].id
<1>0. TypeOK /\ mig \in [Workers -> Migration] /\ req \in [Requests -> Request]
  BY DEF QueueInv, TypeOK
<1>1. ASSUME UpdateReads(r) \/ ReplaceReads(r) \/ DeleteReads(r)
      PROVE  /\ smooth' => smooth
             /\ smooth' => \A w \in Workers : mig[w].id # req'[r].id
  <2>1. PICK p, z : /\ req' = [req EXCEPT ![r] = z] /\ z.id = p
                    /\ smooth' = (smooth /\ ~Meets(p, r))
    <3>1. CASE UpdateReads(r)
      <4>1. PICK p, type, z : /\ req' = [req EXCEPT ![r] = z]
                              /\ z = [Idle EXCEPT !.op = "update", !.at = "check", !.id = p, !.type = type]
                              /\ smooth' = (smooth /\ ~Meets(p, r))
        BY <3>1 DEF UpdateReads, Start
      <4>2. z.id = p
        BY <4>1 DEF Idle
      <4>. QED BY <4>1, <4>2
    <3>2. CASE ReplaceReads(r)
      <4>1. PICK p, type, k, z : /\ req' = [req EXCEPT ![r] = z]
                              /\ z = [Idle EXCEPT !.op = "replace", !.at = "store",
                                                  !.id = p, !.seen = k, !.type = type]
                              /\ smooth' = (smooth /\ ~Meets(p, r))
        BY <3>2 DEF ReplaceReads, Start
      <4>2. z.id = p
        BY <4>1 DEF Idle
      <4>. QED BY <4>1, <4>2
    <3>3. CASE DeleteReads(r)
      <4>1. PICK p, k, z : /\ req' = [req EXCEPT ![r] = z]
                           /\ z = [Idle EXCEPT !.op = "delete", !.at = "remove", !.id = p, !.seen = k]
                           /\ smooth' = (smooth /\ ~Meets(p, r))
        BY <3>3 DEF DeleteReads, Start
      <4>2. z.id = p
        BY <4>1 DEF Idle
      <4>. QED BY <4>1, <4>2
    <3>. QED BY <1>1, <3>1, <3>2, <3>3
  <2>2. req'[r].id = p
    BY <1>0, <2>1
  <2>3. smooth' => smooth /\ ~Meets(p, r)
    BY <2>1
  <2>4. DOMAIN mig = Workers
    BY <1>0
  <2>. QED BY <2>2, <2>3, <2>4 DEF Meets, Busy
<1>2. ASSUME ~(UpdateReads(r) \/ ReplaceReads(r) \/ DeleteReads(r))
      PROVE  smooth' => smooth
  <2>1. ASSUME NEW k, Deleted(k) \/ NotDeleted(k)
        PROVE  smooth' => smooth
    BY <1>0, <2>1, DeletedTypes
  <2>. QED BY <1>2, <2>1
       DEF RequestStep, UploadStores, UploadInserts, UpdateChecks, UpdateWrites, ReplaceStores,
           ReplaceNotStored, UploadNotStored, ReplaceWrites, ReplaceCleansUp, WriteFails, RollBack,
           DeleteRemovesObject, DeleteRow, RequestDies, CutShort, Calm
<1>3. ASSUME ~(UpdateReads(r) \/ ReplaceReads(r) \/ DeleteReads(r))
      PROVE  req'[r].id \in {req[r].id, None}
  <2>1. CASE Finish(r)
    BY <1>0, <2>1, FinishTypes DEF Idle
  <2>2. ASSUME NEW at \in {"check", "write", "rollback", "cleanup", "row"}, Move(r, at)
        PROVE  req'[r].id = req[r].id
    BY <1>0, <2>2, MoveTypes
  <2>3. CASE UploadStores(r)
    <3>1. PICK k, type, z : /\ req' = [req EXCEPT ![r] = z]
                            /\ z = [Idle EXCEPT !.op = "upload", !.at = "write", !.new = k, !.type = type]
      BY <2>3 DEF UploadStores, Start
    <3>2. z.id = None
      BY <3>1 DEF Idle
    <3>. QED BY <1>0, <3>1, <3>2
  <2>4. CASE ReplaceStores(r)
    <3>0. PICK k : req' = [req EXCEPT ![r] = [req[r] EXCEPT !.at = "check", !.new = k]]
      BY <2>4 DEF ReplaceStores
    <3>1. PICK z : /\ req' = [req EXCEPT ![r] = z] /\ z = [req[r] EXCEPT !.at = "check", !.new = k]
      BY <3>0
    <3>2. z.id = req[r].id
      BY <1>0, <3>1 DEF Request
    <3>. QED BY <1>0, <3>1, <3>2
  <2>5. CASE UploadNotStored(r)
    BY <2>5 DEF UploadNotStored
  <2>. QED BY <1>3, <2>1, <2>2, <2>3, <2>4, <2>5
       DEF RequestStep, UploadInserts, UpdateChecks, UpdateWrites, ReplaceNotStored,
           ReplaceWrites, ReplaceCleansUp, WriteFails, RollBack, DeleteRemovesObject,
           DeleteRow, RequestDies
<1>. QED BY <1>1, <1>2, <1>3

LEMMA LegacyRows == QueueInv /\ CreateLegacy => RowsOf(None) /\ UNCHANGED <<req, smooth>>
<1> SUFFICES ASSUME QueueInv, CreateLegacy
             PROVE  RowsOf(None) /\ UNCHANGED <<req, smooth>>
  OBVIOUS
<1>1. photo \in [Photos -> Row]
  BY DEF QueueInv, TypeOK
<1>2. PICK p, type, z :
        /\ photo[p] = Unborn /\ photo' = [photo EXCEPT ![p] = z]
        /\ z = [life |-> "live", type |-> type, key |-> None, status |-> "NONE"]
  BY DEF CreateLegacy, Insert
<1>3. z.key = None /\ Unborn.life = "unborn"
  BY <1>2 DEF Unborn
<1>4. RowsOf(None)
  BY <1>1, <1>2, <1>3 DEF RowsOf
<1>. QED BY <1>4 DEF CreateLegacy

LEMMA ApiSmooth == QueueInv /\ SmoothInv /\ ApiStep => SmoothInv'
<1> SUFFICES ASSUME QueueInv, SmoothInv, ApiStep, NEW w \in Workers, smooth', mig'[w] # Free
             PROVE  SmoothOK(w)'
  BY DEF SmoothInv, SmoothOK
<1>1. UNCHANGED <<mig, twice>>
  BY DEF ApiStep
<1>2. PICK p \in Photos : p = mig[w].id /\ photo[p].life # "unborn" /\ p # None
  BY <1>1, KeyFacts DEF QueueInv, WorkerOK
<1>3. CASE CreateLegacy
  <2>1. RowsOf(None) /\ UNCHANGED <<req, smooth>>
    BY <1>3, LegacyRows
  <2>2. photo'[p] = photo[p]
    BY <1>2, <2>1 DEF RowsOf
  <2>. QED BY <1>1, <1>2, <2>1, <2>2 DEF SmoothInv, SmoothOK, Copying
<1>4. ASSUME NEW r \in Requests, RequestStep(r)
      PROVE  SmoothOK(w)'
  <2>1. /\ RowsOf(req[r].id) /\ smooth
        /\ \/ req'[r].id \in {req[r].id, None}
           \/ \A v \in Workers : mig[v].id # req'[r].id
    BY <1>4, RequestRows, RequestSmooth
  <2>2. SmoothOK(w) /\ smooth /\ mig[w] # Free
    BY <1>1, <2>1 DEF SmoothInv
  <2>3. req[r].id # p /\ req'[r].id # p
    BY <1>2, <2>1, <2>2 DEF SmoothOK
  <2>4. photo'[p] = photo[p]
    BY <1>2, <2>1, <2>3 DEF RowsOf
  <2>5. \A q \in Requests \ {r} : req'[q] = req[q]
    BY <1>4, RequestTypes DEF ApiTypes, Others
  <2>. QED BY <1>1, <1>2, <2>2, <2>3, <2>4, <2>5 DEF SmoothOK, Copying
<1>. QED BY <1>3, <1>4 DEF ApiStep

\* Only Records writes a key, and only of the photo it has.
LEMMA WorkerRows ==
    ASSUME QueueInv, NEW w \in Workers, WorkerStep(w) \/ WorkerFails(w)
    PROVE  /\ \A p \in Photos :
                 \/ photo'[p].key = photo[p].key /\ photo'[p].life = photo[p].life
                 \/ Records(w) /\ p = mig[w].id
           /\ UNCHANGED req /\ (smooth' => smooth)
<1>0. photo \in [Photos -> Row]
  BY DEF QueueInv, TypeOK
<1>1. ASSUME NEW p, NEW status, SetStatus(p, status)
      PROVE  \A q \in Photos : photo'[q].key = photo[q].key /\ photo'[q].life = photo[q].life
  BY <1>0, <1>1 DEF SetStatus, Row
<1>2. ASSUME Records(w), NEW q \in Photos, q # mig[w].id
      PROVE  photo'[q] = photo[q]
  <2>1. PICK p, key, z : p = mig[w].id /\ key = MigratedKey(p)
                         /\ z = [photo[p] EXCEPT !.key = key, !.status = "SUCCEEDED"]
    OBVIOUS
  <2>2. photo' = [photo EXCEPT ![p] = z]
    BY <1>2, <2>1 DEF Records
  <2>. QED BY <1>0, <1>2, <2>1, <2>2
<1>3. \A p \in Photos :
        \/ photo'[p].key = photo[p].key /\ photo'[p].life = photo[p].life
        \/ Records(w) /\ p = mig[w].id
  BY <1>1, <1>2 DEF WorkerStep, Skips, Reads, Marks, Copies, RecordFails, CountsSuccess,
                    Breaks, CountsFailure, WorkerFails, ReadFails, StatusNotWritten, WorkerDies,
         photoVars
<1>4. UNCHANGED req
  BY DEF WorkerStep, Skips, Reads, Marks, Copies, Records, RecordFails, CountsSuccess,
         Breaks, CountsFailure, WorkerFails, ReadFails, StatusNotWritten, WorkerDies,
         photoVars
<1>5. smooth' => smooth
  <2>1. CASE Reads(w)
    BY <2>1 DEF Reads
  <2>2. CASE ~Reads(w)
    BY <2>2 DEF WorkerStep, Skips, Marks, Copies, Records, RecordFails, CountsSuccess,
                Breaks, CountsFailure, WorkerFails, ReadFails, StatusNotWritten, WorkerDies,
                CutShort, Calm, photoVars
  <2>. QED BY <2>1, <2>2
<1>. QED BY <1>3, <1>4, <1>5

LEMMA WorkerSmooth ==
    ASSUME QueueInv, SmoothInv, NEW w \in Workers, WorkerStep(w) \/ WorkerFails(w)
    PROVE  SmoothInv'
<1> SUFFICES ASSUME smooth', NEW v \in Workers, mig'[v] # Free
             PROVE  SmoothOK(v)'
  BY DEF SmoothInv, SmoothOK
<1>0. mig \in [Workers -> Migration] /\ \A u \in Workers \ {w} : mig'[u] = mig[u]
  <2>1. WorkerTypes(w)
    BY TakeTypes, GoTypes, StopTypes DEF WorkerStep, WorkerFails
  <2>. QED BY <2>1 DEF WorkerTypes, MigKept, QueueInv, TypeOK
<1>1. smooth /\ UNCHANGED req
  BY WorkerRows
<1>2. CASE Reads(w)
  <2>1. PICK p, m :
          /\ p \in Photos
          /\ photo[p].key = None /\ mig' = [mig EXCEPT ![w] = m]
          /\ m = [at |-> "mark", id |-> p, prev |-> Restored(w, p)]
          /\ smooth' = (smooth /\ ~Busy(p, Requests, Workers \ {w})) /\ UNCHANGED photo
    BY <1>2 DEF Reads
  <2>2. mig'[w].id = p
    BY <1>0, <2>1
  <2>3. (\A r \in Requests : req[r].id # p) /\ \A u \in Workers \ {w} : mig[u].id # p
    BY <2>1 DEF Busy
  <2>4. CASE v = w
    BY <1>0, <1>1, <2>1, <2>2, <2>3, <2>4 DEF SmoothOK
  <2>5. CASE v # w
    BY <1>0, <1>1, <2>1, <2>2, <2>3, <2>5 DEF SmoothInv, SmoothOK, Copying
  <2>. QED BY <2>4, <2>5
\* A worker keeps its photo, and copies only as long as it did.
<1>3. ASSUME ~Reads(w)
      PROVE  /\ mig'[w] # Free => mig[w] # Free /\ mig'[w].id = mig[w].id
             /\ Copying(w)' => Copying(w) /\ ~Records(w)
             /\ mig'[w].id \in {mig[w].id, None}
  <2>1. CASE UNCHANGED mig /\ mig[w] = Free
    BY <2>1 DEF Copying, Records, Free
  <2>2. CASE mig' = [mig EXCEPT ![w] = Free]
    BY <1>0, <2>2 DEF Free, Copying
  <2>3. ASSUME NEW at \in {"copy", "record", "count", "broken", "countFail"}, Step(w, at), mig[w] # Free,
               at \in {"copy", "record"} => Copying(w) /\ ~Records(w)
        PROVE  /\ mig[w] # Free /\ mig'[w].id = mig[w].id
               /\ Copying(w)' => Copying(w) /\ ~Records(w)
    BY <2>3, StepTypes DEF Copying
  <2>4. CASE Skips(w) \/ ReadFails(w)
    BY <2>1, <2>4 DEF Skips, ReadFails
  <2>5. CASE Done(w) \/ (\E cut \in BOOLEAN : Errs(w, cut)) \/ WorkerDies(w)
    BY <2>2, <2>5 DEF Done, Errs, WorkerDies
  <2>6. CASE Marks(w) \/ Copies(w) \/ Records(w) \/ RecordFails(w) \/ CountsSuccess(w) \/ Breaks(w)
    <3>1. mig[w] # Free
      <4>1. mig[w].at \in {"mark", "copy", "record", "count", "broken"}
        BY <2>6 DEF Marks, Copies, Records, RecordFails, CountsSuccess, Breaks
      <4>. QED BY <4>1 DEF Free
    <3>2. CASE Marks(w)
      BY <2>3, <2>5, <3>1, <3>2 DEF Marks, Copying, Records
    <3>3. CASE Copies(w)
      BY <2>3, <3>1, <3>3 DEF Copies, Copying, Records
    <3>4. CASE Records(w) \/ RecordFails(w) \/ CountsSuccess(w) \/ Breaks(w)
      BY <2>3, <2>5, <3>1, <3>4 DEF Records, RecordFails, CountsSuccess, Breaks
    <3>. QED BY <2>6, <3>2, <3>3, <3>4
  <2>. QED BY <1>3, <2>4, <2>5, <2>6 DEF WorkerStep, WorkerFails, CountsFailure, StatusNotWritten
<1>4. CASE ~Reads(w) /\ v = w
  <2>1. mig[w] # Free /\ mig'[w].id = mig[w].id /\ (Copying(w)' => Copying(w) /\ ~Records(w))
    BY <1>3, <1>4
  <2>2. mig[w].id \in Photos /\ SmoothOK(w)
    BY <2>1 DEF QueueInv, WorkerOK, SmoothInv
  <2>3. Copying(w)' /\ photo'[mig[w].id].life = "live" => photo'[mig[w].id].key = None
    BY <1>1, <2>1, <2>2, WorkerRows DEF SmoothOK
  <2>. QED BY <1>0, <1>1, <1>4, <2>1, <2>2, <2>3 DEF SmoothOK
<1>5. CASE ~Reads(w) /\ v # w
  <2>1. mig'[v] = mig[v] /\ mig[v] # Free /\ SmoothOK(v) /\ mig[v].id \in Photos /\ mig[v].id # None
    BY <1>0, <1>5, KeyFacts DEF SmoothInv, QueueInv, WorkerOK
  <2>2. mig[w].id # mig[v].id /\ mig'[w].id # mig[v].id
    BY <1>1, <1>3, <1>5, <2>1 DEF SmoothOK
  <2>3. Copying(v) /\ photo'[mig[v].id].life = "live" => photo'[mig[v].id].key = None
    BY <1>1, <2>1, <2>2, WorkerRows DEF SmoothOK
  <2>. QED BY <1>0, <1>1, <2>1, <2>2, <2>3 DEF SmoothOK, Copying
<1>. QED BY <1>2, <1>4, <1>5

LEMMA NextSmooth == QueueInv /\ SmoothInv /\ [Next]_vars => SmoothInv'
<1> SUFFICES ASSUME QueueInv, SmoothInv, [Next]_vars
             PROVE  SmoothInv'
  OBVIOUS
<1>1. CASE ApiStep
  BY <1>1, ApiSmooth
<1>2. CASE EnqueuePending \/ UNCHANGED vars
  <2>1. UNCHANGED <<photo, req, mig, smooth>>
    BY <1>2 DEF EnqueuePending, photoVars, vars
  <2>. QED BY <2>1 DEF SmoothInv, SmoothOK, Copying
<1>3. ASSUME NEW w \in Workers, WorkerStep(w) \/ WorkerFails(w)
      PROVE  SmoothInv'
  BY <1>3, WorkerSmooth
<1>. QED BY <1>1, <1>2, <1>3 DEF Next

\* A migrated key over an uploaded one is written by a worker that was not alone.
LEMMA RetakeStep ==
    ASSUME QueueInv, SmoothInv, [Next]_vars, NEW p \in Photos,
           photo[p].key \in Uploads, photo'[p].key = MigratedKey(p)
    PROVE  ~smooth
<1>0. photo'[p] # photo[p] /\ photo'[p].key \notin Uploads \cup {None, photo[p].key}
  BY KeyFacts
<1>1. CASE ApiStep
  <2>1. \E i : RowsOf(i)
    BY <1>1, RequestRows, LegacyRows DEF ApiStep
  <2>. QED BY <1>0, <2>1 DEF RowsOf
<1>2. CASE EnqueuePending \/ UNCHANGED vars
  BY <1>0, <1>2 DEF EnqueuePending, photoVars, vars
<1>3. ASSUME NEW w \in Workers, WorkerStep(w) \/ WorkerFails(w)
      PROVE  ~smooth
  <2>1. Records(w) /\ p = mig[w].id
    BY <1>0, <1>3, WorkerRows
  <2>2. mig[w].at = "record" /\ photo[p].life = "live" /\ mig[w] # Free
    BY <2>1 DEF Records, Live, Free
  <2>. QED BY <2>1, <2>2, KeyFacts DEF SmoothInv, SmoothOK, Copying
<1>. QED BY <1>1, <1>2, <1>3 DEF Next

-----------------------------------------------------------------------------
(* The theorems.                                                            *)

IInv == QueueInv /\ KeyInv /\ SmoothInv

LEMMA InitInv == Init => IInv
<1> SUFFICES ASSUME Init
             PROVE  IInv
  OBVIOUS
<1>1. mig = [w \in Workers |-> Free]
  BY DEF Init
<1>2. SmoothInv
  BY <1>1 DEF SmoothInv, SmoothOK
<1>. QED BY <1>2, InitQueue, InitKeys DEF IInv

LEMMA NextInv == IInv /\ [Next]_vars => IInv'
  BY NextQueue, NextKeys, NextSmooth DEF IInv

LEMMA AlwaysInv == Spec => []IInv
  BY InitInv, NextInv, PTL DEF Spec

\* Rows, objects, requests, workers and jobs stay well formed: an attempt count never
\* passes its bounds, a stalled job is handed out at most MaxStalls times.
THEOREM TypeCorrect == Spec => []TypeOK
<1>1. IInv => TypeOK
  BY DEF IInv, QueueInv
<1>. QED BY <1>1, AlwaysInv, PTL

\* A row keeps its object unless a deletion asked for it to go, or two migrations were
\* at work on the photo: no clean-up, rollback or failure of replace, upload or the
\* migration removes an object that a row names, or leaves a row with a key it removed.
THEOREM LossNeedsDeletion == Spec => []LossOnlyByDeletion
<1>1. IInv => LossOnlyByDeletion
  BY DEF IInv, KeyInv
<1>. QED BY <1>1, AlwaysInv, PTL

\* As long as no two operations met on one photo and none was cut short, no migration
\* puts the imported image over one that was uploaded.
THEOREM RetakeKept == Spec => RetakeStays
<1>1. IInv /\ [Next]_vars =>
        [\A p \in Photos :
            photo[p].key \in Uploads /\ photo'[p].key = MigratedKey(p) => ~smooth]_vars
  BY RetakeStep DEF IInv
<1>. QED BY <1>1, AlwaysInv, PTL DEF Spec, RetakeStays
=============================================================================
