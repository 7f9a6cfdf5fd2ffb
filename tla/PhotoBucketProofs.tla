-------------------------- MODULE PhotoBucketProofs --------------------------
(***************************************************************************)
(* TLAPS proofs about the bucket of PhotoStore: while operations keep out  *)
(* of each other's way, every object is owned, by a row, by the request    *)
(* that has stored or superseded it or by the worker that has copied it,   *)
(* and every owned key is stored; at rest only the rows own any.           *)
(***************************************************************************)
EXTENDS PhotoStoreProofs

\* The fields a request carries at each point of its code.
Shape(r) ==
    /\ req[r].op = "idle" => req[r] = Idle
    /\ req[r].op = "upload" =>
          req[r].at \in {"write", "rollback"} /\ req[r].id = None /\ req[r].seen = None
    /\ req[r].op = "update" =>
          req[r].at \in {"check", "write"} /\ req[r].seen = None /\ req[r].new = None
    /\ req[r].op = "replace" =>
          req[r].at \in {"store", "check", "write", "rollback", "cleanup"}
    /\ req[r].op = "replace" /\ req[r].at = "store" => req[r].new = None
    /\ req[r].op = "delete" => req[r].at \in {"remove", "row"} /\ req[r].new = None

\* In smooth running a request is alone with its photo, and the key it has read is
\* still the row's until the request itself supersedes it.
Alone(r) == smooth =>
    /\ req[r].id # None => \A q \in Requests \ {r} : req[q].id # req[r].id
    /\ req[r].op \in {"replace", "delete"} /\ req[r].at # "cleanup" =>
          photo[req[r].id].key = req[r].seen
    /\ req[r].seen # None => \A q \in Requests \ {r} : req[q].seen # req[r].seen

\* Who is to keep or to remove the object of key k.
Erases(r, p) == At(r, "delete", "row") /\ req[r].id = p
RowOwns(p, k) == photo[p].key = k /\ \A r \in Requests : ~Erases(r, p)
ReqOwns(r, k) == (Fresh(r) /\ req[r].new = k) \/ (req[r].at = "cleanup" /\ req[r].seen = k)
CopyOwns(w, k) == mig[w].at = "record" /\ MigratedKey(mig[w].id) = k

Owned(k) == \/ \E p \in Photos : RowOwns(p, k)
            \/ \E r \in Requests : ReqOwns(r, k)
            \/ \E w \in Workers : CopyOwns(w, k)

Bucket == smooth => \A k \in Keys : k \in objects <=> Owned(k)

BInv ==
    /\ smooth => twice = {}
    /\ \A r \in Requests : Shape(r)
    /\ \A r \in Requests : Alone(r)
    /\ Bucket

-----------------------------------------------------------------------------
(* What the steps of a request do to the request.                           *)

Begins(r) == UpdateReads(r) \/ ReplaceReads(r) \/ DeleteReads(r)

\* A request that begins has read the row of a photo, which nobody else is at in
\* smooth running.
LEMMA BeginsAt ==
    ASSUME QueueInv, NEW r \in Requests, Begins(r)
    PROVE  /\ req[r] = Idle /\ UNCHANGED <<photo, objects, used, doomed>>
           /\ \E p \in Photos :
                /\ Live(p) /\ req'[r].id = p /\ req'[r].new = None
                /\ smooth' => \A q \in Requests \ {r} : req[q].id # p
                /\ \/ req'[r].op = "update" /\ req'[r].at = "check" /\ req'[r].seen = None
                   \/ /\ req'[r].op = "replace" /\ req'[r].at = "store"
                      /\ req'[r].seen = photo[p].key
                   \/ /\ req'[r].op = "delete" /\ req'[r].at = "remove"
                      /\ req'[r].seen = photo[p].key
<1>0. req \in [Requests -> Request]
  BY DEF QueueInv, TypeOK
<1>1. req[r] = Idle /\ UNCHANGED <<photo, objects, used, doomed>>
  BY DEF Begins, UpdateReads, ReplaceReads, DeleteReads, Start
<1>2. \A p : (smooth' = (smooth /\ ~Meets(p, r))) =>
               (smooth' => \A q \in Requests \ {r} : req[q].id # p)
  BY DEF Meets, Busy
<1>3. CASE UpdateReads(r)
  <2>1. PICK p, type, z :
          /\ p \in Photos /\ Live(p) /\ smooth' = (smooth /\ ~Meets(p, r))
          /\ req' = [req EXCEPT ![r] = z]
          /\ z = [Idle EXCEPT !.op = "update", !.at = "check", !.id = p, !.type = type]
    BY <1>3 DEF UpdateReads, Start
  <2>2. z.op = "update" /\ z.at = "check" /\ z.id = p /\ z.seen = None /\ z.new = None
    BY <2>1 DEF Idle
  <2>3. req'[r] = z
    BY <1>0, <2>1
  <2>4. smooth' => \A q \in Requests \ {r} : req[q].id # p
    BY <1>2, <2>1
  <2>. QED BY <1>1, <2>1, <2>2, <2>3, <2>4
<1>4. CASE ReplaceReads(r)
  <2>0. PICK p \in Photos, type \in PhotoTypes \cup {None} :
          /\ Live(p) /\ smooth' = (smooth /\ ~Meets(p, r))
          /\ req' = [req EXCEPT ![r] = [Idle EXCEPT !.op = "replace", !.at = "store",
                                     !.id = p, !.seen = photo[p].key, !.type = type]]
    BY <1>4 DEF ReplaceReads, Start
  <2>1. PICK k, z : /\ k = photo[p].key
                    /\ z = [Idle EXCEPT !.op = "replace", !.at = "store", !.id = p,
                                        !.seen = k, !.type = type]
    OBVIOUS
  <2>2. z.op = "replace" /\ z.at = "store" /\ z.id = p /\ z.seen = k /\ z.new = None
    BY <2>1 DEF Idle
  <2>3. req'[r] = z
    BY <1>0, <2>0, <2>1
  <2>4. smooth' => \A q \in Requests \ {r} : req[q].id # p
    BY <1>2, <2>0
  <2>. QED BY <1>1, <2>0, <2>1, <2>2, <2>3, <2>4
<1>5. CASE DeleteReads(r)
  <2>0. PICK p \in Photos :
          /\ Live(p) /\ smooth' = (smooth /\ ~Meets(p, r))
          /\ req' = [req EXCEPT ![r] = [Idle EXCEPT !.op = "delete", !.at = "remove",
                                     !.id = p, !.seen = photo[p].key]]
    BY <1>5 DEF DeleteReads, Start
  <2>1. PICK k, z : /\ k = photo[p].key
                    /\ z = [Idle EXCEPT !.op = "delete", !.at = "remove", !.id = p, !.seen = k]
    OBVIOUS
  <2>2. z.op = "delete" /\ z.at = "remove" /\ z.id = p /\ z.seen = k /\ z.new = None
    BY <2>1 DEF Idle
  <2>3. req'[r] = z
    BY <1>0, <2>0, <2>1
  <2>4. smooth' => \A q \in Requests \ {r} : req[q].id # p
    BY <1>2, <2>0
  <2>. QED BY <1>1, <2>0, <2>1, <2>2, <2>3, <2>4
<1>. QED BY <1>3, <1>4, <1>5 DEF Begins

\* The two requests that store an object, under a key drawn for them.
LEMMA StoresAt ==
    ASSUME QueueInv, NEW r \in Requests, UploadStores(r) \/ ReplaceStores(r)
    PROVE  \E k \in Uploads \ used :
             /\ objects' = objects \cup {k} /\ UNCHANGED <<photo, smooth>>
             /\ req'[r].new = k /\ req'[r].id = req[r].id /\ req'[r].seen = req[r].seen
             /\ \/ /\ UploadStores(r) /\ req[r] = Idle
                   /\ req'[r].op = "upload" /\ req'[r].at = "write"
                \/ /\ At(r, "replace", "store")
                   /\ req'[r].op = "replace" /\ req'[r].at = "check"
<1>0. req \in [Requests -> Request] /\ req[r] \in Request
  BY DEF QueueInv, TypeOK
<1>1. CASE UploadStores(r)
  <2>1. PICK k, type, z :
          /\ k \in Uploads \ used /\ objects' = objects \cup {k} /\ UNCHANGED <<photo, smooth>>
          /\ req[r] = Idle /\ req' = [req EXCEPT ![r] = z]
          /\ z = [Idle EXCEPT !.op = "upload", !.at = "write", !.new = k, !.type = type]
    BY <1>1 DEF UploadStores, UploadImage, Start
  <2>2. z.op = "upload" /\ z.at = "write" /\ z.new = k /\ z.id = Idle.id /\ z.seen = Idle.seen
    BY <2>1 DEF Idle
  <2>. QED BY <1>0, <1>1, <2>1, <2>2
<1>2. CASE ReplaceStores(r)
  <2>0. PICK k \in Uploads :
          /\ k \in Uploads \ used /\ objects' = objects \cup {k} /\ UNCHANGED <<photo, smooth>>
          /\ At(r, "replace", "store")
          /\ req' = [req EXCEPT ![r] = [req[r] EXCEPT !.at = "check", !.new = k]]
    BY <1>2 DEF ReplaceStores, UploadImage
  <2>1. PICK z : z = [req[r] EXCEPT !.at = "check", !.new = k]
    OBVIOUS
  <2>2. /\ z.op = "replace" /\ z.at = "check" /\ z.new = k
        /\ z.id = req[r].id /\ z.seen = req[r].seen
    BY <1>0, <2>0, <2>1 DEF Request, At
  <2>. QED BY <1>0, <2>0, <2>1, <2>2
<1>. QED BY <1>1, <1>2

\* Every other step ends the request or takes it further with what it carries.
LEMMA GoesAt ==
    ASSUME QueueInv, NEW r \in Requests, RequestStep(r), ~Begins(r),
           ~UploadStores(r), ~ReplaceStores(r)
    PROVE  \/ req'[r] = Idle
           \/ /\ req'[r].op = req[r].op /\ req'[r].id = req[r].id
              /\ req'[r].seen = req[r].seen /\ req'[r].new = req[r].new
              /\ \/ /\ UpdateChecks(r) /\ req'[r].at = "write"
                    /\ req[r].op \in {"update", "replace"} /\ req[r].at = "check"
                 \/ /\ WriteFails(r) /\ req'[r].at = "rollback"
                    /\ req[r].op # "update" /\ req[r].at \in {"check", "write"}
                 \/ /\ ReplaceWrites(r) /\ req'[r].at = "cleanup"
                    /\ At(r, "replace", "write")
                 \/ /\ DeleteRemovesObject(r) /\ req'[r].at = "row"
                    /\ At(r, "delete", "remove")
<1>0. TypeOK
  BY DEF QueueInv
<1>1. CASE Finish(r)
  BY <1>0, <1>1, FinishTypes
<1>2. CASE UpdateChecks(r)
  BY <1>0, <1>2, MoveTypes DEF UpdateChecks
<1>3. CASE WriteFails(r)
  <2>1. /\ req[r].at \in {"check", "write"}
        /\ Finish(r) \/ (req[r].op # "update" /\ Move(r, "rollback"))
    BY <1>3 DEF WriteFails
  <2>. QED BY <1>0, <1>1, <1>3, <2>1, MoveTypes
<1>4. CASE ReplaceWrites(r)
  <2>1. At(r, "replace", "write") /\ (Finish(r) \/ Move(r, "cleanup"))
    BY <1>4 DEF ReplaceWrites
  <2>. QED BY <1>0, <1>1, <1>4, <2>1, MoveTypes
<1>5. CASE DeleteRemovesObject(r)
  <2>1. At(r, "delete", "remove") /\ (Finish(r) \/ Move(r, "row"))
    BY <1>5 DEF DeleteRemovesObject
  <2>. QED BY <1>0, <1>1, <1>5, <2>1, MoveTypes
<1>7. CASE UploadNotStored(r)
  BY <1>7 DEF UploadNotStored
<1>6. Finish(r) \/ UploadNotStored(r) \/ UpdateChecks(r) \/ WriteFails(r) \/ ReplaceWrites(r) \/ DeleteRemovesObject(r)
  BY DEF RequestStep, Begins, UploadInserts, UpdateWrites, ReplaceNotStored, ReplaceCleansUp,
         RollBack, DeleteRow, RequestDies
<1>. QED BY <1>1, <1>2, <1>3, <1>4, <1>5, <1>6, <1>7

LEMMA IdleFields == /\ Idle.op = "idle" /\ Idle.at = "-" /\ Idle.id = None
                    /\ Idle.seen = None /\ Idle.new = None
  BY DEF Idle

LEMMA ShapeKept ==
    ASSUME QueueInv, NEW r \in Requests, RequestStep(r), \A q \in Requests : Shape(q)
    PROVE  \A q \in Requests : Shape(q)'
<1>1. \A q \in Requests \ {r} : Shape(q)'
  BY RequestTypes DEF ApiTypes, Others, Shape
<1>2. Shape(r)'
  <2>1. CASE Begins(r)
    BY <2>1, BeginsAt DEF Shape
  <2>2. CASE UploadStores(r) \/ ReplaceStores(r)
    BY <2>2, StoresAt, IdleFields DEF Shape
  <2>3. CASE req'[r] = Idle
    BY <2>3, IdleFields DEF Shape
  <2>4. CASE ~Begins(r) /\ ~UploadStores(r) /\ ~ReplaceStores(r) /\ req'[r] # Idle
    BY <2>4, GoesAt, IdleFields DEF Shape, At
  <2>. QED BY <2>1, <2>2, <2>3, <2>4
<1>. QED BY <1>1, <1>2

-----------------------------------------------------------------------------
(* Requests stay alone with their photos.                                   *)

\* What a request carries after a step, beside what it carried before.
LEMMA CarriedOn ==
    ASSUME QueueInv, NEW r \in Requests, RequestStep(r)
    PROVE  \/ req'[r].id = None /\ req'[r].seen = None /\ req'[r].op \in {"idle", "upload"}
           \/ /\ req'[r].id = req[r].id /\ req'[r].seen = req[r].seen
              /\ \/ UNCHANGED photo /\ req'[r].op = req[r].op /\ req[r].at # "cleanup"
                 \/ req'[r].at = "cleanup"
                 \/ req'[r].op \notin {"replace", "delete"}
           \/ \E p \in Photos :
                /\ Live(p) /\ UNCHANGED photo /\ req'[r].id = p
                /\ smooth' => \A q \in Requests \ {r} : req[q].id # p
                /\ req'[r].seen \in {None, photo[p].key}
                /\ req'[r].op \in {"replace", "delete"} => req'[r].seen = photo[p].key
<1>1. CASE Begins(r)
  BY <1>1, BeginsAt
<1>2. CASE UploadStores(r) \/ ReplaceStores(r)
  BY <1>2, StoresAt, IdleFields DEF At
<1>3. CASE req'[r] = Idle
  BY <1>3, IdleFields
<1>4. CASE ~Begins(r) /\ ~UploadStores(r) /\ ~ReplaceStores(r) /\ req'[r] # Idle
  <2>1. UpdateChecks(r) \/ WriteFails(r) \/ DeleteRemovesObject(r) => UNCHANGED photo
    BY DEF UpdateChecks, WriteFails, DeleteRemovesObject
  <2>. QED BY <1>4, <2>1, GoesAt DEF At
<1>. QED BY <1>1, <1>2, <1>3, <1>4

LEMMA AloneKept ==
    ASSUME IInv, BInv, NEW r \in Requests, RequestStep(r)
    PROVE  \A q \in Requests : Alone(q)'
<1> SUFFICES ASSUME smooth', NEW q \in Requests
             PROVE  Alone(q)'
  BY DEF Alone
<1>0. /\ QueueInv /\ smooth /\ Others(r) /\ RowsOf(req[r].id)
      /\ \A s \in Requests : Alone(s) /\ ReqOK(s) /\ SeenOK(s) /\ Shape(s)
  BY RequestTypes, RequestSmooth, RequestRows DEF IInv, BInv, QueueInv, ApiTypes, KeyInv
<1>1. \A s \in Requests \ {r} : req[s].id # None => req'[r].id # req[s].id
  BY <1>0, CarriedOn DEF Alone
<1>2. \A s \in Requests \ {r} : req[s].seen # None => req'[r].seen # req[s].seen
  BY <1>0, CarriedOn DEF Alone, SeenOK
<1>3. CASE q # r
  <2>1. req'[q] = req[q]
    BY <1>0, <1>3 DEF Others
  <2>2. ASSUME req[q].id # None, NEW s \in Requests \ {q}
        PROVE  req'[s].id # req[q].id
    BY <1>0, <1>1, <1>3, <2>2 DEF Others, Alone
  <2>3. ASSUME req[q].seen # None, NEW s \in Requests \ {q}
        PROVE  req'[s].seen # req[q].seen
    BY <1>0, <1>2, <1>3, <2>3 DEF Others, Alone
  <2>4. ASSUME req[q].op \in {"replace", "delete"}, req[q].at # "cleanup"
        PROVE  photo'[req[q].id].key = req[q].seen
    <3>1. req[q].id \in Photos /\ photo[req[q].id].life # "unborn" /\ req[q].id # None
      BY <1>0, <2>4, KeyFacts DEF ReqOK
    <3>2. req[r].id # req[q].id
      BY <1>0, <1>3, <3>1 DEF Alone
    <3>3. photo'[req[q].id] = photo[req[q].id]
      BY <1>0, <3>1, <3>2 DEF RowsOf
    <3>. QED BY <1>0, <2>4, <3>3 DEF Alone
  <2>. QED BY <2>1, <2>2, <2>3, <2>4 DEF Alone
<1>4. CASE q = r
  <2>1. ASSUME req'[r].id # None, NEW s \in Requests \ {r}
        PROVE  req'[s].id # req'[r].id
    BY <1>0, <1>1, <2>1 DEF Others
  <2>2. ASSUME req'[r].seen # None, NEW s \in Requests \ {r}
        PROVE  req'[s].seen # req'[r].seen
    BY <1>0, <1>2, <2>2 DEF Others
  <2>3. ASSUME req'[r].op \in {"replace", "delete"}, req'[r].at # "cleanup"
        PROVE  photo'[req'[r].id].key = req'[r].seen
    BY <1>0, <2>3, CarriedOn DEF Alone
  <2>. QED BY <1>4, <2>1, <2>2, <2>3 DEF Alone
<1>. QED BY <1>3, <1>4

-----------------------------------------------------------------------------
(* The bucket: what a request's step changes of who owns a key.             *)

\* Owners that a step of request r leaves alone, and the others.
Apart(r, k) == \/ \E q \in Requests \ {r} : ReqOwns(q, k)
               \/ \E w \in Workers : CopyOwns(w, k)
Mine(r, k) == (\E p \in Photos : RowOwns(p, k)) \/ ReqOwns(r, k)

LEMMA OwnedSplit == \A r \in Requests : \A k : Owned(k) <=> Mine(r, k) \/ Apart(r, k)
  BY DEF Owned, Mine, Apart

LEMMA ApartStays ==
    ASSUME NEW r \in Requests, Others(r), UNCHANGED mig
    PROVE  \A k : Apart(r, k)' <=> Apart(r, k)
  BY DEF Others, Apart, ReqOwns, Fresh, CopyOwns

\* One object k comes, goes or stays, and so does its owner.
LEMMA BucketAdds ==
    ASSUME Bucket, smooth, NEW r \in Requests, Others(r), UNCHANGED mig, NEW k,
           objects' = objects \cup {k},
           \A j \in Keys : Mine(r, j)' <=> Mine(r, j) \/ j = k
    PROVE  Bucket'
<1>1. \A j \in Keys : Owned(j)' <=> Owned(j) \/ j = k
  <2>1. \A j : Owned(j)' <=> Mine(r, j)' \/ Apart(r, j)'
    BY DEF Owned, Mine, Apart
  <2>. QED BY <2>1, OwnedSplit, ApartStays
<1>2. \A j \in Keys : j \in objects <=> Owned(j)
  BY DEF Bucket
<1>3. Keys' = Keys
  BY DEF Keys, MigratedKey
<1>. QED BY <1>1, <1>2, <1>3 DEF Bucket

LEMMA BucketStays ==
    ASSUME Bucket, smooth, NEW r \in Requests, Others(r), UNCHANGED <<mig, objects>>,
           \A j \in Keys : Mine(r, j)' <=> Mine(r, j)
    PROVE  Bucket'
<1>1. \A j \in Keys : Owned(j)' <=> Owned(j)
  <2>1. \A j : Owned(j)' <=> Mine(r, j)' \/ Apart(r, j)'
    BY DEF Owned, Mine, Apart
  <2>. QED BY <2>1, OwnedSplit, ApartStays
<1>2. \A j \in Keys : j \in objects <=> Owned(j)
  BY DEF Bucket
<1>3. Keys' = Keys
  BY DEF Keys, MigratedKey
<1>. QED BY <1>1, <1>2, <1>3 DEF Bucket

LEMMA BucketDrops ==
    ASSUME Bucket, smooth, NEW r \in Requests, Others(r), UNCHANGED mig, NEW k,
           objects' = objects \ {k}, k \in Keys => ~Apart(r, k),
           \A j \in Keys : Mine(r, j)' <=> Mine(r, j) /\ j # k
    PROVE  Bucket'
<1>1. \A j \in Keys : Owned(j)' <=> Owned(j) /\ j # k
  <2>1. \A j : Owned(j)' <=> Mine(r, j)' \/ Apart(r, j)'
    BY DEF Owned, Mine, Apart
  <2>. QED BY <2>1, OwnedSplit, ApartStays
<1>2. \A j \in Keys : j \in objects <=> Owned(j)
  BY DEF Bucket
<1>3. Keys' = Keys
  BY DEF Keys, MigratedKey
<1>. QED BY <1>1, <1>2, <1>3 DEF Bucket

\* A step that rewrites no key and is not a deletion's leaves the rows' keys theirs.
LEMMA RowsOwn ==
    ASSUME NEW r \in Requests, Others(r), SameKeys, ~At(r, "delete", "row"),
           ~At(r, "delete", "row")'
    PROVE  \A j : (\E p \in Photos : RowOwns(p, j))' <=> \E p \in Photos : RowOwns(p, j)
<1>1. \A q \in Requests : \A p : Erases(q, p)' <=> Erases(q, p)
  BY DEF Others, Erases, At
<1>2. \A p \in Photos : photo'[p].key = photo[p].key
  BY DEF SameKeys
<1>3. \A j : \A p \in Photos : RowOwns(p, j)' <=> RowOwns(p, j)
  BY <1>1, <1>2 DEF RowOwns
<1>. QED BY <1>3

\* The key a request has read or stored is nobody else's.
LEMMA ReadApart ==
    ASSUME IInv, BInv, smooth, NEW r \in Requests, req[r].seen # None
    PROVE  ~Apart(r, req[r].seen)
<1>0. /\ QueueInv /\ TypeOK /\ SeenOK(r) /\ Alone(r) /\ twice = {}
      /\ \A q \in Requests : FreshOK(q)
  BY DEF IInv, BInv, QueueInv, KeyInv
<1>1. ASSUME NEW q \in Requests \ {r}
      PROVE  ~ReqOwns(q, req[r].seen)
  BY <1>0 DEF ReqOwns, FreshOK, Alone
<1>2. ASSUME NEW w \in Workers, mig[w].at = "record", MigratedKey(mig[w].id) = req[r].seen
      PROVE  FALSE
  <2>1. mig[w].id \in Photos
    BY <1>0, <1>2 DEF QueueInv, WorkerOK, Free
  <2>2. req[r].seen \notin used /\ req[r].id \in Photos
    BY <1>0, <1>2, <2>1, KeyFacts DEF TypeOK, SeenOK
  <2>3. req[r].seen = MigratedKey(req[r].id)
    BY <1>0, <2>2 DEF SeenOK
  <2>4. req[r].id = mig[w].id
    BY <1>2, <2>1, <2>2, <2>3, KeyFacts
  <2>. QED BY <1>0, <1>2, <2>3, <2>4 DEF SeenOK, Copying
<1>. QED BY <1>1, <1>2 DEF Apart, CopyOwns

LEMMA StoredApart ==
    ASSUME IInv, NEW r \in Requests, Fresh(r)
    PROVE  ~Apart(r, req[r].new)
<1>0. QueueInv /\ TypeOK /\ FreshOK(r)
  BY DEF IInv, QueueInv, KeyInv
<1>1. ASSUME NEW q \in Requests \ {r}
      PROVE  ~ReqOwns(q, req[r].new)
  BY <1>0 DEF ReqOwns, FreshOK
<1>2. ASSUME NEW w \in Workers, mig[w].at = "record"
      PROVE  MigratedKey(mig[w].id) # req[r].new
  <2>1. mig[w].id \in Photos
    BY <1>0, <1>2 DEF QueueInv, WorkerOK, Free
  <2>. QED BY <1>0, <2>1, KeyFacts DEF TypeOK, FreshOK
<1>. QED BY <1>1, <1>2 DEF Apart, CopyOwns

\* Steps that neither store nor remove, and supersede no key.
LEMMA RestBucket ==
    ASSUME IInv, BInv, smooth, smooth', UNCHANGED mig, NEW r \in Requests,
           \/ Begins(r) \/ UpdateChecks(r) \/ UpdateWrites(r) \/ ReplaceNotStored(r)
           \/ WriteFails(r)
    PROVE  Bucket'
<1>0. QueueInv /\ TypeOK /\ Bucket /\ Shape(r) /\ RequestStep(r)
  BY DEF IInv, BInv, QueueInv, RequestStep, Begins
<1>1. Others(r) /\ UNCHANGED objects
  BY <1>0, RequestTypes
     DEF ApiTypes, Begins, UpdateReads, ReplaceReads, DeleteReads, UpdateChecks, UpdateWrites,
         ReplaceNotStored, WriteFails, CutShort
<1>2. SameKeys
  <2>1. CASE UpdateWrites(r)
    <3>1. PICK p, type : photo' = [photo EXCEPT ![p].type = type]
      BY <2>1 DEF UpdateWrites
    <3>. QED BY <1>0, <3>1 DEF TypeOK, SameKeys, Row
  <2>2. CASE Begins(r)
    BY <1>0, <2>2, BeginsAt DEF SameKeys
  <2>. QED BY <2>1, <2>2 DEF UpdateChecks, ReplaceNotStored, WriteFails, SameKeys
<1>3. CASE Begins(r)
  <2>1. \A j : ReqOwns(r, j)' <=> ReqOwns(r, j)
    BY <1>0, <1>3, BeginsAt, IdleFields DEF ReqOwns, Fresh
  <2>2. ~At(r, "delete", "row") /\ ~At(r, "delete", "row")'
    BY <1>0, <1>3, BeginsAt, IdleFields DEF At
  <2>. QED BY <1>0, <1>1, <1>2, <2>1, <2>2, RowsOwn, BucketStays DEF Mine
<1>4. CASE UpdateWrites(r) \/ ReplaceNotStored(r)
  <2>1. req'[r] = Idle
    BY <1>0, <1>4, FinishTypes DEF UpdateWrites, ReplaceNotStored
  <2>2. req[r].new = None /\ req[r].at # "cleanup" /\ req[r].op # "delete"
    BY <1>0, <1>4 DEF UpdateWrites, ReplaceNotStored, Shape, At
  <2>3. \A j : ReqOwns(r, j)' <=> ReqOwns(r, j)
    BY <2>1, <2>2, IdleFields DEF ReqOwns, Fresh
  <2>4. ~At(r, "delete", "row") /\ ~At(r, "delete", "row")'
    BY <2>1, <2>2, IdleFields DEF At
  <2>. QED BY <1>0, <1>1, <1>2, <2>3, <2>4, RowsOwn, BucketStays DEF Mine
<1>5. CASE UpdateChecks(r) \/ WriteFails(r)
  <2>1. /\ req[r].at \in {"check", "write"}
        /\ \/ req'[r] = Idle /\ req[r].op = "update"
           \/ /\ req'[r].op = req[r].op /\ req'[r].new = req[r].new
              /\ req'[r].at \in {"check", "write", "rollback"}
    <3>1. CASE UpdateChecks(r)
      BY <1>0, <3>1, MoveTypes DEF UpdateChecks
    <3>2. CASE WriteFails(r)
      <4>1. /\ req[r].at \in {"check", "write"}
            /\ (req[r].op = "update" /\ Finish(r)) \/ Move(r, "rollback")
        BY <3>2 DEF WriteFails
      <4>. QED BY <1>0, <4>1, FinishTypes, MoveTypes
    <3>. QED BY <1>5, <3>1, <3>2
  <2>2. \A j : ReqOwns(r, j)' <=> ReqOwns(r, j)
    BY <1>0, <2>1, IdleFields DEF ReqOwns, Fresh, Shape
  <2>3. ~At(r, "delete", "row") /\ ~At(r, "delete", "row")'
    BY <2>1, IdleFields DEF At
  <2>. QED BY <1>0, <1>1, <1>2, <2>2, <2>3, RowsOwn, BucketStays DEF Mine
<1>. QED BY <1>3, <1>4, <1>5

\* A stored object is the request's until its row is written.
LEMMA StoresBucket ==
    ASSUME IInv, BInv, smooth, UNCHANGED mig, NEW r \in Requests,
           UploadStores(r) \/ ReplaceStores(r)
    PROVE  Bucket'
<1>0. QueueInv /\ Bucket /\ Shape(r) /\ Others(r)
  BY RequestTypes DEF IInv, BInv, RequestStep, ApiTypes
<1>1. PICK k \in Uploads \ used :
        /\ objects' = objects \cup {k} /\ UNCHANGED <<photo, smooth>>
        /\ req'[r].new = k /\ req'[r].op # "delete" /\ req'[r].at \in {"check", "write"}
        /\ req[r].at # "cleanup" /\ req[r].op # "delete" /\ ~Fresh(r)
  BY <1>0, StoresAt, IdleFields DEF Shape, At, Fresh
<1>2. k # None
  BY KeyFacts
<1>3. \A j : ~ReqOwns(r, j) /\ (ReqOwns(r, j)' <=> j = k)
  BY <1>1, <1>2 DEF ReqOwns, Fresh
<1>4. SameKeys /\ ~At(r, "delete", "row") /\ ~At(r, "delete", "row")'
  BY <1>1 DEF SameKeys, At
<1>. QED BY <1>0, <1>1, <1>3, <1>4, RowsOwn, BucketAdds DEF Mine

\* The end of a replacement and a rollback remove what is theirs alone.
LEMMA RemovesBucket ==
    ASSUME IInv, BInv, smooth', UNCHANGED mig, NEW r \in Requests,
           ReplaceCleansUp(r) \/ RollBack(r)
    PROVE  Bucket'
<1>0. /\ QueueInv /\ TypeOK /\ Bucket /\ Shape(r) /\ Others(r) /\ smooth /\ twice = {}
      /\ SeenOK(r) /\ FreshOK(r)
  BY RequestTypes, RequestSmooth DEF IInv, BInv, QueueInv, RequestStep, ApiTypes, KeyInv
<1>1. PICK k : /\ objects' = objects \ {k} /\ UNCHANGED photo /\ req'[r] = Idle
               /\ \/ req[r].at = "cleanup" /\ k = req[r].seen
                  \/ req[r].at = "rollback" /\ k = req[r].new
  BY <1>0, FinishTypes
     DEF ReplaceCleansUp, RollBack, Deleted, NotDeleted, CutShort, At
<1>2. \A j : ~ReqOwns(r, j)'
  BY <1>1, IdleFields DEF ReqOwns, Fresh
<1>3. \A j \in Keys : ReqOwns(r, j) <=> j = k
  BY <1>1, KeyFacts DEF ReqOwns, Fresh
<1>4. k \in Keys => ~Apart(r, k) /\ \A p \in Photos : photo[p].key # k
  <2> SUFFICES ASSUME k \in Keys, k # None
               PROVE  ~Apart(r, k) /\ \A p \in Photos : photo[p].key # k
    BY KeyFacts
  <2>1. CASE req[r].at = "cleanup"
    <3>1. k = req[r].seen
      BY <1>1, <2>1
    <3>2. ~Apart(r, k)
      BY <1>0, <3>1, ReadApart
    <3>3. \A p \in Photos : photo[p].key # k
      BY <1>0, <2>1, <3>1 DEF SeenOK
    <3>. QED BY <3>2, <3>3
  <2>2. CASE req[r].at = "rollback"
    <3>1. k = req[r].new /\ Fresh(r)
      BY <1>1, <2>2 DEF Fresh
    <3>. QED BY <1>0, <3>1, StoredApart DEF FreshOK
  <2>. QED BY <1>1, <2>1, <2>2
<1>5. SameKeys /\ ~At(r, "delete", "row") /\ ~At(r, "delete", "row")'
  <2>1. ~At(r, "delete", "row")
    BY <1>1 DEF At
  <2>. QED BY <1>1, <2>1, IdleFields DEF SameKeys, At
<1>6. \A j \in Keys : Mine(r, j)' <=> Mine(r, j) /\ j # k
  BY <1>0, <1>2, <1>3, <1>4, <1>5, RowsOwn DEF Mine, RowOwns
<1>. QED BY <1>0, <1>1, <1>4, <1>6, BucketDrops

\* A step of request r about one row leaves the others their keys.
LEMMA OtherRowsOwn ==
    ASSUME NEW r \in Requests, NEW p, Others(r),
           \A s \in Photos \ {p} : photo'[s].key = photo[s].key,
           \A s \in Photos \ {p} : ~Erases(r, s) /\ ~Erases(r, s)'
    PROVE  \A j : \A s \in Photos \ {p} : RowOwns(s, j)' <=> RowOwns(s, j)
<1>1. ASSUME NEW q \in Requests, NEW s \in Photos \ {p}
      PROVE  Erases(q, s)' <=> Erases(q, s)
  <2>1. CASE q = r
    BY <2>1
  <2>2. CASE q # r
    BY <2>2 DEF Others, Erases, At
  <2>. QED BY <2>1, <2>2
<1>. QED BY <1>1 DEF RowOwns

\* The new row takes over the object of the upload.
LEMMA InsertsBucket ==
    ASSUME IInv, BInv, smooth, UNCHANGED mig, NEW r \in Requests, UploadInserts(r)
    PROVE  Bucket'
<1>0. /\ QueueInv /\ TypeOK /\ Bucket /\ Shape(r) /\ Others(r) /\ ReqOK(r)
      /\ photo \in [Photos -> Row]
  BY RequestTypes DEF IInv, BInv, QueueInv, TypeOK, RequestStep, ApiTypes
<1>1. PICK p, key, type, z :
        /\ p \in Photos /\ photo[p] = Unborn /\ photo' = [photo EXCEPT ![p] = z]
        /\ z = [life |-> "live", type |-> type, key |-> key, status |-> "NONE"]
        /\ key = req[r].new /\ UNCHANGED objects /\ At(r, "upload", "write") /\ Finish(r)
  BY DEF UploadInserts, Insert
<1>2. req'[r] = Idle /\ key # None
  BY <1>0, <1>1, FinishTypes DEF ReqOK, At
<1>3. /\ photo'[p].key = key /\ photo[p].key = None /\ photo[p].life = "unborn"
      /\ \A s \in Photos \ {p} : photo'[s].key = photo[s].key
  BY <1>0, <1>1 DEF Unborn
<1>4. \A q \in Requests : ~Erases(q, p) /\ ~Erases(q, p)'
  <2>1. ASSUME NEW q \in Requests
        PROVE  ~Erases(q, p)
    BY <1>0, <1>3 DEF QueueInv, ReqOK, Erases, At
  <2>2. ~Erases(r, p)'
    BY <1>2, IdleFields DEF Erases, At
  <2>3. ASSUME NEW q \in Requests \ {r}
        PROVE  ~Erases(q, p)'
    BY <1>0, <2>1 DEF Others, Erases, At
  <2>. QED BY <2>1, <2>2, <2>3
<1>5. \A s : ~Erases(r, s) /\ ~Erases(r, s)'
  BY <1>1, <1>2, IdleFields DEF Erases, At
<1>6. \A j : \A s \in Photos \ {p} : RowOwns(s, j)' <=> RowOwns(s, j)
  BY <1>0, <1>3, <1>5, OtherRowsOwn
<1>7. \A j \in Keys : ~RowOwns(p, j) /\ (RowOwns(p, j)' <=> j = key)
  BY <1>3, <1>4, KeyFacts DEF RowOwns
<1>8. \A j : ~ReqOwns(r, j)' /\ (ReqOwns(r, j) <=> j = key)
  BY <1>1, <1>2, IdleFields DEF ReqOwns, Fresh, At
<1>9. \A j \in Keys : Mine(r, j)' <=> Mine(r, j)
  BY <1>1, <1>6, <1>7, <1>8 DEF Mine
<1>. QED BY <1>0, <1>1, <1>9, BucketStays

\* The row takes over the new object and leaves the old one to the request.
LEMMA WritesBucket ==
    ASSUME IInv, BInv, smooth, UNCHANGED mig, NEW r \in Requests, ReplaceWrites(r)
    PROVE  Bucket'
<1>0. /\ QueueInv /\ TypeOK /\ Bucket /\ Others(r) /\ ReqOK(r) /\ Alone(r)
      /\ photo \in [Photos -> Row] /\ req[r] \in Request
  BY RequestTypes DEF IInv, BInv, QueueInv, TypeOK, RequestStep, ApiTypes
<1>1. PICK p, type, key, seen, z :
        /\ p = req[r].id /\ type = TypeAfter(r) /\ key = req[r].new /\ seen = req[r].seen
        /\ z = [photo[p] EXCEPT !.type = type, !.key = key]
  OBVIOUS
<1>2. /\ At(r, "replace", "write") /\ photo' = [photo EXCEPT ![p] = z] /\ UNCHANGED objects
      /\ \/ seen # None /\ Move(r, "cleanup")
         \/ seen = None /\ Finish(r)
  BY <1>1 DEF ReplaceWrites
<1>3. p \in Photos /\ p # None /\ key # None /\ photo[p].key = seen
  BY <1>0, <1>1, <1>2, KeyFacts DEF ReqOK, At, Alone
<1>4. photo'[p].key = key /\ \A s \in Photos \ {p} : photo'[s].key = photo[s].key
  <2>1. z.key = key
    BY <1>0, <1>1, <1>3 DEF Row
  <2>. QED BY <1>0, <1>2, <1>3, <2>1
<1>5. \/ seen # None /\ req'[r].at = "cleanup" /\ req'[r].seen = seen
      \/ seen = None /\ req'[r] = Idle
  BY <1>0, <1>1, <1>2, FinishTypes, MoveTypes
<1>6. \A s : ~Erases(r, s) /\ ~Erases(r, s)'
  BY <1>2, <1>5, IdleFields DEF Erases, At
<1>7. ASSUME NEW q \in Requests
      PROVE  ~Erases(q, p) /\ ~Erases(q, p)'
  <2>1. CASE q = r
    BY <1>6, <2>1
  <2>2. CASE q # r
    BY <1>0, <1>1, <1>3, <2>2 DEF Others, Alone, Erases
  <2>. QED BY <2>1, <2>2
<1>8. \A j : \A s \in Photos \ {p} : RowOwns(s, j)' <=> RowOwns(s, j)
  BY <1>0, <1>4, <1>6, OtherRowsOwn
<1>9. \A j : (RowOwns(p, j) <=> j = seen) /\ (RowOwns(p, j)' <=> j = key)
  BY <1>3, <1>4, <1>7 DEF RowOwns
<1>10. \A j \in Keys : (ReqOwns(r, j) <=> j = key) /\ (ReqOwns(r, j)' <=> j = seen)
  <2>1. \A j : ReqOwns(r, j) <=> j = key
    BY <1>1, <1>2, <1>3 DEF ReqOwns, Fresh, At
  <2>2. \A j \in Keys : ReqOwns(r, j)' <=> j = seen
    BY <1>5, IdleFields, KeyFacts DEF ReqOwns, Fresh
  <2>. QED BY <2>1, <2>2
<1>11. \A j \in Keys : Mine(r, j)' <=> Mine(r, j)
  BY <1>3, <1>8, <1>9, <1>10 DEF Mine
<1>. QED BY <1>0, <1>2, <1>11, BucketStays

\* A deletion removes the row's object and then the row, which owns nothing meanwhile.
LEMMA DeletesBucket ==
    ASSUME IInv, BInv, smooth', UNCHANGED mig, NEW r \in Requests,
           DeleteRemovesObject(r) \/ DeleteRow(r)
    PROVE  Bucket'
<1>0. /\ QueueInv /\ TypeOK /\ Bucket /\ Others(r) /\ ReqOK(r) /\ Alone(r) /\ Shape(r)
      /\ SeenOK(r) /\ smooth /\ photo \in [Photos -> Row] /\ req[r].op = "delete"
      /\ \A p \in Photos : RowOK(p)
  BY RequestTypes, RequestSmooth
     DEF IInv, BInv, QueueInv, TypeOK, KeyInv, RequestStep, ApiTypes, DeleteRemovesObject,
         DeleteRow, At
<1>1. PICK p, k : p = req[r].id /\ k = req[r].seen
  OBVIOUS
<1>2. p \in Photos /\ p # None /\ \A q \in Requests \ {r} : req[q].id # p
  BY <1>0, <1>1, KeyFacts DEF ReqOK, Alone
<1>3. \A j : ~ReqOwns(r, j)
  BY <1>0 DEF ReqOwns, Fresh, Shape
<1>4. \A s \in Photos \ {p} : ~Erases(r, s)
  BY <1>1 DEF Erases
<1>5. CASE DeleteRemovesObject(r)
  <2>1. /\ At(r, "delete", "remove") /\ UNCHANGED photo /\ objects' = objects \ {k}
        /\ Move(r, "row")
    BY <1>0, <1>1, <1>5 DEF DeleteRemovesObject, Deleted, NotDeleted, CutShort
  <2>2. /\ req'[r].op = "delete" /\ req'[r].at = "row" /\ req'[r].id = p
        /\ req'[r].new = None /\ req[r].new = None
    BY <1>0, <1>1, <2>1, MoveTypes DEF Shape
  <2>3. Erases(r, p)' /\ \A s \in Photos \ {p} : ~Erases(r, s)'
    BY <2>2 DEF Erases, At
  <2>4. \A j : \A s \in Photos \ {p} : RowOwns(s, j)' <=> RowOwns(s, j)
    BY <1>0, <1>4, <2>1, <2>3, OtherRowsOwn
  <2>5. \A j : ~RowOwns(p, j)'
    BY <2>3 DEF RowOwns
  <2>6. \A q \in Requests : ~Erases(q, p)
    BY <1>2, <2>1 DEF Erases, At
  <2>7. photo[p].key = k
    BY <1>0, <1>1, <2>1 DEF Alone, At
  <2>8. \A j : RowOwns(p, j) <=> j = k
    BY <2>6, <2>7 DEF RowOwns
  <2>9. \A j \in Keys : j = k => \A s \in Photos \ {p} : ~RowOwns(s, j)
    BY <1>0, <1>1, KeyFacts DEF SeenOK, RowOwns
  <2>10. \A j : ~ReqOwns(r, j)'
    BY <2>2 DEF ReqOwns, Fresh
  <2>11. \A j \in Keys : Mine(r, j)' <=> Mine(r, j) /\ j # k
    BY <1>2, <1>3, <2>4, <2>5, <2>8, <2>9, <2>10 DEF Mine
  <2>12. k \in Keys => ~Apart(r, k)
    BY <1>0, <1>1, ReadApart, KeyFacts
  <2>. QED BY <1>0, <2>1, <2>11, <2>12, BucketDrops
<1>6. CASE DeleteRow(r)
  <2>1. /\ At(r, "delete", "row") /\ Finish(r) /\ UNCHANGED objects
        /\ \/ photo' = [photo EXCEPT ![p] = Gone]
           \/ photo' = photo /\ ~Live(p)
    BY <1>1, <1>6 DEF DeleteRow
  <2>2. req'[r] = Idle
    BY <1>0, <2>1, FinishTypes
  <2>3. photo'[p].key = None /\ \A s \in Photos \ {p} : photo'[s].key = photo[s].key
    <3>1. Gone.key = None
      BY DEF Gone, Unborn
    <3>. QED BY <1>0, <1>2, <2>1, <3>1 DEF RowOK, Live
  <2>4. \A s : ~Erases(r, s)'
    BY <2>2, IdleFields DEF Erases, At
  <2>5. \A j : \A s \in Photos \ {p} : RowOwns(s, j)' <=> RowOwns(s, j)
    BY <1>0, <1>4, <2>3, <2>4, OtherRowsOwn
  <2>6. \A j \in Keys : ~RowOwns(p, j) /\ ~RowOwns(p, j)'
    BY <1>1, <2>1, <2>3, KeyFacts DEF RowOwns, Erases
  <2>7. \A j : ~ReqOwns(r, j)'
    BY <2>2, IdleFields DEF ReqOwns, Fresh
  <2>8. \A j \in Keys : Mine(r, j)' <=> Mine(r, j)
    BY <1>3, <2>5, <2>6, <2>7 DEF Mine
  <2>. QED BY <1>0, <2>1, <2>8, BucketStays
<1>. QED BY <1>5, <1>6

LEMMA RequestBucket ==
    ASSUME IInv, BInv, smooth', UNCHANGED mig, NEW r \in Requests, RequestStep(r)
    PROVE  Bucket'
<1>1. smooth
  BY RequestSmooth DEF IInv
<1>2. ~RequestDies(r) /\ ~UploadNotStored(r)
  BY DEF RequestDies, UploadNotStored, CutShort
<1>. QED BY <1>1, <1>2, RestBucket, StoresBucket, RemovesBucket, InsertsBucket, WritesBucket,
            DeletesBucket DEF RequestStep, Begins

\* A row without a key owns nothing.
LEMMA LegacyBucket ==
    ASSUME IInv, BInv, CreateLegacy, UNCHANGED mig
    PROVE  Bucket'
<1> SUFFICES ASSUME smooth'
             PROVE  Bucket'
  BY DEF Bucket
<1>0. /\ QueueInv /\ photo \in [Photos -> Row] /\ UNCHANGED <<req, objects>> /\ smooth
      /\ \A j \in Keys : j \in objects <=> Owned(j)
  BY DEF IInv, BInv, Bucket, QueueInv, TypeOK, CreateLegacy
<1>1. PICK p, type, z :
        /\ photo[p] = Unborn /\ photo' = [photo EXCEPT ![p] = z]
        /\ z = [life |-> "live", type |-> type, key |-> None, status |-> "NONE"]
  BY DEF CreateLegacy, Insert
<1>2. \A s \in Photos : photo'[s].key = photo[s].key
  BY <1>0, <1>1 DEF Unborn
<1>3. \A j : Owned(j)' <=> Owned(j)
  BY <1>0, <1>2 DEF Owned, RowOwns, ReqOwns, CopyOwns, Erases, Fresh, At
<1>4. Keys' = Keys
  BY DEF Keys, MigratedKey
<1>. QED BY <1>0, <1>3, <1>4 DEF Bucket

-----------------------------------------------------------------------------
(* The bucket: what a worker's step changes.                                *)

\* Owners a worker's step leaves alone.
Beyond(w, k) == \/ \E r \in Requests : ReqOwns(r, k)
                \/ \E v \in Workers \ {w} : CopyOwns(v, k)

LEMMA BeyondStays ==
    ASSUME NEW w \in Workers, UNCHANGED req, \A v \in Workers \ {w} : mig'[v] = mig[v]
    PROVE  \A k : Beyond(w, k)' <=> Beyond(w, k)
  BY DEF Beyond, ReqOwns, Fresh, CopyOwns

\* A worker that copies has stored the migrated key, which becomes the row's.
LEMMA WorkerBucket ==
    ASSUME IInv, BInv, NEW w \in Workers, WorkerStep(w) \/ WorkerFails(w)
    PROVE  Bucket'
<1> SUFFICES ASSUME smooth'
             PROVE  Bucket'
  BY DEF Bucket
<1>0. /\ QueueInv /\ photo \in [Photos -> Row] /\ UNCHANGED req /\ smooth /\ SmoothOK(w)
      /\ \A j \in Keys : j \in objects <=> Owned(j)
  BY WorkerRows DEF IInv, BInv, Bucket, QueueInv, TypeOK, SmoothInv
<1>1. \A v \in Workers \ {w} : mig'[v] = mig[v]
  <2>1. WorkerTypes(w)
    BY <1>0, TakeTypes, GoTypes, StopTypes DEF WorkerStep, WorkerFails
  <2>. QED BY <2>1 DEF WorkerTypes, MigKept
<1>2. \A k : Beyond(w, k)' <=> Beyond(w, k)
  BY <1>0, <1>1, BeyondStays
<1>3. /\ \A k : Owned(k) <=> (\E p \in Photos : RowOwns(p, k)) \/ Beyond(w, k) \/ CopyOwns(w, k)
      /\ \A k : Owned(k)' <=>
            (\E p \in Photos : RowOwns(p, k))' \/ Beyond(w, k)' \/ CopyOwns(w, k)'
  BY DEF Owned, Beyond
<1>4. Keys' = Keys
  BY DEF Keys, MigratedKey
<1>5. \A r \in Requests : \A p : Erases(r, p)' <=> Erases(r, p)
  BY <1>0 DEF Erases, At
<1>6. ASSUME ~Records(w)
      PROVE  \A k : (\E p \in Photos : RowOwns(p, k))' <=> \E p \in Photos : RowOwns(p, k)
  <2>1. \A p \in Photos : photo'[p].key = photo[p].key
    BY <1>0, <1>6, WorkerRows
  <2>. QED BY <1>5, <2>1 DEF RowOwns
<1>7. CASE Records(w)
  <2>1. PICK p, key, z :
          /\ p = mig[w].id /\ key = MigratedKey(p)
          /\ z = [photo[p] EXCEPT !.key = key, !.status = "SUCCEEDED"]
    OBVIOUS
  <2>2. /\ mig[w].at = "record" /\ photo[p].life = "live" /\ photo' = [photo EXCEPT ![p] = z]
        /\ UNCHANGED objects /\ (Step(w, "count") \/ Done(w))
    BY <1>7, <2>1 DEF Records, Live
  <2>3. mig[w] # Free
    BY <2>2 DEF Free
  <2>4. p \in Photos /\ photo[p].key = None /\ \A r \in Requests : ~Erases(r, p)
    BY <1>0, <2>1, <2>2, <2>3 DEF SmoothOK, Copying, QueueInv, WorkerOK, Erases
  <2>5. photo'[p].key = key /\ \A s \in Photos \ {p} : photo'[s].key = photo[s].key
    <3>1. z.key = key
      BY <1>0, <2>1, <2>4 DEF Row
    <3>. QED BY <1>0, <2>2, <2>4, <3>1
  <2>6. mig'[w].at # "record"
    <3>1. CASE Step(w, "count")
      BY <1>0, <3>1, StepTypes
    <3>2. CASE Done(w)
      <4>1. mig' = [mig EXCEPT ![w] = Free] /\ Free \in Migration /\ QueueInv
        BY <1>0, <3>2, ConstantTypes DEF Done
      <4>2. mig'[w] = Free
        BY <4>1, MigTypes
      <4>. QED BY <4>2 DEF Free
    <3>. QED BY <2>2, <3>1, <3>2
  <2>7. \A j \in Keys : ~RowOwns(p, j) /\ (RowOwns(p, j)' <=> j = key)
    BY <1>5, <2>4, <2>5, KeyFacts DEF RowOwns
  <2>8. \A j : \A s \in Photos \ {p} : RowOwns(s, j)' <=> RowOwns(s, j)
    BY <1>5, <2>5 DEF RowOwns
  <2>9. \A j : ~CopyOwns(w, j)' /\ (CopyOwns(w, j) <=> j = key)
    BY <2>1, <2>2, <2>6 DEF CopyOwns
  <2>10. \A j \in Keys : Owned(j)' <=> Owned(j)
    BY <1>2, <1>3, <2>4, <2>7, <2>8, <2>9
  <2>. QED BY <1>0, <1>4, <2>2, <2>10 DEF Bucket
<1>8. CASE Copies(w) /\ Step(w, "record") /\ objects' = objects \cup {MigratedKey(mig[w].id)}
  <2>1. mig[w].at = "copy" /\ ~Records(w)
    BY <1>8 DEF Copies, Records
  <2>2. mig'[w].at = "record" /\ mig'[w].id = mig[w].id
    BY <1>0, <1>8, StepTypes
  <2>3. PICK key : key = MigratedKey(mig[w].id)
    OBVIOUS
  <2>4. \A j : ~CopyOwns(w, j) /\ (CopyOwns(w, j)' <=> j = key)
    BY <2>1, <2>2, <2>3 DEF CopyOwns, MigratedKey
  <2>5. \A j : Owned(j)' <=> Owned(j) \/ j = key
    BY <1>2, <1>3, <1>6, <2>1, <2>4
  <2>. QED BY <1>0, <1>4, <1>8, <2>3, <2>5 DEF Bucket
<1>9. CASE ~Records(w) /\ ~(Copies(w) /\ Step(w, "record"))
  <2>1. UNCHANGED objects /\ mig[w].at # "record" /\ mig'[w].at # "record"
    <3>1. ~WorkerDies(w) /\ ~RecordFails(w)
      BY DEF WorkerDies, RecordFails, CutShort
    <3>2. CASE Reads(w)
      <4>1. PICK p \in Photos \ BadSources :
              /\ mig[w] = Free /\ UNCHANGED objects
              /\ mig' = [mig EXCEPT ![w] = [at |-> "mark", id |-> p, prev |-> Restored(w, p)]]
        BY <3>2 DEF Reads
      <4>2. PICK m : m = [at |-> "mark", id |-> p, prev |-> Restored(w, p)]
        OBVIOUS
      <4>3. mig'[w] = m
        BY <1>0, <4>1, <4>2 DEF QueueInv, TypeOK
      <4>4. mig'[w].at = "mark"
        BY <4>2, <4>3
      <4>. QED BY <4>1, <4>4 DEF Free
    <3>3. ASSUME Done(w) \/ \E cut \in BOOLEAN : Errs(w, cut)
          PROVE  mig'[w].at # "record"
      <4>1. mig' = [mig EXCEPT ![w] = Free] /\ Free \in Migration /\ QueueInv
        BY <1>0, <3>3, ConstantTypes DEF Done, Errs
      <4>2. mig'[w] = Free
        BY <4>1, MigTypes
      <4>. QED BY <4>2 DEF Free
    <3>4. ASSUME NEW at \in {"copy", "count", "broken", "countFail"}, Step(w, at)
          PROVE  mig'[w].at # "record"
      <4>1. QueueInv
        BY <1>0
      <4>2. mig'[w].at = at
        BY <3>4, <4>1, StepTypes
      <4>. QED BY <4>2
    <3>5. CASE Skips(w) \/ ReadFails(w)
      <4>1. mig[w] = Free /\ UNCHANGED <<mig, objects>>
        BY <3>5 DEF Skips, ReadFails, photoVars
      <4>. QED BY <4>1 DEF Free
    <3>6. CASE Marks(w)
      BY <3>3, <3>4, <3>6 DEF Marks
    <3>7. CASE Copies(w)
      BY <1>9, <3>4, <3>7 DEF Copies, CutShort
    <3>8. CASE CountsSuccess(w) \/ CountsFailure(w) \/ StatusNotWritten(w)
      BY <3>3, <3>4, <3>8 DEF CountsSuccess, CountsFailure, StatusNotWritten, photoVars
    <3>9. CASE Breaks(w)
      BY <3>3, <3>4, <3>9 DEF Breaks
    <3>. QED BY <1>9, <3>1, <3>2, <3>5, <3>6, <3>7, <3>8, <3>9 DEF WorkerStep, WorkerFails
  <2>2. \A j : ~CopyOwns(w, j) /\ ~CopyOwns(w, j)'
    BY <2>1 DEF CopyOwns
  <2>3. \A j : Owned(j)' <=> Owned(j)
    BY <1>2, <1>3, <1>6, <1>9, <2>2
  <2>. QED BY <1>0, <1>4, <2>1, <2>3 DEF Bucket
\* Copies stores and goes on to record, or it breaks.
<1>10. ASSUME Copies(w), Step(w, "record")
       PROVE  objects' = objects \cup {MigratedKey(mig[w].id)}
  <2>1. ~Step(w, "broken")
    <3>1. ASSUME Step(w, "broken")
          PROVE  FALSE
      <4>1. mig'[w].at = "broken"
        BY <1>0, <3>1, StepTypes
      <4>2. mig'[w].at = "record"
        BY <1>0, <1>10, StepTypes
      <4>. QED BY <4>1, <4>2
    <3>. QED BY <3>1
  <2>. QED BY <1>10, <2>1 DEF Copies
<1>. QED BY <1>7, <1>8, <1>9, <1>10

-----------------------------------------------------------------------------
(* The invariant and the theorem.                                           *)

LEMMA NextTwice ==
    IInv /\ BInv /\ [Next]_vars => (smooth' => twice' = {})
<1> SUFFICES ASSUME IInv, BInv, [Next]_vars, smooth'
             PROVE  twice' = {}
  OBVIOUS
<1>1. CASE ApiStep
  <2>1. smooth
    BY <1>1, RequestSmooth, LegacyRows DEF ApiStep, IInv
  <2>. QED BY <1>1, <2>1 DEF ApiStep, BInv
<1>2. CASE EnqueuePending \/ UNCHANGED vars
  BY <1>2 DEF EnqueuePending, photoVars, vars, BInv
<1>3. ASSUME NEW w \in Workers, WorkerStep(w) \/ WorkerFails(w)
      PROVE  twice' = {}
  <2>1. smooth /\ twice = {}
    BY <1>3, WorkerRows DEF IInv, BInv
  <2>2. CASE Reads(w)
    <3>1. PICK p : /\ twice' = IF \E v \in Workers \ {w} : mig[v].id = p THEN twice \cup {p}
                               ELSE twice
                   /\ smooth' = (smooth /\ ~Busy(p, Requests, Workers \ {w}))
      BY <2>2 DEF Reads
    <3>2. ~ \E v \in Workers \ {w} : mig[v].id = p
      BY <3>1 DEF Busy
    <3>. QED BY <2>1, <3>1, <3>2
  <2>3. CASE ~Reads(w)
    BY <1>3, <2>1, <2>3 DEF WorkerStep, Skips, Marks, Copies, Records, RecordFails,
                            CountsSuccess, Breaks, CountsFailure, WorkerFails, ReadFails,
                            StatusNotWritten, WorkerDies
  <2>. QED BY <2>2, <2>3
<1>. QED BY <1>1, <1>2, <1>3 DEF Next

\* A worker writes no key of a photo a request is at in smooth running.
LEMMA WorkerAlone ==
    ASSUME IInv, BInv, NEW w \in Workers, WorkerStep(w) \/ WorkerFails(w), NEW q \in Requests
    PROVE  Alone(q)'
<1> SUFFICES ASSUME smooth'
             PROVE  Alone(q)'
  BY DEF Alone
<1>0. QueueInv /\ smooth /\ UNCHANGED req /\ Alone(q) /\ ReqOK(q) /\ SmoothOK(w)
  BY WorkerRows DEF IInv, BInv, QueueInv, SmoothInv
<1>1. ASSUME req[q].op \in {"replace", "delete"}, req[q].at # "cleanup"
      PROVE  photo'[req[q].id].key = req[q].seen
  <2>1. req[q].id \in Photos
    BY <1>0, <1>1 DEF ReqOK
  <2>2. ~(Records(w) /\ req[q].id = mig[w].id)
    BY <1>0 DEF SmoothOK, Records, Free
  <2>3. photo'[req[q].id].key = photo[req[q].id].key
    BY <1>0, <2>1, <2>2, WorkerRows
  <2>. QED BY <1>0, <1>1, <2>3 DEF Alone
<1>. QED BY <1>0, <1>1 DEF Alone

\* A row inserted by the legacy call is none a request is at.
LEMMA LegacyAlone ==
    ASSUME IInv, BInv, CreateLegacy, NEW q \in Requests
    PROVE  Alone(q)'
<1>0. QueueInv /\ UNCHANGED <<req, smooth>> /\ RowsOf(None) /\ Alone(q) /\ ReqOK(q)
  BY LegacyRows DEF IInv, BInv, QueueInv
<1>1. ASSUME req[q].op \in {"replace", "delete"}
      PROVE  photo'[req[q].id] = photo[req[q].id]
  <2>1. req[q].id \in Photos /\ photo[req[q].id].life # "unborn" /\ req[q].id # None
    BY <1>0, <1>1, KeyFacts DEF ReqOK
  <2>. QED BY <1>0, <2>1 DEF RowsOf
<1>. QED BY <1>0, <1>1 DEF Alone

LEMMA NextBucket == IInv /\ BInv /\ [Next]_vars => BInv'
<1> SUFFICES ASSUME IInv, BInv, [Next]_vars
             PROVE  BInv'
  OBVIOUS
<1>1. smooth' => twice' = {}
  BY NextTwice
<1>2. (\A q \in Requests : Shape(q)') /\ (\A q \in Requests : Alone(q)') /\ Bucket'
  <2>1. CASE ApiStep
    <3>1. CASE CreateLegacy
      <4>1. UNCHANGED <<req, mig>>
        BY <2>1, <3>1 DEF ApiStep, CreateLegacy
      <4>2. \A q \in Requests : Shape(q)'
        BY <4>1 DEF BInv, Shape
      <4>. QED BY <3>1, <4>1, <4>2, LegacyAlone, LegacyBucket
    <3>2. ASSUME NEW r \in Requests, RequestStep(r)
          PROVE  /\ \A q \in Requests : Shape(q)' /\ Alone(q)'
                 /\ Bucket'
      <4>1. UNCHANGED mig /\ QueueInv /\ \A q \in Requests : Shape(q)
        BY <2>1 DEF ApiStep, IInv, BInv
      <4>2. \A q \in Requests : Shape(q)'
        BY <3>2, <4>1, ShapeKept
      <4>3. \A q \in Requests : Alone(q)'
        BY <3>2, AloneKept
      <4>4. Bucket'
        <5>1. CASE smooth'
          BY <3>2, <4>1, <5>1, RequestBucket
        <5>2. CASE ~smooth'
          BY <5>2 DEF Bucket
        <5>. QED BY <5>1, <5>2
      <4>. QED BY <4>2, <4>3, <4>4
    <3>. QED BY <2>1, <3>1, <3>2 DEF ApiStep
  <2>2. CASE EnqueuePending \/ UNCHANGED vars
    <3>1. UNCHANGED <<photo, objects, req, mig, smooth>>
      BY <2>2 DEF EnqueuePending, photoVars, vars
    <3>2. \A q \in Requests : Shape(q)' /\ Alone(q)'
      BY <3>1 DEF BInv, Shape, Alone
    <3>3. Bucket'
      BY <3>1 DEF BInv, Bucket, Owned, RowOwns, ReqOwns, CopyOwns, Erases, Fresh, At,
                  Keys, MigratedKey
    <3>. QED BY <3>2, <3>3
  <2>3. ASSUME NEW w \in Workers, WorkerStep(w) \/ WorkerFails(w)
        PROVE  (\A q \in Requests : Shape(q)' /\ Alone(q)') /\ Bucket'
    <3>1. UNCHANGED req
      BY <2>3, WorkerRows DEF IInv
    <3>2. \A q \in Requests : Shape(q)'
      BY <3>1 DEF BInv, Shape
    <3>. QED BY <2>3, <3>2, WorkerAlone, WorkerBucket
  <2>. QED BY <2>1, <2>2, <2>3 DEF Next
<1>. QED BY <1>1, <1>2 DEF BInv

LEMMA InitBucket == Init => BInv
<1> SUFFICES ASSUME Init
             PROVE  BInv
  OBVIOUS
<1>1. /\ twice = {} /\ objects = {} /\ req = [r \in Requests |-> Idle]
      /\ mig = [w \in Workers |-> Free]
  BY DEF Init, PhotosInit
<1>2. \A p \in Photos : photo[p].key = None
  <2>1. PICK front : photo = [p \in Photos |->
                IF p \notin Imported THEN Unborn
                ELSE [life |-> "live", type |-> IF p \in front THEN "FRONT" ELSE "SIDE",
                      key |-> None, status |-> "PENDING"]]
    BY DEF Init, PhotosInit
  <2>2. Unborn.key = None
    BY DEF Unborn
  <2>3. ASSUME NEW p \in Photos
        PROVE  photo[p].key = None
    <3>1. CASE p \notin Imported
      BY <2>1, <2>2, <3>1
    <3>2. CASE p \in Imported
      <4>1. PICK type : type = IF p \in front THEN "FRONT" ELSE "SIDE"
        OBVIOUS
      <4>2. photo[p] = [life |-> "live", type |-> type, key |-> None, status |-> "PENDING"]
        BY <2>1, <3>2, <4>1
      <4>. QED BY <4>2
    <3>. QED BY <3>1, <3>2
  <2>. QED BY <2>3
<1>3. \A r \in Requests : Shape(r) /\ Alone(r)
  BY <1>1, IdleFields DEF Shape, Alone
<1>4. \A k \in Keys : ~Owned(k)
  <2>1. \A k \in Keys : \A p \in Photos : ~RowOwns(p, k)
    BY <1>2, KeyFacts DEF RowOwns
  <2>2. \A k : \A r \in Requests : ~ReqOwns(r, k)
    BY <1>1, IdleFields DEF ReqOwns, Fresh
  <2>3. \A k : \A w \in Workers : ~CopyOwns(w, k)
    BY <1>1 DEF CopyOwns, Free
  <2>. QED BY <2>1, <2>2, <2>3 DEF Owned
<1>. QED BY <1>1, <1>3, <1>4 DEF BInv, Bucket

LEMMA AtRest == IInv /\ BInv => BucketMatchesRows
<1> SUFFICES ASSUME IInv, BInv, smooth, \A r \in Requests : req[r] = Idle,
                    \A w \in Workers : mig[w] = Free
             PROVE  objects = {photo[p].key : p \in {q \in Photos : Live(q) /\ photo[q].key # None}}
  BY DEF BucketMatchesRows
<1>0. /\ objects \subseteq Keys /\ photo \in [Photos -> Row]
      /\ \A p \in Photos : RowOK(p)
      /\ \A k \in Keys : k \in objects <=> Owned(k)
  BY DEF IInv, QueueInv, TypeOK, KeyInv, BInv, Bucket
<1>1. \A k : Owned(k) <=> \E p \in Photos : photo[p].key = k
  <2>1. \A r \in Requests : \A k : ~ReqOwns(r, k) /\ ~Erases(r, k)
    BY IdleFields DEF ReqOwns, Fresh, Erases, At
  <2>2. \A w \in Workers : \A k : ~CopyOwns(w, k)
    BY DEF CopyOwns, Free
  <2>. QED BY <2>1, <2>2 DEF Owned, RowOwns
<1>2. \A p \in Photos : photo[p].key # None => Live(p) /\ photo[p].key \in Keys
  BY <1>0 DEF RowOK, Live, Row
<1>3. \A k \in objects : \E p \in Photos : Live(p) /\ photo[p].key # None /\ photo[p].key = k
  BY <1>0, <1>1, <1>2, KeyFacts
<1>4. \A p \in Photos : photo[p].key # None => photo[p].key \in objects
  BY <1>0, <1>1, <1>2
<1>. QED BY <1>3, <1>4

\* While no two operations met on one photo and none was cut short, the bucket at rest
\* holds the objects of the rows and no other: upload, replace, delete, their rollbacks
\* and clean-ups and the migration hand every key they store to a row or remove it, and
\* remove no key a row keeps.
THEOREM BucketExact == Spec => []BucketMatchesRows
<1>1. Init => IInv /\ BInv
  BY InitInv, InitBucket
<1>2. IInv /\ BInv /\ [Next]_vars => IInv' /\ BInv'
  BY NextInv, NextBucket
<1>3. IInv /\ BInv => BucketMatchesRows
  BY AtRest
<1>. QED BY <1>1, <1>2, <1>3, PTL DEF Spec
=============================================================================
