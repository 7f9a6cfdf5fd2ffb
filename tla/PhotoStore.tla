----------------------------- MODULE PhotoStore -----------------------------
(***************************************************************************)
(* What the photo requests and the migration workers keep together: rows   *)
(* and objects, the fate of imported photos.                               *)
(***************************************************************************)
EXTENDS ImageMigration

TypeOK ==
    /\ photo \in [Photos -> Row]
    /\ objects \subseteq Keys /\ used \subseteq Uploads
    /\ req \in [Requests -> Request]
    /\ mig \in [Workers -> Migration]
    /\ smooth \in BOOLEAN
    /\ doomed \subseteq Photos /\ twice \subseteq Photos
    /\ job \in [Photos -> Job]
    /\ enqueues \in 0..MaxEnqueues

\* Whatever replacements, deletions, migrations and failures meet, a row keeps its
\* object unless somebody asked to delete the photo: replace and its rollback never
\* remove the object a row names.  Two migrations at once are the exception: the
\* slower one can bring back a key that a replacement has already cleaned up.
LossOnlyByDeletion ==
    \A p \in Photos :
        Live(p) /\ photo[p].key # None /\ photo[p].key \notin objects
        => p \in doomed \cup twice

\* While no two operations met on one photo and none was cut short, at rest the
\* bucket holds the objects of the rows and no other: every refused write removes
\* what it stored, every replacement and deletion what it superseded.
BucketMatchesRows ==
    smooth /\ (\A r \in Requests : req[r] = Idle) /\ (\A w \in Workers : mig[w] = Free)
    => objects = {photo[p].key : p \in {q \in Photos : Live(q) /\ photo[q].key # None}}

\* A worker never puts the imported image over one a surveyor uploaded, unless the
\* replacement came while the copy was under way.
RetakeStays ==
    [][\A p \in Photos :
        photo[p].key \in Uploads /\ photo'[p].key = MigratedKey(p) => ~smooth]_vars

\* When the queue lets a photo go, it is stored, marked FAILED or deleted: no
\* attempt that could write leaves it PENDING or PROCESSING. It may be left so by
\* a last attempt that could not write its status or whose worker died, and by an
\* export that was at work beside the job.
QueuedPhotoSettles ==
    \A p \in Photos :
        job[p].state = "waiting" ~>
            /\ job[p].state \in {"none", "failed"}
            /\ \/ photo[p].key # None \/ photo[p].status = "FAILED" \/ ~Live(p)
               \/ job[p].cut \/ p \in twice
=============================================================================
