# Formal models of the property-survey platform

TLA+ modules, TLC configurations and TLAPS proofs for the municipal property-survey platform in this
repository: a NestJS API over Postgres (`apps/api`), a BullMQ worker (`apps/worker`), a Next.js
admin site (`apps/web`), an Expo field client (`apps/mobile`) and shared packages (`packages/*`).
Every definition is translated from the source; `PROJECT.json` maps each one to the lines it stands
for.

## The system: inventory

| Component | State | Operations | Talks to |
|---|---|---|---|
| Survey life cycle (`api/src/surveys`) | `surveys` rows: `surveyStatus`, `qcStatus`, `deletedAt`, creator, assignee, identity columns; `qc_remarks` | create, update, submit, approve, reject, reopen, soft-delete, restore, assign, bulk loops, GET-time Property ID upgrade | Postgres; called by QC, photos, floors, registry |
| QC review (`api/src/qc`) | the same rows | approve / reject / reopen (delegated), qc.reopened, delete, quarantine to Zero Ward, correct (with identity swap) | surveys service, Postgres |
| Property identity (`packages/validation`, `api/src/common/utils`) | none; the partial unique index on (ulb, Property ID, year) | derive, parse, conflict lookup, temporary IDs | everything that writes identity |
| Floors, co-owners, photos | child rows; object storage | CRUD, area totals, FRONT uniqueness, upload / replace / delete | `assertEditableSurvey`, storage |
| Imports (`api/src/imports`, `worker/src/imports`) | `import_jobs`, checkpoint, reports | enqueue, chunks of 50, resume, retry failed rows, photo migrations | BullMQ, surveys tables directly |
| Image migration (`worker/src/images`) | photo import state, counters | per-photo job with retries | storage, BullMQ |
| Audit ETL (`packages/audit-etl`) | cursor row with a version, `audit_events`, dead letters | extract page, transform, upsert, append dead letters, advance cursor | Convex HTTP source, Postgres |
| Users, roles, Clerk webhooks (`api/src/users`, `roles`, `webhooks`) | users, tenant role assignments | upsert, replace the active role, deactivate | Clerk |
| Master data, Zero Ward (`wards`, `ulbs`, ...) | wards with kind and number | CRUD, create Zero Ward | surveys (foreign keys) |
| Jobs, exports, storage cleanup | job rows, queues | enqueue, process, clean up | BullMQ, storage |
| Tax configurations (`api/src/tax-configs`) | percentages, a matrix of rates and published versions per ward and year | open, edit, publish, roll back, apply to every ward of a ULB | demand notices and exports bill from them |
| Demand notices, dashboards, reports, portal, saved views | read models | mostly reads | Postgres |
| Web and mobile clients | drafts, a temporary Property ID per new survey | calls with retries | API |

What is hard here: every API handler reads a row, decides in JavaScript and commits in a later
transaction (Read Committed), so two requests interleave between the two; the survey's life is
spread over two status columns, a deletion mark and a remark thread written by different handlers;
its identity is derived from columns that other handlers change, is unique only through a partial
index, and is *exchanged* between rows by one handler; jobs are retried from queues; two stores
(Postgres and object storage) are written in turn.

What makes each part correct: the life cycle follows one graph whatever the interleaving, and
verdict and remarks follow the status; no two active surveys share an identity and no write leaves a
Property ID of another ward than the survey's; every audit record is loaded or set aside and the
cursor passes nothing; a resumed import ends like an uninterrupted one; every photo row has its
object and every object a row; one active role per user.

## Modules

| Module | Stands for |
|---|---|
| `SurveysRepository` | the survey table (`row`, `ident`, `open`), the statements on it (`TransitionStatus`, `IndexAccepts`, `Conflicts`, `Written`), the two Property ID derivations, and requests in flight (`req`, `plan`) |
| `SurveysService` | the handlers of `surveys.service.ts`: a `Begin...` action (read, checks) and a `Commit...` action (transaction) each; roles from the RBAC catalogue |
| `QcService` | the handlers of `qc.service.ts` / `qc.repository.ts` that are not the survey module's own |
| `SurveyWorkflow` | abstract specification: the life cycle with atomic steps, no requests |
| `SurveyPlatform` | the composition: `Init`, `Next`, `Spec`, all properties, and the refinement to `SurveyWorkflow` |
| `PhotosService` | upload, replace, update, delete of `photos.service.ts` / `photos.repository.ts`, and the bucket, one step per store |
| `ImageMigration` | the image-migration queue, its worker and the exports, over `PhotosService` |
| `PhotoStore` | what the two keep together: the properties |
| `AuditDelivery` | abstract specification of the audit ETL: store, bury, mark |
| `AuditEtl` | the pipeline, cursor, loader and extractor of `packages/audit-etl`, and its refinement to `AuditDelivery` |
| `ImportJob` | the import job of the API, its queue entries and worker runs, and the survey a row was last written to |
| `Floors` | floor transactions, the QC floor list, the plot check and the stored built-up total of one survey |
| `TaxConfigs` | the tax configuration of one ward and year, statement by statement |
| `MCSurveyLifecycle`, `MCSurveyIdentity`, `MCSurveyRaces`, `MCPhotoStore`, `MCAuditEtl`, `MCImportJob`, `MCFloors`, `MCTaxConfigs` | TLC instances |
| `SurveyPlatformProofs`, `SurveyIdentityProofs`, `PhotoStoreProofs`, `PhotoBucketProofs`, `AuditEtlProofs`, `ImportJobProofs`, `FloorsProofs`, `TaxConfigsProofs` | the TLAPS proofs, each about the module it is named after (`SurveyIdentityProofs`: `SurveyPlatform`; `PhotoBucketProofs`: `PhotoStore`) |

### How the state corresponds to the code

`row[s]` holds the life-cycle columns of a survey (`ABSENT` until created), `ident[s]` its identity
columns, `open[s]` whether it has a `qc_remarks` row with `resolvedAt` null. A request slot `r` runs
one handler at a time. `req[r].from` is the status the handler read, `plan[r]` the columns it
computed from that read and will write: both may be stale when it commits, and a commit re-checks
only what the code re-checks. `transitionStatus` compares the status again; `softDelete`, `update`,
`assignSurvey` and the child writes update by id. A plan has only the columns the code puts in its
`data` object, so an UPDATE never restores columns it did not name. `update` commits twice (the
data, then the promotion out of DRAFT); the swap of a correction is three statements and the unique
index is checked after each, as Postgres does for an index that is not deferrable. `Abandon` is a
refused or lost transaction, or a process that dies; it is possible at any time.

Identity. A formula Property ID is the triple of a ULB code, a ward and a parcel. Parcel, unit and
use are one value of `Parcels`, taken up to the leading zeros the formula pads to; a ward stands for
its number and a ULB code for its digits (those without a digit are left out). The code derives the
ID in two ways. `update` uses `canonicalFieldPropertyId`, which rejects a parcel of more than five
digits or a unit of more than three or of letters; the GET-time upgrade and `correct` use
`formatPropertyId`, which cuts and pads what it is given. `Formatted` is what the lenient one makes
of a parcel (`None` if nothing), `Padded` what `correct` stores for it, and a parcel is `Canonical`
when the two derivations agree on it. For others, such as parcel "123456" or unit "A", the ID of a
ward the survey has left survives a PATCH, one request at a time: `update` derives nothing and keeps
what a GET had derived leniently. The model does the same, and `AlignmentKept` is claimed of
canonical parcels. A client may create a survey with whatever the DTO accepts (`CreateDto`): an ID
of the formula, of another ward even, a parcel or none, a ward number and a ULB code of its own; and
it may edit ward number and ULB code.

Abstracted: the completeness rules of submit are one flag that child edits set or clear; state,
district and ULB are fixed (one ULB), so tenant checks pass; timestamps, audit rows, and the scalar
and co-owner edits of a QC correction are left out. `TEMP-RESTORE-<uuid>` and `TEMP-SWAP-<uuid>` are
one value per survey, so a second re-key of a survey whose first temporary ID moved to another row
is refused instead of getting a fresh ID.

Photos. `photo[p]` is a row of one survey's photos, `objects` the keys in the bucket. A request slot
keeps in `req[r].seen` the object key it read and in `req[r].new` the one it uploaded; `at` is the
next store it touches. A worker's `mig[w]` is the same for `ImageMigrationService.process`; `job[p]`
is the queue's one job per photo (job id `<photo>-migrate`), which BullMQ keeps, and refuses to add
again, after it failed. Exports call `process` outside the queue. Random object keys are `Uploads`;
a migrated object's key is a function of the photo. Failures: a write may be refused or fail
(`WriteFails`, `RecordFails`), an upload may throw with the object stored or not (`UploadNotStored`,
`ReplaceNotStored`, `Copies`), a storage deletion may answer with an error whether or not it
happened (`NotDeleted`), and a request or a worker may die at any step. Each database call of the
worker may throw: its first read (`ReadFails`), the PROCESSING update and the status its catch block
writes (`StatusNotWritten`), and the two counters (`CountsSuccess`, which then marks a stored photo
`FAILED`, and `CountsFailure`). A last attempt that ends so, or with its worker dead, leaves the
photo `PENDING` or `PROCESSING` (`Job.cut`). The database does not lose the answer of a statement it
commits. Left out: the `url` column and the file stream's write-back of fallback keys, object keys
sent in a JSON body (no client does), imports that replace photo rows, the values of the photo
counters, and the imports the API runs itself, whose migrations restore the status as an export
does. Three history variables serve the properties only: `smooth` (no two operations met on one
photo and none was cut short), `doomed` (photos a deletion asked the storage to remove) and `twice`
(photos two migrations worked on at once).

Audit ETL. The legacy log is the records `1..source` in the order it is listed, `Bad` those the
schema or the transform rejects. `run[r]` is one call of `runAuditEtlPipeline`: the page in hand
(`from`, `to`, `done`), the events of it still to commit (`todo`), the attempt, the cursor version
it believes in (`known`). `UpsertChunk` commits one chunk, `AppendDlq` the dead letters, `Advance`
compares the version and `Reread` adopts the one it finds; each call may fail with or without its
effect. A page without a next position, empty or not, ends the run before the cursor moves
(`LastPage`). Nothing in the repository calls the pipeline: `jobs.service.ts` enqueues `audit-etl`
jobs that no processor takes, so it is modelled as the library it is, with overlapping callers. Left
out: field mapping, back-off times, `verify_migration`, and the conversion to `BigInt` of a
fractional creation time (`cursor_manager.ts:49`), which throws.

Imports. `surveys[p, k]` is the workbook row that the survey with Property ID `p` (or its extra
`p-Dk`) was last written from. A queue entry is taken by a worker (`Take`), which loads and
preflights the workbook (`Load`, its reads merged), then maps a chunk and looks its surveys up in
one query (`Lookup`), writes one row a transaction (`WriteRow`), saves the checkpoint and finishes.
`Ask` is the status check of resume and retry, `Grant` their write by id and the new entry, and they
are two steps. An entry that throws comes back until its attempts are used; one whose worker dies is
restarted as BullMQ does (`maxStalledCount` 1). A `Syncs` process is the import the API runs itself.
`handled` and `written` are histories. Left out: Local IDs, several ULBs and years (the lookup
ignores both, `import-worker.service.ts:299-300`), counters, and the columns a row writes. What
throws inside the `try` sets FAILED (`Throw`); the PROCESSING update (`TakeFails`), the progress
call after it and the catch block's own update (`ThrowUnrecorded`) leave the job row as it is.
`lost` says that an entry ended so with no attempt left, that adding it failed, or that the queue
gave it up.

Floors. `req[r]` is one Read Committed transaction: the row it has written and not committed
(`row`), the total it is going to store (`sum`). A statement sees the committed rows and its own
(`Seen`) and waits for rows and index entries of others (`RowLocked`, `SegmentLocked`). The reads of
one check are one step. A segment is position, usage and construction; areas are whole square feet,
so that the tolerance of the check, below one, does not show. `RollsBack` is a refusal, a deadlock
victim or a dead process. A PATCH names any of a segment's columns, and what it leaves out is taken
from the row it read for the check, from the row it finds for the write (`Patched`).

QC corrections come in two kinds. One that sends a column of the survey (`WritesSurvey`) writes the
survey row first and holds it, so no floor write commits before it does; it is one step (`Correct`),
and waits for floors others have written. One of floors alone has an empty `scalarData` and takes no
survey row until its last statement: it is an open transaction, `corr`, that writes the rows of its
list (`CorrectionSyncs`), sums what it sees by then (`CorrectionSums`) and commits with the total
(`CorrectionCommits`); a floor write may commit between any two of them. One such correction is open
at a time, and the statements of its `syncFloors` are one step, as the rows it writes are locked and
it waits for those of others. Floors of different surveys do not meet. Imports, which write the
total of the workbook, are left out. A detail found on the way: `upsertFloor` catches the unique
conflict inside its transaction and queries again (`qc.repository.ts:1327-1340`), which Postgres
refuses once a statement has failed; the model rolls back. `exact` and `fits` are histories: the
last write of the total, and every write so far, met no other transaction and no edit past the
checks.

Tax configurations. No operation is a transaction, so every statement is a step: `req[r]` holds the
cells still to write (`todo`, `want`) and what a publication or a rollback read (its two reads are
one step). The percentages are one value. `ARCHIVED` is set nowhere in the repository. `Fails` is a
statement that throws or a process that dies. `bulkApply` is `upsertCells` for one ward after
another. `clean` and `alone` are histories: the last publication met no other request and no edit of
cells was cut short since.

## Runs

| Run | Instance | Shows |
|---|---|---|
| `survey_lifecycle` | 1 survey, 2 requests, field supervisor + QC supervisor + admin | `TypeOK`, `StatusQcCoherent`, `OpenRemarksOnlyWhileReturned`, and that the handlers implement `SurveyWorkflow` (`WorkflowSpec`) |
| `survey_identity` | 2 surveys, 1 request, 2 wards + Zero Ward, a canonical parcel and its over-long form; creation under a temporary ID, with the parcel or without, or under the formula ID of the other ward | `AlignmentKept`, `ChecksSuffice` |
| `survey_upgrade_race` | 1 survey, 2 requests | violation: a GET overwrites a valid formula ID with one of the ward the survey has left |
| `survey_delete_race` | as lifecycle | violation: a survey under review is deleted from the survey module |
| `approved_swapped_to_zero` | as identity | violation: an approved survey is swapped into Zero Ward |
| `photo_requests` | 2 photos, 2 requests, 5 requests served, 3 object keys, no worker | `LossOnlyByDeletion`, `BucketMatchesRows` |
| `photo_migration` | 1 imported photo, 1 request slot (2 requests), a queue worker (2 attempts, 1 stall), an export | `TypeOK`, `LossOnlyByDeletion`, `BucketMatchesRows`, `RetakeStays`, `QueuedPhotoSettles` |
| `audit_etl` | 3 records, the second unreadable, 2 overlapping runs (3 in all), pages of 2, chunks of 1, 2 attempts | `TypeOK`, `NothingSkipped`, `ExhaustedIsDelivered`, `RunsEnd`, and that the pipeline implements `AuditDelivery` (`DeliverySpec`) |
| `import_jobs` | 3 rows, one Property ID twice, the row between derived and late; 2 workers, a synchronous import, 2 attempts, 1 stall, 2 faults, 1 resume or retry | `TypeOK`, `CheckpointCovers`, `OnlyRetryDisplaces`, `JobSettles` |
| `import_retry` | the same rows, 1 worker | violation: the retry of a failed extra overwrites the first row's survey |
| `floor_areas` | 3 floors, 3 segments (two on the ground floor, one vacant), plot 2 or unset, areas 1 and 2, 2 transactions, 3 calls, 4 corrections, one of them of floors alone | `TypeOK`, `TotalCountsFloors`, `PlotLimit` |
| `tax_configs` | 2 cells, 2 rates, 2 percentages, 2 requests, 5 calls | `TypeOK`, `PublishedIsSnapshot`, `RollbackRestores` |

Bounds. A status race needs one survey and two handlers: a third in flight can only commit before,
between or after them, which `Abandon` and the slots' reuse already give over time. A collision
needs two surveys; the swap's conflict lookup returns one row, and uniqueness makes a second
impossible. Two wards are the least for which an ID can encode the wrong one; the over-long parcel
is where the derivations differ. Edits in `survey_identity` are of the ward or of the parcel, in one
year, and only a quarantine sends a survey to the Zero Ward; ward numbers and ULB codes are edited
in the lifecycle instance, and the theorems are about all edits. It has one request at a time
because its two properties are about what a handler computes: with two, `ChecksSuffice` is false by
design (the index is there to refuse) and `AlignmentKept` is false because two edits, one of the
ward and one of the parcel, each write an ID derived from the other's old column. That is listed as
a hazard. That no two active surveys have one identity is not checked: the database's index gives
it, whatever the handlers do, and the model has the index as a guard. Permissions do not matter to
the identity runs, so they use one administrator. Symmetry permutes surveys, requests and wards,
which nothing distinguishes; no liveness property is checked under it.

The photo runs split what would not fit in one: photos of a survey meet only in the FRONT index,
whose refusals must be rolled back in the bucket and which needs two rows, two requests and no
worker; a migration meets requests and exports on one photo. Five requests are enough for a photo to
be created, re-typed, replaced twice at once and deleted; two for a replacement and a deletion
around a migration. Two attempts and one stall (BullMQ's default; the code has four attempts) reach
a retry, a stall, the last attempt and a job lost to stalls. `LossOnlyByDeletion` excepts `twice`
because the code needs it: with an export and a queued job on one photo, the slower one puts back a
key that a replacement in between has removed from the bucket (TLC finds it if the exception is
dropped).

Three records are the least for a page boundary with an unreadable record before and a readable one
after it; three runs let a stale one meet two later ones. Three rows in chunks of two put a Property
ID and its extra on both sides of a checkpoint, so a resumed run must seed its count; two faults
give a failed row and a dead worker; only the repeated Property ID may have a survey from the field
(`MCInit`). `CheckpointCovers` and `OnlyRetryDisplaces` end at the first retry of failed rows, which
counts the rows of its own list: `import_retry` shows what it does. They speak of `Steady` Property
IDs: with a derived ID, or a ward that appears between two runs, the numbering shifts by the code.
Three floor calls, corrections and edits included, are one that sets up and two that race, or two
that race and one that repairs; `TotalCountsFloors` and `PlotLimit` are claimed of undisturbed
writes because they fail otherwise, by design of the isolation level. Five tax calls cover open,
edit, publish, and two more of any kind, one of which races. `PublishedIsSnapshot` is claimed of
publications that met nobody, until an edit of cells fails: `upsertCells` marks the configuration
`DRAFT` after its cells and `publish` re-reads nothing, so otherwise rows are billed that no
snapshot has. The publish dialog calls the snapshot immutable, which it is; its number is not
unique, since a draft publishes under the number it has.

Fairness. None is assumed of requests: one may always be lost, so the core's properties are safety
properties. `ImageMigration` assumes weak fairness of each queue worker: a running BullMQ worker
keeps processing its job and takes the next; nothing says a client or an import does anything, or
that a process dies or does not. `AuditEtl` assumes that each call of a run in progress returns or
throws (`WF` of the run's `Step`: every call is awaited, fetches have timeouts), and nothing about
runs being started. `ImportJob` assumes that a granted request goes on, that a free worker takes a
waiting entry and that a run reaches its next statement; faults, deaths and requests are not fair.
Liveness is checked without symmetry. The survey runs check deadlock; the others do not, since with
all bounded requests served and nothing queued the system is at rest.

Told here and not by a run: a submission checks the floors and photos it read and compares only the
status when it commits (`surveys.service.ts:484-523`), so a photo deleted in between goes missing
from a submitted survey; a photo whose migration fails and then succeeds is counted as both
(`image-migration.service.ts:114-119`); a survey quarantined, corrected into another ward and
quarantined again keeps the first ward as `originalWardId` (`qc.repository.ts:699`, against the
comment at `schema.prisma:651`); an export that overlaps a migration restores the status it read, so
a settled photo may become pending again (`image-migration.service.ts:124`); the counter of a stored
photo that cannot be written marks it `FAILED` (`image-migration.service.ts:103-119`). The models
reach all five, but for the counters' values.

## What is proved

`SurveyPlatformProofs` proves, for any sets of surveys, users, wards, parcels, years and requests
(assumptions: roles are of the catalogue, `None`, `Keep` and the Zero Ward are not other values,
patches and creations have the shape of their DTOs, formatting a formatted or padded parcel changes
nothing, and no client sends a temporary ID the server draws, which has a random UUID):

- `TypeCorrect`, `QcFollowsStatus`, `RemarksSettled`: the invariants `TypeOK`, `StatusQcCoherent`,
  `OpenRemarksOnlyWhileReturned`;
- `ImplementsWorkflow`: `Spec => WorkflowSpec`, the refinement.

The inductive invariant is `IInv`: the three properties, the uniqueness the index gives
(`UniqueActiveIdentity`, which the identity proofs use) and `Pending`, what a handler in flight
still knows of its checks (a submission read an editable status, an assignment names a user, a child
edit a flag, a quarantine leaves the indexed columns alone). `Pending` is needed because a commit
acts on what was read earlier. The argument for the status properties: every write of the status
columns is a `TransitionStatus` whose compare-and-set pins the old status, so each commit is one
edge of the workflow however stale the read (`TransitionStep`, `TransitionCommits`);
`RemarksSettled` needs both halves, since submit decides to resolve on `req[r].from` and the
compare-and-set makes that the current status. The refinement maps status, verdict, deletion mark
and remarks to the abstract variables; begins, identity writes and child edits are stutters
(`SilentSteps`), commits are abstract steps (`TransitionEdges`, `DeletionEdges`, `CreationEdge`),
with `IInv` used to show that submit settles every remark.

`SurveyIdentityProofs` proves, for any surveys, wards, Zero Ward, parcels and client input, the two
properties that are true of requests one at a time; its theorems have the hypothesis `Sequential`
(no two request slots), because with two both are false (see Bounds), and no other.
`PropertyIdAligned` (`AlignmentKept`) is about steps, not states, since a client may create a survey
under the ID of another ward: a step that writes Property ID, ward or parcel leaves the row aligned.
The invariant is that of the plans in flight (`PlansAligned`): whatever was stored, `UpdatePlan` and
`CorrectPlan` are aligned by themselves, because in a geographic ward the ward number resolves to
that ward, whatever `wardNumber` a client wrote, and because both derivations of a canonical parcel
are that parcel (`UpdateAligned`, `CorrectAligned`, `EnsureAligned`); a correction stores the padded
parcel, which formats as the one it derived from. A swap hands ward, parcel and ID of the corrected
row over together, aligned or not (`SwappedPlace`); a quarantined row may keep an ID of its old
ward, which is why every way out of Zero Ward must re-derive it. `ChecksAreEnough`
(`ChecksSuffice`): what a handler checked on the rows it read stays true until it commits
(`PlanFits`), so the index accepts each statement, all three of a swap (`FittingRow`,
`FittingSwap`); the temporary ID of a parked peer is nobody's between steps. A creation takes the
one slot too, so nothing has to be assumed of the IDs or years clients send.

`AuditEtlProofs` proves, for any log, page size, chunk size, number of runs and retries:
`TypeCorrect` (`TypeOK`), `NoRecordSkipped` (`NothingSkipped`), `ExhaustionIsDelivery`
(`ExhaustedIsDelivered`) and `PipelineImplementsDelivery` (`DeliverySpec`). The invariant is
`TypeOK`, `NothingSkipped`, "what is buried has every readable record before it stored" and, for
each run, what its place in the code tells of its page: everything up to `from` is delivered, what
is not in `todo` of the current page is stored by the time it buries, all of the page is delivered
by the time it advances. It needs no claim about cursor versions: a run that adopts another's
version may move the cursor back, but only to a place it has itself delivered.

`TaxConfigsProofs` proves, for any matrix, rates, percentages and number of requests: `TypeCorrect`
(`TypeOK`), `PublicationHonest` (`PublishedIsSnapshot`) and `RollbackExact` (`RollbackRestores`).
The invariant adds, for each request: one that met no other is the only one (`Lonely`); an
undisturbed publication still reads what it is about to publish and its snapshot is written
(`PublishHolds`); an undisturbed rollback has restored all it does not still have to do
(`RollbackHolds`); nothing is published cleanly while opening or a rollback writes cells
(`DraftHolds`), which is what keeps a cell from changing under a clean publication; and there is a
configuration as soon as anything but opening runs (`Established`).

`PhotoStoreProofs` proves, for any photos, object keys, requests, workers, exports, attempts (at
least one) and stalls: `TypeCorrect` (`TypeOK`), `LossNeedsDeletion` (`LossOnlyByDeletion`) and
`RetakeKept` (`RetakeStays`). The last two need an invariant in three parts. `QueueInv`: a busy
queue worker's job is active, so two of the queue never have one photo, and two workers that do are
known (`twice`). `KeyInv`: a row names a key that is its own; an uploaded key is named by no row
until its request writes it (`FreshOK`), so a rollback removes nothing that is in use; the key a
replacement or a deletion has read can be named only by the row it was read from, and no longer by
it when the replacement cleans up (`SeenOK`); a migrated object is there when the worker names it
(`CopyOK`). The step that needs most of it is `Records`, which could bring back a migrated key about
to be cleaned up: a row that has a key never loses it again, a worker takes only rows without one,
so whoever has read the migrated key knows that no worker is copying, unless two met. `SmoothInv`:
while operations do not meet, a photo that is being copied has no key.

`PhotoBucketProofs` proves `BucketExact` (`BucketMatchesRows`) under the assumptions of
`PhotoStoreProofs`. The invariant speaks of smooth running, which ends when two operations meet on a
photo or one is cut short. Every stored key is owned: a row names it, the request that uploaded it
has not written it yet, the one that superseded it has not cleaned up yet, or a worker has copied it
and not recorded it (`Owned`; a row whose object a deletion has just removed owns none); every owned
key is stored (`Bucket`); and whoever works on a photo is alone there (`Alone`). With nobody
working, owning means being named by a row.

`ImportJobProofs` proves, for any workbook, chunk size, slots, attempts and faults: `TypeCorrect`
(`TypeOK`), `CheckpointHonest` (`CheckpointCovers`) and `RowsKeepSurveys` (`OnlyRetryDisplaces`).
The invariant follows a checkpoint from a run to the job and back: what a run counts as done has
been tried (`Covers`), so has what the job's row says when a resumed run reads it (`JobCovers`),
although overlapping runs move it back and forth. For the second, a run that is no retry considers
the whole workbook (`Straight`), so the survey a steady row is written to depends only on its place
among the rows of its Property ID, in whichever run or chunk it is met, and an imported row keeps
that survey (`OwnSurveys`); a retry counts another list, and both properties end there.

`FloorsProofs` proves, for any floors, segments, areas, plots, uses and number of transactions
(assumption: null is not a floor id, "not sent" not a use): `TypeCorrect` (`TypeOK`), `TotalExact`
(`TotalCountsFloors`) and `PlotKept` (`PlotLimit`). `RowsInv` adds to the types that live rows,
those written and not committed included, have a segment. The QC floor list is a fold over its
entries, and the invariant is carried through it entry by entry. For the total (`TotalInv`), a
transaction or an open correction that met no other is the only one (`Lonely`) and the sum it holds
is that of the floors as they will be when it commits (`Summed`). For the plot (`PlotInv`), an
undisturbed write has checked its position against the floors that are still there (`Checked`): the
sum over a position with one row put, changed or removed is the old sum with one term changed
(`SumPick`, `SumSame`, `SumLess`). The folds are reasoned about by a least counterexample (the
smallest set, or prefix of a list, on which the claim fails), which well-founded minimal elements
give without an induction theorem.

Out of the prover's reach: liveness (`QueuedPhotoSettles`, `RunsEnd`, `JobSettles`), which rests on
fairness. The four violations are TLC's. Every other property a run checks is a theorem;
`AlignmentKept` and `ChecksSuffice` as far as they are true, of requests one at a time.

## Plan

1. Core (done): the survey modules.
2. `PhotoStore` (done but for fallback keys and URLs): rows and objects, migrations.
3. `ImportJob` (done): left are the columns a row writes and other ULBs in its lookup.
4. `AuditEtl` (done), with refinement, liveness and proofs.
5. `Floors` and `TaxConfigs` (done).
6. `UserAccess`: one active role per user under administrators, webhooks and imports.
7. Pure operators: survey buckets, resume and retry policies, ward normalisation, against
   reference definitions.
8. Proofs (done for every safety property of 2 to 5 and of the core); left are the pure
   operators of 7, where a reference definition can be stated without recursion.

## Not modelled

User interfaces, read-only endpoints (lists, dashboards, reports, portal, demand notices), the Excel
layouts, deployment, users and roles beyond the permission catalogue, master data. The workbook
import writes survey rows directly and is outside the core's `Next`: the workflow theorems are about
the interactive handlers.
