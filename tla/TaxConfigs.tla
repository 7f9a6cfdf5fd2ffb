----------------------------- MODULE TaxConfigs -----------------------------
(***************************************************************************)
(* The tax configuration of one ward and assessment year: percentages, a   *)
(* matrix of rates, published snapshots                                    *)
(* (apps/api/src/tax-configs/tax-configs.service.ts).  Demand notices and  *)
(* exports bill from the rows as they stand while the status is PUBLISHED; *)
(* the snapshots are what was agreed.  No operation is a transaction: each *)
(* statement commits by itself, so requests interleave between statements  *)
(* and one that fails leaves what it wrote.                                *)
(***************************************************************************)
EXTENDS Naturals, Sequences

CONSTANTS
    Cells,        \* zone and construction pairs of the active reference entries
    Rates,        \* annualRatePerSqFt; the matrix starts with 0
    Params,       \* the five percentages, as one value
    Default,      \* their defaults in the schema
    Requests,     \* request slots
    MaxCalls,     \* bound: requests served
    None

ASSUME TaxAssumption ==
    /\ 0 \in Rates /\ Default \in Params /\ MaxCalls \in Nat
    /\ None \notin Rates /\ None \notin Params

VARIABLES
    config,    \* the tax_configs row; status NONE until it is created
    rate,      \* rate[c]: the cell c of its matrix, None while it has no row
    versions,  \* the tax_config_versions rows, oldest first
    req,       \* req[r]: the request in slot r
    calls,     \* requests started
    clean      \* history: the last publication met no other request, no edit was cut short

vars == <<config, rate, versions, req, calls, clean>>

-----------------------------------------------------------------------------

Matrix == [Cells -> Rates \cup {None}]
Config == [status : {"NONE", "DRAFT", "PUBLISHED"}, version : Nat,
           params : Params \cup {None}]
Version == [version : Nat, params : Params, rate : Matrix]
NoMatrix == [c \in Cells |-> None]

\* todo: the cells still to be written, with the rates of want; params: those a
\* rollback restores or a publication read; number: the version it publishes.
Request == [op : {"idle", "open", "cells", "publish", "rollback"},
            at : {"-", "create", "cells", "version", "status"},
            todo : SUBSET Cells, want : Matrix, params : Params \cup {None},
            number : Nat,
            alone : BOOLEAN]    \* history: no other request since it began
Idle == [op |-> "idle", at |-> "-", todo |-> {}, want |-> NoMatrix,
         params |-> None, number |-> 0, alone |-> TRUE]

Disturbed(q) == IF q = Idle THEN q ELSE [q EXCEPT !.alone = FALSE]
Counted == calls < MaxCalls /\ calls' = calls + 1
Begin(r, request) ==
    /\ req[r] = Idle /\ Counted
    /\ req' = [q \in Requests |->
        IF q = r
        THEN [request EXCEPT !.alone = \A o \in Requests \ {r} : req[o] = Idle]
        ELSE Disturbed(req[q])]
Move(r, at) == req' = [req EXCEPT ![r].at = at]
Finish(r) == req' = [req EXCEPT ![r] = Idle]
Step(r, op, at) == req[r].op = op /\ req[r].at = at
Exists == config.status # "NONE"

-----------------------------------------------------------------------------
(* getOrCreate                                                              *)

OpenReads(r) ==
    /\ ~Exists
    /\ Begin(r, [Idle EXCEPT !.op = "open", !.at = "create"])
    /\ UNCHANGED <<config, rate, versions, clean>>

\* Mutant: a table without the default percentages.
OpenCreatesEmpty(r) ==
    /\ Step(r, "open", "create") /\ ~Exists
    /\ config' = [status |-> "DRAFT", version |-> 1, params |-> None]
    /\ req' = [req EXCEPT ![r].at = "cells", ![r].todo = Cells,
                          ![r].want = [c \in Cells |-> 0]]
    /\ UNCHANGED <<rate, versions, calls, clean>>

\* One configuration per ward and year: the loser of two creations fails.
OpenCreates(r) ==
    /\ Step(r, "open", "create") /\ ~Exists
    /\ config' = [status |-> "DRAFT", version |-> 1, params |-> Default]
    /\ req' = [req EXCEPT ![r].at = "cells", ![r].todo = Cells,
                          ![r].want = [c \in Cells |-> 0]]
    /\ UNCHANGED <<rate, versions, calls, clean>>

\* ensureMatrixCells, upsertCells and rollback upsert cell by cell; the first leaves a
\* cell that is there alone.
WritesCell(r) ==
    \E c \in req[r].todo :
        /\ req[r].at = "cells"
        /\ rate' = IF req[r].op = "open" /\ rate[c] # None THEN rate
                   ELSE [rate EXCEPT ![c] = req[r].want[c]]
        /\ req' = [req EXCEPT ![r].todo = @ \ {c}]
        /\ UNCHANGED <<config, versions, calls, clean>>

\* getOrCreate and rollback end with their last cell.
Ends(r) ==
    /\ req[r].op \in {"open", "rollback"} /\ req[r].at = "cells" /\ req[r].todo = {}
    /\ Finish(r)
    /\ UNCHANGED <<config, rate, versions, calls, clean>>

-----------------------------------------------------------------------------
(* Edits: the percentages in one statement, the cells before the status     *)

UpdateParams ==
    \E p \in Params :
        /\ Exists /\ Counted
        /\ config' = [config EXCEPT !.params = p, !.status = "DRAFT"]
        /\ req' = [q \in Requests |-> Disturbed(req[q])]
        /\ UNCHANGED <<rate, versions, clean>>

\* PUT cells, and bulkApply for each ward: a copy of rates, or zeros.
CellsRead(r) ==
    \E todo \in SUBSET Cells : \E want \in [todo -> Rates] :
        /\ Exists
        /\ Begin(r, [Idle EXCEPT !.op = "cells", !.at = "cells", !.todo = todo,
                        !.want = [c \in Cells |-> IF c \in todo THEN want[c] ELSE None]])
        /\ UNCHANGED <<config, rate, versions, clean>>

\* Mutant: the configuration stays published.
CellsLeaveStatus(r) ==
    /\ Step(r, "cells", "cells") /\ req[r].todo = {}
    /\ Finish(r)
    /\ UNCHANGED <<config, rate, versions, calls, clean>>

CellsMarkDraft(r) ==
    /\ Step(r, "cells", "cells") /\ req[r].todo = {}
    /\ config' = [config EXCEPT !.status = "DRAFT"]
    /\ Finish(r)
    /\ UNCHANGED <<rate, versions, calls, clean>>

-----------------------------------------------------------------------------
(* publish: what is read, the snapshot of it, the status                    *)

\* A draft publishes under the number it has, a published configuration under the next.
PublishReads(r) ==
    /\ Exists
    /\ Begin(r, [Idle EXCEPT !.op = "publish", !.at = "version", !.want = rate,
                    !.params = config.params,
                    !.number = config.version
                                 + (IF config.status = "PUBLISHED" THEN 1 ELSE 0)])
    /\ UNCHANGED <<config, rate, versions, clean>>

PublishSnapshots(r) ==
    /\ Step(r, "publish", "version")
    /\ versions' = Append(versions, [version |-> req[r].number,
                                     params |-> req[r].params, rate |-> req[r].want])
    /\ Move(r, "status")
    /\ UNCHANGED <<config, rate, calls, clean>>

PublishMarks(r) ==
    /\ Step(r, "publish", "status")
    /\ config' = [config EXCEPT !.status = "PUBLISHED", !.version = req[r].number]
    /\ clean' = req[r].alone
    /\ Finish(r)
    /\ UNCHANGED <<rate, versions, calls>>

-----------------------------------------------------------------------------
(* rollback: status and percentages first, then the cells of the snapshot   *)

RollbackReads(r) ==
    \E i \in DOMAIN versions :
        /\ Begin(r, [Idle EXCEPT !.op = "rollback", !.at = "status",
                        !.params = versions[i].params, !.want = versions[i].rate])
        /\ UNCHANGED <<config, rate, versions, clean>>

\* Mutant: the percentages of the draft stay.
RollbackMarksOnly(r) ==
    /\ Step(r, "rollback", "status")
    /\ config' = [config EXCEPT !.status = "DRAFT"]
    /\ req' = [req EXCEPT ![r].at = "cells",
                          ![r].todo = {c \in Cells : req[r].want[c] # None}]
    /\ UNCHANGED <<rate, versions, calls, clean>>

RollbackMarks(r) ==
    /\ Step(r, "rollback", "status")
    /\ config' = [config EXCEPT !.status = "DRAFT", !.params = req[r].params]
    /\ req' = [req EXCEPT ![r].at = "cells",
                          ![r].todo = {c \in Cells : req[r].want[c] # None}]
    /\ UNCHANGED <<rate, versions, calls, clean>>

-----------------------------------------------------------------------------

\* A statement fails, or the process dies: what was committed stays.
Fails(r) ==
    /\ req[r] # Idle
    /\ clean' = (clean /\ req[r].op # "cells")
    /\ Finish(r)
    /\ UNCHANGED <<config, rate, versions, calls>>

Init ==
    /\ config = [status |-> "NONE", version |-> 0, params |-> None]
    /\ rate = NoMatrix /\ versions = <<>>
    /\ req = [r \in Requests |-> Idle] /\ calls = 0
    /\ clean = TRUE

Next ==
    \/ \E r \in Requests :
        \/ OpenReads(r) \/ OpenCreates(r) \/ WritesCell(r) \/ Ends(r)
        \/ CellsRead(r) \/ CellsMarkDraft(r)
        \/ PublishReads(r) \/ PublishSnapshots(r) \/ PublishMarks(r)
        \/ RollbackReads(r) \/ RollbackMarks(r)
        \/ Fails(r)
    \/ UpdateParams

Spec == Init /\ [][Next]_vars

-----------------------------------------------------------------------------

\* Every variable has its shape, and whatever is billed, published or restored has
\* percentages.
TypeOK ==
    /\ config \in Config /\ rate \in Matrix /\ versions \in Seq(Version)
    /\ req \in [Requests -> Request] /\ calls \in 0..MaxCalls /\ clean \in BOOLEAN
    /\ Exists => config.params \in Params
    /\ \A r \in Requests : req[r].op \in {"publish", "rollback"} => req[r].params \in Params

CellsInFlight == \E r \in Requests : req[r].op = "cells"

\* The rows that are billed from are those of a snapshot with the published number, as
\* long as the publication met no other request, no edit of cells has failed since, and
\* none is running: an edit marks the configuration DRAFT only after its last cell.
PublishedIsSnapshot ==
    config.status = "PUBLISHED" /\ clean /\ ~CellsInFlight =>
        \E i \in DOMAIN versions :
            versions[i] = [version |-> config.version, params |-> config.params,
                           rate |-> rate]

\* A rollback that met no other request ends with a draft of the percentages and of
\* every rate of the snapshot; cells the snapshot does not have keep their rates.
RollbackRestores ==
    \A r \in Requests :
        Step(r, "rollback", "cells") /\ req[r].todo = {} /\ req[r].alone =>
            /\ config.status = "DRAFT" /\ config.params = req[r].params
            /\ \A c \in Cells : req[r].want[c] # None => rate[c] = req[r].want[c]
=============================================================================
