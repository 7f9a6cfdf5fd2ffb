--------------------------- MODULE AuditDelivery ----------------------------
(***************************************************************************)
(* What the audit ETL promises about the legacy audit log, with no runs,   *)
(* pages, retries or crashes: records that can be read are stored and stay *)
(* stored, a record that cannot be read is buried after every readable one *)
(* before it, and the mark a later run starts from never stands beyond a   *)
(* record that is neither.                                                 *)
(***************************************************************************)
EXTENDS Integers

CONSTANTS N,    \* the log holds records 1..N, in the order it is listed
          Bad   \* records that fail validation

VARIABLES stored, dead, mark

dvars == <<stored, dead, mark>>

Readable == (1..N) \ Bad

DInit == stored = {} /\ dead = {} /\ mark = 0

Store(S) == S \subseteq Readable /\ stored' = stored \cup S /\ UNCHANGED <<dead, mark>>

Bury(S) ==
    /\ S \subseteq Bad
    /\ \A b \in S : \A g \in Readable : g < b => g \in stored
    /\ dead' = dead \cup S
    /\ UNCHANGED <<stored, mark>>

Mark(m) == 1..m \subseteq stored \cup dead /\ mark' = m /\ UNCHANGED <<stored, dead>>

DNext ==
    \/ \E S \in SUBSET (1..N) : Store(S) \/ Bury(S)
    \/ \E m \in 0..N : Mark(m)

DSpec == DInit /\ [][DNext]_dvars
=============================================================================
