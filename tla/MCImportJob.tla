---------------------------- MODULE MCImportJob -----------------------------
(* Three rows in chunks of two: one Property ID on both sides of a row whose *)
(* ID is derived and whose ward may be missing.                              *)
EXTENDS ImportJob

CONSTANTS w1, w2, s1

MCPid == <<"p", "q", "p">>
MCBlank == {2}
MCLate == {2}
MCOneWorker == {w1}
MCTwoWorkers == {w1, w2}
MCSync == {s1}

\* Only the repeated Property ID may have a survey from the field.
MCInit == Init /\ surveys["q", 1] = 0

MCFairSpec == MCInit /\ [][Next]_vars /\ Fairness
=============================================================================
