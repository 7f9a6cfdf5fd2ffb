----------------------------- MODULE MCAuditEtl -----------------------------
(* Three audit records, the second unreadable, and two overlapping runs.    *)
EXTENDS AuditEtl

CONSTANTS r1, r2

MCRunners == {r1, r2}
MCBad == {2}
MCLimits == {2}
MCCaps == {1, 4}
=============================================================================
