--------------------------- MODULE MCDetachedAudit ---------------------------
(***************************************************************************)
(* Instances of DetachedAudit with fewer connections than requests want.   *)
(***************************************************************************)
EXTENDS DetachedAudit, TLC

CONSTANTS q1, q2, q3, alice, c1, c2, c3
=============================================================================
