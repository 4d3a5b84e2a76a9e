------------------------- MODULE MCFaceVerification -------------------------
(***************************************************************************)
(* Instances of FaceVerification: scans that answer one challenge at the   *)
(* same time, tokens presented twice, and enrolments that race.            *)
(***************************************************************************)
EXTENDS FaceVerification, TLC

CONSTANTS c1, s1, s2, u1, u2, e1, e2
=============================================================================
