---------------------------- MODULE MCFaceScan ----------------------------
(* Two visits of the page, or one visit and one enrolment on it.           *)
EXTENDS FaceScan
=============================================================================
