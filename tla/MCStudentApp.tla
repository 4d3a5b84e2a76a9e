--------------------------- MODULE MCStudentApp ---------------------------
(* Two tabs of one student: two scans, or a scan and the open application. *)
EXTENDS StudentApp
=============================================================================
