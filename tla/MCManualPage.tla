---------------------------- MODULE MCManualPage ----------------------------
(***************************************************************************)
(* Two students of one session, the pages of an admin and of an            *)
(* instructor, and a row for each student.                                 *)
(***************************************************************************)
EXTENDS ManualPage

CONSTANTS admin, instructor, alice, bob, s1, id1, id2
=============================================================================
