------------------------------ MODULE MCChat ------------------------------
(* A student's page and the person it talks to. *)
EXTENDS Chat
=============================================================================
