--------------------------- MODULE MCDailySession ---------------------------
(***************************************************************************)
(* Instances of DailySession: two days, requests that all ask at once, and *)
(* staff moving the check-in window to the afternoon and shortening it.    *)
(***************************************************************************)
EXTENDS DailySession, TLC

CONSTANTS q1, q2, q3

Anyone == Permutations(Requests)

Window(in, out) ==
  [c \in Columns |-> CASE c = <<"check_in", "opens">> -> in
                       [] c = <<"check_in", "closes">> -> out
                       [] c = <<"check_out", "opens">> -> 3
                       [] c = <<"check_out", "closes">> -> 4]

Morning == Window(0, 2)
Edits == {Window(3, 4), Window(0, 1), Window(2, 2)}
=============================================================================
