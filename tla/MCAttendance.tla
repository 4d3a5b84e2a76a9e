---------------------------- MODULE MCAttendance ----------------------------
(***************************************************************************)
(* Small instances of Attendance: one campus day of ticks 0 .. 2, two      *)
(* ticks to the minute.  Check-in is open at 0 and 1, the session starts   *)
(* at 1, check-out is open from 1 (both windows include 1, as they include *)
(* 15:00 in the automatic sessions) to 2; tick 3 is the next day.          *)
(***************************************************************************)
EXTENDS Attendance, TLC

CONSTANTS alice, bob, s1, s2, l1, l2, f1, v1, k1, k2, r1, r2, r3

Day == [s \in Sessions |-> (0 .. 2) \cap Time]
Regular == [checkInOpen |-> 0, officialStart |-> 1, checkInClose |-> 1,
            expectedEnd |-> 1, checkOutClose |-> 2]
\* Hours staff may set: nothing relates the two windows to each other.
Overlapping == [checkInOpen |-> 0, officialStart |-> 1, checkInClose |-> 1,
                expectedEnd |-> 0, checkOutClose |-> 1]
AllOverlapping == [s \in Sessions |-> Overlapping]
AllRegular == [s \in Sessions |-> Regular]
AllActive == [s \in Sessions |-> "ACTIVE"]
AllScheduled == [s \in Sessions |-> "SCHEDULED"]
NoThreshold == [s \in Sessions |-> 0]
AllAlice == [t \in Tokens |-> alice]
AllS1 == [t \in Tokens |-> s1]

Request(op, s, st) ==
  [op |-> op, session |-> s, student |-> st, deviceOk |-> TRUE, loc |-> l1,
   proof |-> f1, key |-> k1, at |-> None, out |-> None, want |-> None]

\* Requests differ only in what they submit, so they may be permuted.
AnyRequest == Permutations(Requests)

\* What staff can do to the record of one student, between that student's own
\* check-ins, which share a location token and may be retries of one another, and
\* check-out; a manual check-in as EXCUSED stands for an excuse.
RecordPayloads ==
  {Request("check_in", s1, alice),
   [Request("check_in", s1, alice) EXCEPT !.key = k2, !.proof = v1],
   [Request("check_out", s1, alice) EXCEPT !.loc = l2, !.proof = v1],
   [Request("manual_check_in", s1, alice) EXCEPT !.at = 0, !.out = 1],
   [Request("manual_check_in", s1, alice) EXCEPT !.at = 1, !.want = "EXCUSED"],
   [Request("manual_check_out", s1, alice) EXCEPT !.out = 0],
   Request("manual_check_out", s1, alice)}
  \cup {Request(op, s1, alice) : op \in RecordOps \ {"excuse"}}

\* Two students and two sessions; bob's request carries alice's tokens, and
\* alice sends one key to both sessions.
CrossPayloads ==
  {Request("check_in", s1, alice),
   Request("check_in", s1, bob),
   [Request("check_in", s1, bob) EXCEPT !.loc = l2, !.proof = v1, !.deviceOk = FALSE],
   [Request("check_in", s2, alice) EXCEPT !.loc = l2, !.proof = v1]}
CrossSession == [t \in Tokens |-> IF t \in {l1, f1} THEN s1 ELSE s2]
LaterHours == {[Regular EXCEPT !.checkInOpen = 1, !.checkInClose = 2, !.officialStart = 2]}

\* A staff member clears the check-out of an excused record while another one
\* corrects the same record by hand.
ClearPayloads ==
  {[Request("manual_check_in", s1, alice) EXCEPT !.at = 0, !.out = 1, !.want = "EXCUSED"],
   [Request("manual_check_in", s1, alice) EXCEPT !.at = 0, !.out = 1],
   Request("clear_check_out", s1, alice)}

\* A student checks in and out, each with a key of its own, and repeats the
\* check-out.
RetryPayloads ==
  {Request("check_in", s1, alice),
   [Request("check_out", s1, alice) EXCEPT !.loc = l2, !.proof = v1, !.key = k2]}

\* Two keys of one student racing for the same tokens, and staff at the record.
ProgressPayloads ==
  {Request("check_in", s1, alice),
   [Request("check_in", s1, alice) EXCEPT !.key = k2],
   Request("manual_check_in", s1, alice),
   Request("excuse", s1, alice)}
=============================================================================
