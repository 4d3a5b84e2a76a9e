----------------------------- MODULE ManualPage -----------------------------
(***************************************************************************)
(* The portal's page for manual attendance, ManualAttendancePage.tsx: what *)
(* its form says, the one operation it has under way (busy disables every  *)
(* button, never the selects and the inputs) and what its requests do to   *)
(* the rows and the hours on the server.  Several staff have the page      *)
(* open, and students check in and out meanwhile.                          *)
(*                                                                         *)
(* A handler of the server is one step here: its transactions are those of *)
(* module Attendance.  Of a row only its id, whether it has a check-out and *)
(* whether its status is EXCUSED are kept, of the hours which of some sets *)
(* of five they are.                                                       *)
(***************************************************************************)
EXTENDS FiniteSets

CONSTANTS
  Pages,            \* open pages, one per member of staff
  Admins,           \* those of Pages opened with the role admin
  Students, Sessions,
  RecordIds,        \* UUIDs the server may give to rows
  HourSets, DefaultHours,
  None

Slot == Students \X Sessions

VARIABLES
  table, taken,     \* attendance_records by (student, session), and the ids given so far
  hours,            \* the five hour columns of each session
  form,             \* of each page: its state
  call              \* of each page: the request it waits for

vars == <<table, taken, hours, form, call>>

Row == [id: RecordIds, out: BOOLEAN, excused: BOOLEAN]
Found == [id: RecordIds, slot: Slot, out: BOOLEAN]
Form == [student: Students \cup {None}, session: Sessions \cup {None},
         recordId: RecordIds \cup {None}, found: Found \cup {None},
         hours: HourSets, listed: [Sessions -> HourSets]]

Ops == {"hours", "check_in", "check_out", "list", "excuse", "clear_excuse",
        "find", "clear_check_out", "delete"}

\* picked is what the two selects said when the button was pressed, status what
\* the server or the client's timeout has come to, data the rows it answered.
Call == [op: Ops, picked: (Students \cup {None}) \X (Sessions \cup {None}),
         id: RecordIds \cup {None}, found: Found \cup {None}, hours: HourSets,
         status: {"sent", "ok", "error"}, data: SUBSET Found]

Picked(p) == <<form[p].student, form[p].session>>
Busy(p) == call[p] # None
Rows == {[id |-> table[x].id, slot |-> x, out |-> table[x].out] :
           x \in {y \in Slot : table[y] # None}}

-----------------------------------------------------------------------------
(* What staff do to the form, whether an operation is under way or not.    *)

PickStudent(p, st) ==
  /\ form' = [form EXCEPT ![p].student = st]
  /\ UNCHANGED <<table, taken, hours, call>>

\* The hours shown follow the session picked (the effect on sessionId).
PickSession(p, s) ==
  /\ form' = [form EXCEPT ![p].session = s,
                          ![p].hours = IF s = None THEN @ ELSE form[p].listed[s]]
  /\ UNCHANGED <<table, taken, hours, call>>

TypeRecordId(p, id) ==
  /\ form' = [form EXCEPT ![p].recordId = id]
  /\ UNCHANGED <<table, taken, hours, call>>

TypeHours(p, h) ==
  /\ form' = [form EXCEPT ![p].hours = h]
  /\ UNCHANGED <<table, taken, hours, call>>

-----------------------------------------------------------------------------
(* The buttons.                                                            *)

Request(p, op, id) ==
  [op |-> op, picked |-> Picked(p), id |-> id, found |-> form[p].found,
   hours |-> form[p].hours, status |-> "sent", data |-> {}]

Ask(p, op, id) ==
  /\ ~Busy(p)
  /\ call' = [call EXCEPT ![p] = Request(p, op, id)]
  /\ UNCHANGED <<table, taken, hours>>

SaveHours(p) ==
  /\ form[p].session # None
  /\ Ask(p, "hours", None)
  /\ UNCHANGED form

SaveTimes(p) ==
  /\ Picked(p) \in Slot
  /\ \E op \in {"check_in", "check_out"} : Ask(p, op, None)
  /\ UNCHANGED form

\* Without a record id the page first asks for the list of all records.
Excuse(p) ==
  /\ \/ form[p].recordId # None /\ Ask(p, "excuse", form[p].recordId)
     \/ form[p].recordId = None /\ Picked(p) \in Slot /\ Ask(p, "list", None)
  /\ UNCHANGED form

ClearExcuse(p) ==
  /\ form[p].recordId # None
  /\ Ask(p, "clear_excuse", form[p].recordId)
  /\ UNCHANGED form

FindRecord(p) ==
  /\ p \in Admins
  /\ Picked(p) \in Slot
  /\ Ask(p, "find", None)
  /\ form' = [form EXCEPT ![p].found = None]

\* The confirmation names the times of the record found, not whose it is.
RemoveCheckout(p) ==
  /\ p \in Admins
  /\ form[p].found # None /\ form[p].found.out
  /\ Ask(p, "clear_check_out", form[p].found.id)
  /\ UNCHANGED form

RemoveCheckin(p) ==
  /\ p \in Admins
  /\ form[p].found # None
  /\ Ask(p, "delete", form[p].found.id)
  /\ UNCHANGED form

-----------------------------------------------------------------------------
(* The server.                                                             *)

Waiting(p, op) == Busy(p) /\ call[p].op = op /\ call[p].status = "sent"
Answer(p, status, rows) ==
  call' = [call EXCEPT ![p].status = status, ![p].data = rows]

\* What was done may still be reported as an error: the client waits 15 s.
Done(p, rows) ==
  /\ Answer(p, "ok", rows) \/ Answer(p, "error", {})
  /\ UNCHANGED form

Insert(x, out, excused) ==
  /\ table[x] = None
  /\ \E id \in RecordIds \ taken :
       /\ table' = [table EXCEPT ![x] = [id |-> id, out |-> out, excused |-> excused]]
       /\ taken' = taken \cup {id}

StudentChecksIn(x) == Insert(x, FALSE, FALSE) /\ UNCHANGED <<hours, form, call>>

StudentChecksOut(x) ==
  /\ table[x] # None /\ ~table[x].out
  /\ table' = [table EXCEPT ![x].out = TRUE, ![x].excused = FALSE]
  /\ UNCHANGED <<taken, hours, form, call>>

\* PATCH writes all five columns.
UpdateSession(p) ==
  /\ Waiting(p, "hours")
  /\ hours' = [hours EXCEPT ![call[p].picked[2]] = call[p].hours]
  /\ Done(p, {})
  /\ UNCHANGED <<table, taken>>

\* With the status and the times of the form; an existing row keeps a check-out.
ManualCheckIn(p) ==
  LET x == call[p].picked
  IN  /\ Waiting(p, "check_in")
      /\ \E out, excused \in BOOLEAN :
           \/ Insert(x, out, excused)
           \/ /\ table[x] # None
              /\ table' = [table EXCEPT ![x].out = @ \/ out, ![x].excused = excused]
              /\ UNCHANGED taken
      /\ Done(p, {})
      /\ UNCHANGED hours

ManualCheckOut(p) ==
  /\ Waiting(p, "check_out")
  /\ table[call[p].picked] # None
  /\ table' = [table EXCEPT ![call[p].picked].out = TRUE]
  /\ Done(p, {})
  /\ UNCHANGED <<taken, hours>>

\* The list is served to instructors only; the admin router has no such route.
ListRecords(p) ==
  /\ Waiting(p, "list")
  /\ p \notin Admins
  /\ Done(p, Rows)
  /\ UNCHANGED <<table, taken, hours>>

Find(p) ==
  /\ Waiting(p, "find")
  /\ \E f \in Rows : f.slot = call[p].picked /\ Done(p, {f})
  /\ UNCHANGED <<table, taken, hours>>

\* The row with the id of the request becomes new.
Rewrite(p, x, new) ==
  /\ table[x] # None /\ table[x].id = call[p].id
  /\ table' = [table EXCEPT ![x] = new]
  /\ Done(p, {})
  /\ UNCHANGED <<taken, hours>>

ExcuseRecord(p) ==
  /\ Waiting(p, "excuse")
  /\ \E x \in Slot : Rewrite(p, x, [table[x] EXCEPT !.excused = TRUE])

ClearExcused(p) ==
  /\ Waiting(p, "clear_excuse")
  /\ \E x \in Slot : Rewrite(p, x, [table[x] EXCEPT !.excused = FALSE])

ClearCheckOut(p) ==
  /\ Waiting(p, "clear_check_out")
  /\ \E x \in Slot : table[x] # None /\ table[x].out
                     /\ Rewrite(p, x, [table[x] EXCEPT !.out = FALSE])

DeleteRecord(p) ==
  /\ Waiting(p, "delete")
  /\ \E x \in Slot : Rewrite(p, x, None)

\* Nothing found, a body that does not validate, or no connection at all.
Refuse(p) ==
  /\ Busy(p) /\ call[p].status = "sent"
  /\ Answer(p, "error", {})
  /\ UNCHANGED <<table, taken, hours, form>>

-----------------------------------------------------------------------------
(* The answer arrives; finally { setBusy(false) }.                         *)

Answered(p, op) ==
  /\ Busy(p) /\ call[p].op = op /\ call[p].status = "ok"
  /\ UNCHANGED <<table, taken, hours>>
Finally(p) == call' = [call EXCEPT ![p] = None]

\* The list of sessions changes, and with it the hours shown, typed ones too.
HoursSaved(p) ==
  LET s == call[p].picked[2]
      new == [form[p].listed EXCEPT ![s] = call[p].hours]
  IN  /\ Answered(p, "hours")
      /\ form' = [form EXCEPT ![p].listed = new,
                    ![p].hours = IF form[p].session = None THEN @
                                 ELSE new[form[p].session]]
      /\ Finally(p)

\* The picked student and session are those of the press; no such row is an error.
RecordsListed(p) ==
  /\ Answered(p, "list")
  /\ \/ \E f \in call[p].data :
          /\ f.slot = call[p].picked
          /\ call' = [call EXCEPT ![p].op = "excuse", ![p].id = f.id,
                                  ![p].status = "sent", ![p].data = {}]
     \/ (\A f \in call[p].data : f.slot # call[p].picked) /\ Finally(p)
  /\ UNCHANGED form

RecordFound(p) ==
  /\ Answered(p, "find")
  /\ \E f \in call[p].data : form' = [form EXCEPT ![p].found = f]
  /\ Finally(p)

\* setFoundRecord spreads the record of the press.
CheckoutRemoved(p) ==
  /\ Answered(p, "clear_check_out")
  /\ form' = [form EXCEPT ![p].found = [call[p].found EXCEPT !.out = FALSE]]
  /\ Finally(p)

CheckinRemoved(p) ==
  /\ Answered(p, "delete")
  /\ form' = [form EXCEPT ![p].found = None]
  /\ Finally(p)

\* The other operations only tell what the server answered.
Told(p) ==
  /\ \E op \in {"check_in", "check_out", "excuse", "clear_excuse"} : Answered(p, op)
  /\ Finally(p)
  /\ UNCHANGED form

Failed(p) ==
  /\ Busy(p) /\ call[p].status = "error"
  /\ Finally(p)
  /\ UNCHANGED <<table, taken, hours, form>>

-----------------------------------------------------------------------------
\* The pages are loaded, with the first session of the list picked.
Init ==
  /\ table = [x \in Slot |-> None]
  /\ taken = {}
  /\ hours = [s \in Sessions |-> DefaultHours]
  /\ \E first \in Sessions :
       form = [p \in Pages |-> [student |-> None, session |-> first, recordId |-> None,
                                found |-> None, hours |-> DefaultHours, listed |-> hours]]
  /\ call = [p \in Pages |-> None]

Staff(p) ==
  \/ \E st \in Students \cup {None} : PickStudent(p, st)
  \/ \E s \in Sessions \cup {None} : PickSession(p, s)
  \/ \E id \in RecordIds \cup {None} : TypeRecordId(p, id)
  \/ \E h \in HourSets : TypeHours(p, h)
  \/ SaveHours(p) \/ SaveTimes(p)
  \/ Excuse(p) \/ ClearExcuse(p)
  \/ FindRecord(p) \/ RemoveCheckout(p) \/ RemoveCheckin(p)

Server(p) ==
  \/ UpdateSession(p) \/ ManualCheckIn(p) \/ ManualCheckOut(p)
  \/ ListRecords(p) \/ ExcuseRecord(p) \/ ClearExcused(p)
  \/ Find(p) \/ ClearCheckOut(p) \/ DeleteRecord(p)
  \/ Refuse(p)

Client(p) ==
  \/ HoursSaved(p) \/ RecordsListed(p) \/ RecordFound(p)
  \/ CheckoutRemoved(p) \/ CheckinRemoved(p) \/ Told(p) \/ Failed(p)

Next ==
  \/ \E p \in Pages : Staff(p) \/ Server(p) \/ Client(p)
  \/ \E x \in Slot : StudentChecksIn(x) \/ StudentChecksOut(x)

Spec == Init /\ [][Next]_vars
-----------------------------------------------------------------------------
(* Properties.                                                             *)

TypeOK ==
  /\ table \in [Slot -> Row \cup {None}]
  /\ taken \subseteq RecordIds
  /\ hours \in [Sessions -> HourSets]
  /\ form \in [Pages -> Form]
  /\ \A p \in Pages : call[p] # None => call[p] \in Call

\* ManualAttendancePage.tsx:654, "Uses the student + session picked above": a
\* removal that the server has carried out was of a row of the student and the
\* session that the page showed as picked when its button was pressed.
RemovalUsesPicked ==
  \A p \in Pages :
    /\ Busy(p) /\ call[p].op \in {"clear_check_out", "delete"}
    /\ call[p].status = "ok"
    /\ call[p].picked \in Slot
    => call[p].found.slot = call[p].picked
=============================================================================
