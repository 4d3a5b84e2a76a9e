---------------------------- MODULE DailySession ----------------------------
(***************************************************************************)
(* services/session_service.py: the automatic session of each campus day,  *)
(* created by whichever request first asks for it, and the change of a     *)
(* session's hours by staff.                                               *)
(*                                                                         *)
(* _ensure_daily_session works in a transaction of its own behind one      *)
(* advisory lock; the unique index on the date of automatic sessions and   *)
(* the unique name of the training location stand behind it.               *)
(* update_session_hours reads the row without a lock, validates the hours  *)
(* it was sent, and the ORM updates the columns that differ from the row   *)
(* it read.                                                                *)
(***************************************************************************)
EXTENDS Naturals, FiniteSets

CONSTANTS Requests,
          MaxDay,        \* bound on the campus calendar
          Earlier,       \* whoever wrote rows before the server was last started
          HoursChoices,  \* hours staff submit
          DefaultHours,
          None

Days == 0 .. MaxDay
Windows == {"check_in", "check_out"}
Columns == Windows \X {"opens", "closes"}
Hours == [Columns -> Nat]
Answers == {"none", "OK", "REFUSED", "ERROR", "LOST"}  \* and the id of a session
Row == [id: Requests \cup {Earlier}, day: Days, current: BOOLEAN, hours: Hours]

ASSUME DailyAssumption ==
  /\ MaxDay \in Nat
  /\ HoursChoices \subseteq Hours
  /\ DefaultHours \in Hours
  /\ Earlier \notin Requests
  /\ None \notin Requests \cup {Earlier} \cup Row \cup Hours
  /\ Answers \cap (Requests \cup {Earlier}) = {}

VARIABLES
  today,      \* campus_now().today
  rows,       \* automatic sessions that are committed; current: as now configured
  locations,  \* requests that committed a training location row
  advisory,   \* holder of AUTOMATIC_SESSION_LOCK_KEY
  rowLock,    \* holder of a session row, by id
  pc, clock,  \* of each request: its step, the day it read when it began
  found,      \* what its SELECT of the session returned (a row or None)
  located,    \* whether its SELECT of the location returned a row
  want,       \* hours a staff request submits
  resp

vars == <<today, rows, locations, advisory, rowLock, pc, clock, found, located, want, resp>>

ValidWindows(h) == \A w \in Windows : h[w, "opens"] < h[w, "closes"]

Steps == {"idle", "advisory", "find", "locate", "flush_location", "flush_session",
          "commit", "load", "flush_hours", "commit_hours", "done"}

Goto(r, step) == pc' = [pc EXCEPT ![r] = step]
IdOf(row) == IF row = None THEN None ELSE row.id
Unlocked(r) == [i \in DOMAIN rowLock |-> IF rowLock[i] = r THEN None ELSE rowLock[i]]

\* Mutant: the lock of the connection, which a pooled connection keeps.
FinishKeepingAdvisory(r, answer) ==
  /\ Goto(r, "done")
  /\ resp' = [resp EXCEPT ![r] = answer]
  /\ rowLock' = Unlocked(r)
  /\ UNCHANGED <<today, advisory, clock, found, located, want>>

Finish(r, answer) ==
  /\ Goto(r, "done")
  /\ resp' = [resp EXCEPT ![r] = answer]
  /\ rowLock' = Unlocked(r)
  /\ advisory' = IF advisory = r THEN None ELSE advisory
  /\ UNCHANGED <<today, clock, found, located, want>>

Fail(r, answer) == Finish(r, answer) /\ UNCHANGED <<rows, locations>>

-----------------------------------------------------------------------------
Midnight ==
  /\ today < MaxDay
  /\ today' = today + 1
  /\ UNCHANGED <<rows, locations, advisory, rowLock, pc, clock, found, located, want, resp>>

\* find_active_session reads the clock before it asks for the lock.
FindActiveSession(r) ==
  /\ pc[r] = "idle"
  /\ clock' = [clock EXCEPT ![r] = today]
  /\ Goto(r, "advisory")
  /\ UNCHANGED <<today, rows, locations, advisory, rowLock, found, located, want, resp>>

\* Mutant: no advisory lock.
SkipAdvisory(r) ==
  /\ pc[r] = "advisory"
  /\ Goto(r, "find")
  /\ UNCHANGED <<today, rows, locations, advisory, rowLock, clock, found, located, want, resp>>

LockAdvisory(r) ==
  /\ pc[r] = "advisory"
  /\ advisory = None
  /\ advisory' = r
  /\ Goto(r, "find")
  /\ UNCHANGED <<today, rows, locations, rowLock, clock, found, located, want, resp>>

FindExisting(r) ==
  /\ pc[r] = "find"
  /\ \/ \E row \in rows : row.day = clock[r] /\ found' = [found EXCEPT ![r] = row]
     \/ /\ \A row \in rows : row.day # clock[r]
        /\ found' = [found EXCEPT ![r] = None]
  /\ Goto(r, "locate")
  /\ UNCHANGED <<today, rows, locations, advisory, rowLock, clock, located, want, resp>>

FindLocation(r) ==
  /\ pc[r] = "locate"
  /\ located' = [located EXCEPT ![r] = locations # {}]
  /\ Goto(r, IF locations = {} THEN "flush_location" ELSE "flush_session")
  /\ UNCHANGED <<today, rows, locations, advisory, rowLock, clock, found, want, resp>>

\* The uncommitted INSERTs of open transactions.
InsertsLocation(q) == pc[q] \in {"flush_session", "commit"} /\ ~located[q]
InsertsSession(q) == pc[q] = "commit" /\ found[q] = None

\* A unique index: an INSERT waits for an open one with the same key, and fails
\* on a committed one.
FlushLocation(r) ==
  /\ pc[r] = "flush_location"
  /\ ~\E q \in Requests \ {r} : InsertsLocation(q)
  /\ \/ locations # {} /\ Fail(r, "ERROR")
     \/ /\ locations = {}
        /\ Goto(r, "flush_session")
        /\ UNCHANGED <<today, rows, locations, advisory, rowLock, clock, found, located,
                       want, resp>>

\* Mutant: an existing session is returned as it is.
Untouched(row) == row

\* An existing row gets the configured location and radius, no instructor, and the
\* status ACTIVE; a row that has them already is not written.  Only a row made
\* under other settings differs.
Refreshed(row) == [row EXCEPT !.current = TRUE]

FlushSession(r) ==
  /\ pc[r] = "flush_session"
  /\ \/ /\ found[r] = None
        /\ ~\E q \in Requests \ {r} : InsertsSession(q) /\ clock[q] = clock[r]
        /\ \E row \in rows : row.day = clock[r]
        /\ Fail(r, "ERROR")
     \/ /\ found[r] = None
        /\ ~\E q \in Requests \ {r} : InsertsSession(q) /\ clock[q] = clock[r]
        /\ \A row \in rows : row.day # clock[r]
        /\ Goto(r, "commit")
        /\ UNCHANGED <<today, rows, locations, advisory, rowLock, clock, found, located,
                       want, resp>>
     \/ /\ found[r] # None
        /\ Refreshed(found[r]) # found[r] => rowLock[found[r].id] = None
        /\ rowLock' = IF Refreshed(found[r]) = found[r] THEN rowLock
                      ELSE [rowLock EXCEPT ![found[r].id] = r]
        /\ Goto(r, "commit")
        /\ UNCHANGED <<today, rows, locations, advisory, clock, found, located, want, resp>>

NewRow(r) == [id |-> r, day |-> clock[r], current |-> TRUE, hours |-> DefaultHours]

CommitEnsure(r) ==
  /\ pc[r] = "commit"
  /\ rows' = IF found[r] = None THEN rows \cup {NewRow(r)}
             ELSE {IF row.id = found[r].id THEN Refreshed(row) ELSE row : row \in rows}
  /\ locations' = IF located[r] THEN locations ELSE locations \cup {r}
  /\ Finish(r, IF found[r] = None THEN r ELSE found[r].id)

-----------------------------------------------------------------------------
(* update_session_hours, called by admins and instructors.                 *)

SubmitHours(r, h) ==
  /\ pc[r] = "idle"
  /\ want' = [want EXCEPT ![r] = h]
  /\ Goto(r, "load")
  /\ UNCHANGED <<today, rows, locations, advisory, rowLock, clock, found, located, resp>>

\* db.get without a lock, and the checks of the hours.
LoadHours(r) ==
  /\ pc[r] = "load"
  /\ \/ /\ rows = {} \/ ~ValidWindows(want[r])
        /\ Fail(r, "REFUSED")
     \/ /\ ValidWindows(want[r])
        /\ \E row \in rows : found' = [found EXCEPT ![r] = row]
        /\ Goto(r, "flush_hours")
        /\ UNCHANGED <<today, rows, locations, advisory, rowLock, clock, located, want, resp>>

Changed(r) == {c \in Columns : want[r][c] # found[r].hours[c]}

FlushHours(r) ==
  /\ pc[r] = "flush_hours"
  /\ Changed(r) # {} => rowLock[found[r].id] = None
  /\ rowLock' = IF Changed(r) = {} THEN rowLock ELSE [rowLock EXCEPT ![found[r].id] = r]
  /\ Goto(r, "commit_hours")
  /\ UNCHANGED <<today, rows, locations, advisory, clock, found, located, want, resp>>

\* The UPDATE sets the changed columns of the row as it is by now.
CommitHours(r) ==
  /\ pc[r] = "commit_hours"
  /\ rows' = {IF row.id # found[r].id THEN row
              ELSE [row EXCEPT !.hours =
                      [c \in Columns |-> IF c \in Changed(r) THEN want[r][c] ELSE @[c]]]
              : row \in rows}
  /\ UNCHANGED locations
  /\ Finish(r, "OK")

\* The worker or its connection is lost.
Crash(r) == pc[r] \notin {"idle", "done"} /\ Fail(r, "LOST")

-----------------------------------------------------------------------------
EarlierRow == [id |-> Earlier, day |-> 0, current |-> FALSE, hours |-> DefaultHours]

Init ==
  /\ today = 0
  /\ rows \in {{}, {EarlierRow}}
  /\ locations \in {{}, {Earlier}}
  /\ rows # {} => locations # {}     \* location_id is NOT NULL
  /\ advisory = None
  /\ rowLock = [i \in Requests \cup {Earlier} |-> None]
  /\ pc = [r \in Requests |-> "idle"]
  /\ clock = [r \in Requests |-> 0]
  /\ found = [r \in Requests |-> None]
  /\ located = [r \in Requests |-> FALSE]
  /\ want = [r \in Requests |-> None]
  /\ resp = [r \in Requests |-> "none"]

Step(r) ==
  \/ LockAdvisory(r)
  \/ FindExisting(r)
  \/ FindLocation(r)
  \/ FlushLocation(r)
  \/ FlushSession(r)
  \/ CommitEnsure(r)
  \/ LoadHours(r)
  \/ FlushHours(r)
  \/ CommitHours(r)

Next ==
  \/ Midnight
  \/ \E r \in Requests :
       \/ FindActiveSession(r)
       \/ \E h \in HoursChoices : SubmitHours(r, h)
       \/ Step(r)
       \/ Crash(r)

Spec == Init /\ [][Next]_vars
FairSpec == Spec /\ \A r \in Requests : WF_vars(Step(r))
-----------------------------------------------------------------------------
TypeOK ==
  /\ today \in Days
  /\ rows \subseteq Row
  /\ locations \subseteq Requests \cup {Earlier}
  /\ advisory \in Requests \cup {None}
  /\ rowLock \in [Requests \cup {Earlier} -> Requests \cup {None}]
  /\ pc \in [Requests -> Steps]
  /\ clock \in [Requests -> Days]
  /\ found \in [Requests -> Row \cup {None}]
  /\ located \in [Requests -> BOOLEAN]
  /\ want \in [Requests -> Hours \cup {None}]
  /\ resp \in [Requests -> Answers \cup Requests \cup {Earlier}]

\* session_service.py:67-70: behind the advisory lock the unique indexes on the day
\* and on the location name are never hit, so no page that needs the day's
\* session fails because others ask for it at the same time.
EnsureNeverFails == \A r \in Requests : resp[r] # "ERROR"

\* session_service.py:43: a page gets the one automatic session of the day on which
\* it asked, with the settings now in force, even when midnight passes while it waits for the lock.
AnswersItsDay ==
  \A r \in Requests : resp[r] \in Requests \cup {Earlier} =>
    \E row \in rows :
      /\ row.id = resp[r]
      /\ row.day = clock[r]
      /\ row.current
      /\ \A other \in rows : other.day = clock[r] => other = row

\* No two automatic sessions are of one day or made by one request.
RowsDistinct ==
  \A a, b \in rows : a.day = b.day \/ a.id = b.id => a = b

Resolving == {"find", "locate", "flush_location", "flush_session", "commit"}

\* What a request that resolves the day's session knows is still so, because it
\* holds the advisory lock: the row it found or that there is none, and whether
\* there is a training location.
StillResolved(r) ==
  /\ pc[r] \in Resolving => advisory = r
  /\ pc[r] \in Resolving \ {"find"} =>
       IF found[r] = None THEN \A row \in rows : row.day # clock[r]
       ELSE \E row \in rows : row.id = found[r].id /\ row.day = clock[r]
  /\ pc[r] = "flush_location" => locations = {} /\ ~located[r]
  /\ pc[r] \in {"load", "flush_hours", "commit_hours"} => want[r] # None

\* The inductive invariant behind the theorems of this module; a row was made by a
\* request that is done, so a new row never repeats an id.
DailyInv ==
  /\ TypeOK
  /\ RowsDistinct
  /\ \A row \in rows : row.id \in Requests => pc[row.id] = "done"
  /\ \A r \in Requests : resp[r] # "none" => pc[r] = "done"
  /\ \A r \in Requests : StillResolved(r)
  /\ EnsureNeverFails
  /\ AnswersItsDay

\* What a change of hours goes by once it is validated: rows are never removed, so
\* the one it read is still there, if with other hours.
EditsStand ==
  \A r \in Requests : pc[r] \in {"flush_hours", "commit_hours"} =>
    /\ ValidWindows(want[r])
    /\ found[r] # None
    /\ \E row \in rows : row.id = found[r].id

\* What DayCalendar sees of a request.
PhaseOf(r) ==
  CASE pc[r] = "advisory" \/ pc[r] \in Resolving -> "asking"
    [] pc[r] \in {"load", "flush_hours", "commit_hours"} -> "editing"
    [] OTHER -> pc[r]

Calendar == INSTANCE DayCalendar WITH
  sessions <- rows, phase <- [r \in Requests |-> PhaseOf(r)],
  asked <- clock, wish <- want, answer <- resp

\* session_service.py:39-198: behind locks, indexes and workers that die, the day's
\* session is made once and never fails for those who ask at the same time, it is that of the day
\* a page asked on, and an edit replaces nothing but hours it was sent.
ImplementsCalendar == Calendar!Spec

\* Every request is answered: the advisory lock is given back on every path, and
\* a row lock is never waited for in a cycle with it.
EveryRequestAnswered ==
  \A r \in Requests : pc[r] # "idle" ~> pc[r] = "done"

\* session_service.py:178-191, "Check-in open must be before check-in close." and
\* "Checkout open must be before checkout close.": stored windows are windows.
StoredWindowsAreValid == \A row \in rows : ValidWindows(row.hours)
=============================================================================
