----------------------------- MODULE Attendance -----------------------------
(***************************************************************************)
(* The attendance core of the backend: services/attendance_service.py,     *)
(* with the parts of session_service.py, location_service.py,              *)
(* venue_service.py and verification_service.py it reads and writes        *)
(* through the database.                                                   *)
(*                                                                         *)
(* A request is a process.  Each of its steps is one await of the handler  *)
(* on PostgreSQL (READ COMMITTED): what a transaction wrote is visible to  *)
(* the others only after its Commit, and row and advisory locks are held   *)
(* until it commits or rolls back.  Student and manual operations lock the *)
(* session row first (_load_locked_session); the record operations of the  *)
(* admin pages load the record without any lock (db.get) and write back    *)
(* only the columns they changed.                                          *)
(*                                                                         *)
(* Time is counted in ticks, TicksPerMinute to the minute.  The three      *)
(* token tables are three disjoint sets of tokens; for whom a token is     *)
(* minted is a constant of the token.                                      *)
(***************************************************************************)
EXTENDS Integers, FiniteSets

CONSTANTS
  Students, Sessions,
  LocTokens, FaceTokens, VenueTokens,  \* rows of the three verification tables
  Keys,             \* idempotency keys chosen by clients (UUIDs)
  Requests,         \* one HTTP request each; a retry is another request
  Payloads,         \* the request bodies clients and staff send
  HoursChoices,     \* session hours staff may set
  InitialHours, InitialStatus,
  TokenStudent, TokenSession,
  SessionDay,       \* ticks at which campus_now().today = session_date
  AutoSessions,     \* sessions with is_automatic
  LateThreshold,    \* late_threshold_minutes, in ticks
  TokenTTL, TicksPerMinute, MaxTime,
  None

Tokens == LocTokens \cup FaceTokens \cup VenueTokens
Slot == Sessions \X Students           \* what UNIQUE(session_id, student_id) ranges over
Time == 0 .. MaxTime

SessionStatus == {"SCHEDULED", "ACTIVE", "CLOSED", "CANCELLED"}
ManualStatus == {"PRESENT", "LATE", "ABSENT", "EXCUSED", "MANUALLY_APPROVED"}
AttendanceStatus == ManualStatus \cup {"CHECKED_OUT"}
Methods == {"face_gps", "venue_gps", "manual"}

StudentOps == {"check_in", "check_out"}
ManualOps == {"manual_check_in", "manual_check_out"}
RecordOps == {"excuse", "mark_absent", "clear_excuse", "clear_check_out", "delete"}

Payload ==
  [op: StudentOps \cup ManualOps \cup RecordOps,
   session: Sessions, student: Students,
   deviceOk: BOOLEAN,                  \* verdict of verify_device_binding
   loc: LocTokens,
   proof: FaceTokens \cup VenueTokens, \* exactly one of the two: require_proof
   key: Keys,
   at: Time \cup {None}, out: Time \cup {None},
   want: ManualStatus \cup {None}]

Hours == [checkInOpen: Time, officialStart: Time, checkInClose: Time,
          expectedEnd: Time, checkOutClose: Time]

ValidHours(h) ==
  /\ h.checkInOpen < h.checkInClose
  /\ h.expectedEnd < h.checkOutClose

ASSUME SetsAssumption ==
  /\ LocTokens \cap FaceTokens = {}
  /\ LocTokens \cap VenueTokens = {}
  /\ FaceTokens \cap VenueTokens = {}
  /\ Keys \cap Requests = {}
  /\ None \notin Requests \cup Tokens \cup Keys \cup ManualStatus \cup Int
  /\ Payloads \subseteq Payload

ASSUME FunctionsAssumption ==
  /\ TokenStudent \in [Tokens -> Students]
  /\ TokenSession \in [Tokens -> Sessions]
  /\ SessionDay \in [Sessions -> SUBSET Time]
  /\ AutoSessions \subseteq Sessions
  /\ LateThreshold \in [Sessions -> Nat]
  /\ InitialStatus \in [Sessions -> SessionStatus]
  /\ InitialHours \in [Sessions -> Hours]
  /\ HoursChoices \subseteq Hours

ASSUME NumbersAssumption ==
  /\ MaxTime \in Nat
  /\ TokenTTL \in Nat
  /\ TicksPerMinute \in Nat \ {0}

VARIABLES
  now,
  status, hours,              \* attendance_sessions.status and the five hour columns
  tok,                        \* token rows: minted, used (used_at is set), exp
  att,                        \* attendance_records, by (session, student)
  sessLock, rowLock, recLock, \* session row, advisory and record row locks
  pc, req, resp,              \* of each request: its step, its body, its answer
  clock, held, snap,          \* its locals: campus_now(), consumed tokens, record read
  events                      \* every committed student check-in and check-out

vars == <<now, status, hours, tok, att, sessLock, rowLock, recLock,
          pc, req, resp, clock, held, snap, events>>

locks == <<sessLock, rowLock, recLock>>
tables == <<status, hours, tok, att, events>>

NoRecord == [id |-> None]
Record ==
  [id: Requests,                       \* the request that inserted the row
   ci: Time, co: Time \cup {None},     \* check_in_at, check_out_at
   status: AttendanceStatus, method: Methods,
   late: Nat, spent: Nat \cup {None},  \* minutes_late, time_spent_minutes
   key: Keys \cup Requests,            \* a request of its own as key: a fresh uuid4()
   excused: BOOLEAN]                   \* excuse_reason, excused_by, excused_at

Answers == {"none", "OK", "REPLAY", "LOST", "DEVICE_MISMATCH", "SESSION_INACTIVE",
            "OUTSIDE_WINDOW", "DUPLICATE_CHECK_IN", "ALREADY_CHECKED_OUT",
            "CHECKOUT_WITHOUT_CHECKIN", "INVALID_TOKEN", "TOKEN_ALREADY_USED",
            "VALIDATION_ERROR", "NOT_FOUND", "STALE_DATA"}

Steps == {"idle", "preflight", "session", "row", "record", "location", "proof",
          "flush", "commit", "load", "write", "done"}

Event == [req: Requests, op: StudentOps, session: Sessions, student: Students,
          tokens: SUBSET Tokens, at: Time]

-----------------------------------------------------------------------------
(* Clock arithmetic of session_service.py.                                 *)

Minutes(from, to) == IF to <= from THEN 0 ELSE (to - from) \div TicksPerMinute

InWindow(s, purpose, t) ==
  /\ t \in SessionDay[s]
  /\ IF purpose = "check_in"
     THEN hours[s].checkInOpen <= t /\ t <= hours[s].checkInClose
     ELSE hours[s].expectedEnd <= t /\ t <= hours[s].checkOutClose

IsLate(s, t) == t >= hours[s].officialStart + LateThreshold[s]
Classified(s, t) == IF IsLate(s, t) THEN "LATE" ELSE "PRESENT"
ClassifiedLate(s, t) == IF IsLate(s, t) THEN Minutes(hours[s].officialStart, t) ELSE 0

-----------------------------------------------------------------------------
(* Requests, transactions and locks.                                       *)

SlotOf(r) == <<req[r].session, req[r].student>>
Goto(r, step) == pc' = [pc EXCEPT ![r] = step]

Free(locksOf, x) == locksOf[x] = None
Take(locksOf, x, r) == [locksOf EXCEPT ![x] = r]
Drop(locksOf, r) == [x \in DOMAIN locksOf |-> IF locksOf[x] = r THEN None ELSE locksOf[x]]

\* Mutant: pg_advisory_lock, which outlives the transaction, instead of
\* pg_advisory_xact_lock.
FinishKeepingRowLock(r, answer) ==
  /\ Goto(r, "done")
  /\ resp' = [resp EXCEPT ![r] = answer]
  /\ sessLock' = Drop(sessLock, r)
  /\ recLock' = Drop(recLock, r)
  /\ held' = [held EXCEPT ![r] = {}]
  /\ snap' = [snap EXCEPT ![r] = NoRecord]
  /\ clock' = [clock EXCEPT ![r] = 0]
  /\ UNCHANGED <<now, req, rowLock>>

\* The transaction ends and the client gets its answer; held is emptied, so
\* tokens marked used inside a transaction that did not commit are unused again.
Finish(r, answer) ==
  /\ Goto(r, "done")
  /\ resp' = [resp EXCEPT ![r] = answer]
  /\ sessLock' = Drop(sessLock, r)
  /\ rowLock' = Drop(rowLock, r)
  /\ recLock' = Drop(recLock, r)
  /\ held' = [held EXCEPT ![r] = {}]
  /\ snap' = [snap EXCEPT ![r] = NoRecord]
  /\ clock' = [clock EXCEPT ![r] = 0]
  /\ UNCHANGED <<now, req>>

Reject(r, answer) == Finish(r, answer) /\ UNCHANGED tables

\* After COMMIT the answer is on its way; the connection may still drop it.
Answered(r, answer) == \E a \in {answer, "LOST"} : Finish(r, a)

-----------------------------------------------------------------------------
(* Clients, the clock and the other writers of the shared tables.          *)

Tick ==
  /\ now < MaxTime
  /\ now' = now + 1
  /\ UNCHANGED <<status, hours, tok, att, sessLock, rowLock, recLock,
                 pc, req, resp, clock, held, snap, events>>

Submit(r, p) ==
  /\ pc[r] = "idle"
  /\ req' = [req EXCEPT ![r] = p]
  /\ Goto(r, IF p.op \in RecordOps THEN "load"
             ELSE IF p.op \in ManualOps THEN "session" ELSE "preflight")
  /\ UNCHANGED <<now, tables, locks, resp, clock, held, snap>>

\* get_active_session_or_error, and the purpose verify_location and
\* verify_venue derive from the record they find.
Purpose(slot) == IF att[slot] = NoRecord THEN "check_in" ELSE "check_out"
ActiveToday(s) == status[s] = "ACTIVE" /\ now \in SessionDay[s]

\* The checks of verify_location and verify_venue and their INSERT are one step:
\* consuming the token checks the session and the window again.
Mint(t) ==
  /\ ~tok[t].minted
  /\ tok' = [tok EXCEPT ![t] = [minted |-> TRUE, used |-> FALSE, exp |-> now + TokenTTL]]
  /\ UNCHANGED <<now, status, hours, att, events, locks, pc, req, resp, clock, held, snap>>

\* The INSERT takes a key-share lock on the session row through its foreign
\* key, so it waits while a transaction holds that row FOR UPDATE.
VerifyLocation(t) ==
  /\ ActiveToday(TokenSession[t])
  /\ InWindow(TokenSession[t], Purpose(<<TokenSession[t], TokenStudent[t]>>), now)
  /\ Free(sessLock, TokenSession[t])
  /\ Mint(t)

VerifyVenue(t) ==
  /\ ActiveToday(TokenSession[t])
  /\ InWindow(TokenSession[t], Purpose(<<TokenSession[t], TokenStudent[t]>>), now)
  /\ Free(sessLock, TokenSession[t])
  /\ Mint(t)

\* The challenge row exists since issue_challenge, which wants the session active
\* today; success only updates it, whatever the session, its window and its lock
\* are by then.
VerifyFace(t) ==
  /\ status[TokenSession[t]] = "ACTIVE"
  /\ \E issued \in SessionDay[TokenSession[t]] : issued <= now
  /\ Mint(t)

EnsureDailySession(s) ==
  /\ s \in AutoSessions
  /\ now \in SessionDay[s]
  /\ Free(sessLock, s)
  /\ status' = [status EXCEPT ![s] = "ACTIVE"]
  /\ UNCHANGED <<now, hours, tok, att, events, locks, pc, req, resp, clock, held, snap>>

UpdateSessionHours(s, h) ==
  /\ ValidHours(h)
  /\ Free(sessLock, s)
  /\ hours' = [hours EXCEPT ![s] = h]
  /\ UNCHANGED <<now, status, tok, att, events, locks, pc, req, resp, clock, held, snap>>

-----------------------------------------------------------------------------
(* check_in, check_out, manual_check_in, manual_check_out.                 *)

VerifyDeviceBinding(r) ==
  /\ pc[r] = "preflight"
  /\ \/ /\ ~req[r].deviceOk
        /\ Reject(r, "DEVICE_MISMATCH")
     \/ /\ req[r].deviceOk
        /\ Goto(r, "session")
        /\ UNCHANGED <<now, tables, locks, req, resp, clock, held, snap>>

\* campus_now(), read where the handler needs it: a student operation when it
\* checks the window, a manual one once it has the record.
ReadClock(r, ops) ==
  clock' = IF req[r].op \in ops THEN [clock EXCEPT ![r] = now] ELSE clock

\* _load_locked_session, then the status check, campus_now() and
\* validate_window, which run without another await.
SessionRefusal(r) ==
  LET s == req[r].session IN
  IF req[r].op \in ManualOps
  THEN IF status[s] = "CANCELLED" THEN "SESSION_INACTIVE" ELSE "none"
  ELSE IF status[s] # "ACTIVE" THEN "SESSION_INACTIVE"
  ELSE IF ~InWindow(s, req[r].op, now) THEN "OUTSIDE_WINDOW"
  ELSE "none"

\* Mutant: the session is read without FOR UPDATE.
LoadSessionUnlocked(r) ==
  /\ pc[r] = "session"
  /\ SessionRefusal(r) = "none"
  /\ ReadClock(r, StudentOps)
  /\ Goto(r, "row")
  /\ UNCHANGED <<now, tables, locks, req, resp, held, snap>>

LoadLockedSession(r) ==
  /\ pc[r] = "session"
  /\ Free(sessLock, req[r].session)
  /\ \/ /\ SessionRefusal(r) # "none"
        /\ Reject(r, SessionRefusal(r))
     \/ /\ SessionRefusal(r) = "none"
        /\ sessLock' = Take(sessLock, req[r].session, r)
        /\ ReadClock(r, StudentOps)
        /\ Goto(r, "row")
        /\ UNCHANGED <<now, tables, rowLock, recLock, req, resp, held, snap>>

\* pg_advisory_xact_lock on the pair
LockAttendanceRow(r) ==
  /\ pc[r] = "row"
  /\ Free(rowLock, SlotOf(r))
  /\ rowLock' = Take(rowLock, SlotOf(r), r)
  /\ Goto(r, "record")
  /\ UNCHANGED <<now, tables, sessLock, recLock, req, resp, clock, held, snap>>

\* Mutant: any existing record is replayed.
ReplayOr(rec, r, refusal) == "REPLAY"

\* A record whose idempotency_key is the one submitted is returned as it is.
Replay(rec, r, refusal) == IF rec.key = req[r].key THEN "REPLAY" ELSE refusal
Open(rec) == rec.co = None /\ rec.status # "CHECKED_OUT"

\* What the handler decides from the record it has just read FOR UPDATE.
RecordVerdict(r) ==
  LET rec == att[SlotOf(r)] IN
  CASE req[r].op = "check_in" ->
         IF rec = NoRecord THEN "none" ELSE Replay(rec, r, "DUPLICATE_CHECK_IN")
    [] req[r].op = "check_out" ->
         IF rec = NoRecord THEN "CHECKOUT_WITHOUT_CHECKIN"
         ELSE IF Open(rec) THEN "none" ELSE Replay(rec, r, "ALREADY_CHECKED_OUT")
    [] req[r].op = "manual_check_out" ->
         IF rec = NoRecord THEN "CHECKOUT_WITHOUT_CHECKIN" ELSE "none"
    [] OTHER -> "none"

\* FOR UPDATE locks the row that exists; an absent row cannot be locked.
RecordLock(r) ==
  IF att[SlotOf(r)] = NoRecord THEN recLock ELSE Take(recLock, SlotOf(r), r)

GetLockedRecord(r) ==
  LET verdict == RecordVerdict(r) IN
  /\ pc[r] = "record"
  /\ Free(recLock, SlotOf(r))
  /\ \/ /\ verdict # "none"
        /\ Reject(r, verdict)
     \/ /\ verdict = "none"
        /\ snap' = [snap EXCEPT ![r] = att[SlotOf(r)]]
        /\ recLock' = RecordLock(r)
        /\ ReadClock(r, ManualOps)
        /\ Goto(r, IF req[r].op \in StudentOps THEN "location" ELSE "flush")
        /\ UNCHANGED <<now, tables, sessLock, rowLock, req, resp, held>>

\* _consume_token: UPDATE ... WHERE token, student, session match, verified,
\* used_at IS NULL, expires_at > now.  A row another open transaction has
\* updated makes the statement wait; otherwise the row is used or diagnosed.
\* Mutant: whose token it is is not checked.
BelongsToAnyone(t, r) == tok[t].minted

BelongsTo(t, r) ==
  /\ tok[t].minted
  /\ TokenStudent[t] = req[r].student
  /\ TokenSession[t] = req[r].session

\* Mutant: used_at IS NULL is missing from the WHERE clause.
UsableAgain(t, r) == BelongsTo(t, r) /\ tok[t].exp > now

Usable(t, r) == BelongsTo(t, r) /\ ~tok[t].used /\ tok[t].exp > now
TokenRefusal(t, r) ==
  IF BelongsTo(t, r) /\ tok[t].used THEN "TOKEN_ALREADY_USED" ELSE "INVALID_TOKEN"

\* Mutant: the UPDATE commits on its own, outside the transaction.
ConsumeTokenAtOnce(r, t, next) ==
  \/ /\ Usable(t, r)
     /\ tok' = [tok EXCEPT ![t].used = TRUE]
     /\ held' = [held EXCEPT ![r] = @ \cup {t}]
     /\ Goto(r, next)
     /\ UNCHANGED <<now, status, hours, att, events, locks, req, resp, clock, snap>>
  \/ /\ ~Usable(t, r)
     /\ Reject(r, TokenRefusal(t, r))

ConsumeToken(r, t, next) ==
  /\ \A q \in Requests \ {r} : t \notin held[q]
  /\ \/ /\ Usable(t, r)
        /\ held' = [held EXCEPT ![r] = @ \cup {t}]
        /\ Goto(r, next)
        /\ UNCHANGED <<now, tables, locks, req, resp, clock, snap>>
     \/ /\ ~Usable(t, r)
        /\ Reject(r, TokenRefusal(t, r))

\* Mutant: the location is taken as proof enough.
ConsumeLocationOnly(r) ==
  /\ pc[r] = "location"
  /\ ConsumeToken(r, req[r].loc, IF req[r].op = "check_in" THEN "flush" ELSE "commit")

ConsumeLocation(r) ==
  /\ pc[r] = "location"
  /\ ConsumeToken(r, req[r].loc, "proof")

\* The face or the venue token, whichever was sent.
ConsumeProof(r) ==
  /\ pc[r] = "proof"
  /\ ConsumeToken(r, req[r].proof, IF req[r].op = "check_in" THEN "flush" ELSE "commit")

-----------------------------------------------------------------------------
(* What a transaction is about to write.                                   *)

CheckInRecordAt(r, t) ==
  LET s == req[r].session IN
  [id |-> r, ci |-> t, co |-> None,
   status |-> Classified(s, t),
   method |-> IF req[r].proof \in FaceTokens THEN "face_gps" ELSE "venue_gps",
   late |-> ClassifiedLate(s, t), spent |-> None,
   key |-> req[r].key, excused |-> FALSE]

\* Mutant: the clock is read a second time when the row is built.
CheckInRecordNow(r) == CheckInRecordAt(r, now)

CheckInRecord(r) == CheckInRecordAt(r, clock[r])

CheckOutRecord(r) ==
  [snap[r] EXCEPT !.co = clock[r],
                  !.spent = Minutes(snap[r].ci, clock[r]),
                  !.status = "CHECKED_OUT"]

Given(value, default) == IF value = None THEN default ELSE value

\* Mutant: time_spent_minutes is not recomputed.
ApplyManualCheckOutOnly(rec, out) ==
  [rec EXCEPT !.co = out,
              !.status = IF rec.status \in {"PRESENT", "LATE"} THEN "CHECKED_OUT"
                         ELSE rec.status]

\* _apply_manual_checkout; its guard is ManualCheckOutOk.
ApplyManualCheckOut(rec, out) ==
  [rec EXCEPT !.co = out,
              !.spent = Minutes(rec.ci, out),
              !.status = IF rec.status \in {"PRESENT", "LATE"} THEN "CHECKED_OUT"
                         ELSE rec.status]

ManualIn(r) ==
  LET s == req[r].session
      at == Given(req[r].at, clock[r])
      target == Given(req[r].want, Classified(s, at))
      late == IF target # "LATE" THEN 0
              ELSE IF ClassifiedLate(s, at) = 0 THEN 5 ELSE ClassifiedLate(s, at)
      base == IF snap[r] = NoRecord
              THEN [id |-> r, ci |-> at, co |-> None, status |-> target,
                    method |-> "manual", late |-> late, spent |-> None,
                    key |-> r, excused |-> target = "EXCUSED"]
              ELSE [snap[r] EXCEPT !.ci = at, !.status = target,
                                   !.method = "manual", !.late = late,
                                   !.excused = @ \/ target = "EXCUSED"]
  IN  IF req[r].out # None THEN ApplyManualCheckOut(base, req[r].out)
      ELSE IF base.co # None THEN [base EXCEPT !.spent = Minutes(at, base.co)]
      ELSE base

ManualOut(r) == ApplyManualCheckOut(snap[r], Given(req[r].out, clock[r]))

ManualCheckOutOk(r) ==
  IF req[r].op = "manual_check_out"
  THEN Given(req[r].out, clock[r]) >= snap[r].ci
  ELSE req[r].out # None => req[r].out >= Given(req[r].at, clock[r])

NewRecord(r) ==
  CASE req[r].op = "check_in" -> CheckInRecord(r)
    [] req[r].op = "check_out" -> CheckOutRecord(r)
    [] req[r].op = "manual_check_in" -> ManualIn(r)
    [] OTHER -> ManualOut(r)

Inserts(r) == pc[r] = "commit" /\ snap[r] = NoRecord

\* idempotency_key is UNIQUE over the whole table.  An INSERT whose key another
\* open transaction has just inserted waits for that transaction to end.
KeyTaken(r) == \E x \in Slot : att[x] # NoRecord /\ att[x].key = req[r].key

FlushRecord(r) ==
  /\ pc[r] = "flush"
  /\ \/ /\ req[r].op = "check_in"
        /\ \A q \in Requests \ {r} : ~(Inserts(q) /\ NewRecord(q).key = req[r].key)
        /\ \/ /\ KeyTaken(r) \/ att[SlotOf(r)] # NoRecord
              /\ Reject(r, "DUPLICATE_CHECK_IN")
           \/ /\ ~KeyTaken(r) /\ att[SlotOf(r)] = NoRecord
              /\ Goto(r, "commit")
              /\ UNCHANGED <<now, tables, locks, req, resp, clock, held, snap>>
     \/ /\ req[r].op \in ManualOps
        /\ ~ManualCheckOutOk(r)
        /\ Reject(r, "VALIDATION_ERROR")
     \/ /\ req[r].op \in ManualOps
        /\ ManualCheckOutOk(r)
        /\ Goto(r, "commit")
        /\ UNCHANGED <<now, tables, locks, req, resp, clock, held, snap>>

EventOf(r) ==
  [req |-> r, op |-> req[r].op, session |-> req[r].session, student |-> req[r].student,
   tokens |-> held[r], at |-> clock[r]]

Commit(r) ==
  /\ pc[r] = "commit"
  /\ att' = [att EXCEPT ![SlotOf(r)] = NewRecord(r)]
  /\ tok' = [t \in Tokens |-> IF t \in held[r] THEN [tok[t] EXCEPT !.used = TRUE]
                              ELSE tok[t]]
  /\ events' = IF req[r].op \in StudentOps THEN events \cup {EventOf(r)} ELSE events
  /\ UNCHANGED <<status, hours>>
  /\ Answered(r, "OK")

\* The worker dies or its connection drops: PostgreSQL rolls back.
Crash(r) == pc[r] \notin {"idle", "done"} /\ Reject(r, "LOST")

-----------------------------------------------------------------------------
(* excuse_attendance, clear_excuse, clear_check_out and                    *)
(* delete_attendance_record: db.get, then an UPDATE (or DELETE) by id.     *)

LoadRecord(r) ==
  /\ pc[r] = "load"
  /\ \/ /\ att[SlotOf(r)] = NoRecord
        /\ Reject(r, "NOT_FOUND")
     \/ /\ att[SlotOf(r)] # NoRecord
        /\ req[r].op = "clear_check_out"
        /\ att[SlotOf(r)].co = None /\ att[SlotOf(r)].status # "CHECKED_OUT"
        /\ Reject(r, "VALIDATION_ERROR")
     \/ /\ att[SlotOf(r)] # NoRecord
        /\ ~(/\ req[r].op = "clear_check_out"
             /\ att[SlotOf(r)].co = None /\ att[SlotOf(r)].status # "CHECKED_OUT")
        /\ snap' = [snap EXCEPT ![r] = att[SlotOf(r)]]
        /\ Goto(r, "write")
        /\ UNCHANGED <<now, tables, locks, req, resp, clock, held>>

\* The record as the handler leaves it in memory.
Edited(r) ==
  LET rec == snap[r] IN
  CASE req[r].op = "excuse" -> [rec EXCEPT !.status = "EXCUSED", !.excused = TRUE]
    [] req[r].op = "mark_absent" -> [rec EXCEPT !.status = "ABSENT", !.excused = TRUE]
    [] req[r].op = "clear_excuse" ->
         [rec EXCEPT !.excused = FALSE,
                     !.status = IF @ = "EXCUSED" THEN "PRESENT" ELSE @]
    [] req[r].op = "clear_check_out" ->
         [rec EXCEPT !.co = None, !.spent = None,
                     !.status = IF @ # "CHECKED_OUT" THEN @
                                ELSE IF rec.late > 0 THEN "LATE" ELSE "PRESENT"]
    [] OTHER -> rec

\* The ORM writes the columns whose value differs from the one it loaded;
\* excused_at is a fresh timestamp, hence always written by an excuse.
Written(r) ==
  LET new == Edited(r)
      old == snap[r]
      cur == att[SlotOf(r)]
  IN  [cur EXCEPT
        !.status = IF new.status # old.status THEN new.status ELSE @,
        !.excused = IF new.excused # old.excused \/ req[r].op \in {"excuse", "mark_absent"}
                    THEN new.excused ELSE @,
        !.co = IF new.co # old.co THEN new.co ELSE @,
        !.spent = IF new.spent # old.spent THEN new.spent ELSE @]

NothingToWrite(r) == req[r].op = "clear_excuse" /\ Edited(r) = snap[r]
Gone(r) == att[SlotOf(r)].id # snap[r].id

\* An UPDATE that finds no row is an error to the ORM, a DELETE that finds none
\* only a warning.
WriteRecord(r) ==
  /\ pc[r] = "write"
  /\ \/ /\ NothingToWrite(r)
        /\ Reject(r, "OK")
     \/ /\ ~NothingToWrite(r)
        /\ Gone(r)
        /\ Reject(r, IF req[r].op = "delete" THEN "OK" ELSE "STALE_DATA")
     \/ /\ ~NothingToWrite(r)
        /\ ~Gone(r)
        /\ Free(recLock, SlotOf(r))
        /\ att' = [att EXCEPT ![SlotOf(r)] =
                     IF req[r].op = "delete" THEN NoRecord ELSE Written(r)]
        /\ UNCHANGED <<status, hours, tok, events>>
        /\ Answered(r, "OK")

-----------------------------------------------------------------------------
Init ==
  /\ now = 0
  /\ status = InitialStatus
  /\ hours = InitialHours
  /\ tok = [t \in Tokens |-> [minted |-> FALSE, used |-> FALSE, exp |-> 0]]
  /\ att = [x \in Slot |-> NoRecord]
  /\ sessLock = [s \in Sessions |-> None]
  /\ rowLock = [x \in Slot |-> None]
  /\ recLock = [x \in Slot |-> None]
  /\ pc = [r \in Requests |-> "idle"]
  /\ req = [r \in Requests |-> None]
  /\ resp = [r \in Requests |-> "none"]
  /\ clock = [r \in Requests |-> 0]
  /\ held = [r \in Requests |-> {}]
  /\ snap = [r \in Requests |-> NoRecord]
  /\ events = {}

\* The steps of the handlers, which the server keeps taking.
Step(r) ==
  \/ VerifyDeviceBinding(r)
  \/ LoadLockedSession(r)
  \/ LockAttendanceRow(r)
  \/ GetLockedRecord(r)
  \/ ConsumeLocation(r)
  \/ ConsumeProof(r)
  \/ FlushRecord(r)
  \/ Commit(r)
  \/ LoadRecord(r)
  \/ WriteRecord(r)

Next ==
  \/ Tick
  \/ \E t \in LocTokens : VerifyLocation(t)
  \/ \E t \in VenueTokens : VerifyVenue(t)
  \/ \E t \in FaceTokens : VerifyFace(t)
  \/ \E s \in Sessions : EnsureDailySession(s)
  \/ \E s \in Sessions, h \in HoursChoices : UpdateSessionHours(s, h)
  \/ \E r \in Requests, p \in Payloads : Submit(r, p)
  \/ \E r \in Requests : Step(r) \/ Crash(r)

Spec == Init /\ [][Next]_vars

\* The event loop resumes every handler whose database call has returned.
FairSpec == Spec /\ \A r \in Requests : WF_vars(Step(r))
-----------------------------------------------------------------------------
(* Properties.                                                             *)

TokenRow == [minted: BOOLEAN, used: BOOLEAN, exp: 0 .. MaxTime + TokenTTL]

TablesOK ==
  /\ status \in [Sessions -> SessionStatus]
  /\ hours \in [Sessions -> Hours]
  /\ tok \in [Tokens -> TokenRow]
  /\ att \in [Slot -> Record \cup {NoRecord}]
  /\ events \in SUBSET Event

RequestsOK ==
  /\ now \in Time
  /\ sessLock \in [Sessions -> Requests \cup {None}]
  /\ rowLock \in [Slot -> Requests \cup {None}]
  /\ recLock \in [Slot -> Requests \cup {None}]
  /\ pc \in [Requests -> Steps]
  /\ req \in [Requests -> Payload \cup {None}]
  /\ resp \in [Requests -> Answers]
  /\ clock \in [Requests -> Time]
  /\ held \in [Requests -> SUBSET Tokens]
  /\ snap \in [Requests -> Record \cup {NoRecord}]

\* Every variable keeps its type; in particular minutes and times stay in range
\* whatever mixture of columns the record operations write.
TypeOK == TablesOK /\ RequestsOK

\* attendance_service.py:8-10: a verification token backs at most one committed
\* check-in or check-out, however many requests carry it.
TokenSingleUse == \A e, f \in events : e # f => e.tokens \cap f.tokens = {}

\* attendance_service.py:8-9: each committed student operation is backed by one
\* location token and one face or venue token of that student and session.
ProvenByOwnTokens ==
  \A e \in events :
    /\ \E l \in LocTokens, p \in FaceTokens \cup VenueTokens : e.tokens = {l, p}
    /\ \A t \in e.tokens : TokenStudent[t] = e.student /\ TokenSession[t] = e.session

\* attendance_service.py:335-336, "so nothing is half-consumed": a token is
\* marked used exactly when a committed operation is backed by it; rejected,
\* rolled back and crashed requests leave their tokens usable.
NothingHalfConsumed ==
  \A t \in Tokens : tok[t].used <=> \E e \in events : t \in e.tokens

\* The answer tells the truth: OK means the operation was committed, an error
\* that nothing was, and a replayed check-in that an earlier submission with
\* this key checked the same student in to the same session.
AnswerTruthful ==
  \A r \in Requests :
    /\ resp[r] \notin {"none", "OK", "LOST"} => ~\E e \in events : e.req = r
    /\ resp[r] = "OK" /\ req[r].op \in StudentOps => \E e \in events : e.req = r
    /\ resp[r] = "REPLAY" /\ req[r].op = "check_in" =>
         \E e \in events : /\ e.op = "check_in"
                           /\ <<e.session, e.student>> = SlotOf(r)
                           /\ req[e.req].key = req[r].key

\* A record that does not say "manual" was created by a committed check-in and
\* still shows its time, whatever the lock-free record operations wrote since.
RecordHasEvidence ==
  \A x \in Slot : att[x] # NoRecord /\ att[x].method # "manual" =>
    \E e \in events : /\ e.req = att[x].id
                      /\ e.op = "check_in"
                      /\ <<e.session, e.student>> = x
                      /\ e.at = att[x].ci

\* time_spent_minutes is always the minutes between the two times of the same
\* row: manual overwrites recompute it, clearing removes both together.
SpentMatchesTimes ==
  \A x \in Slot : att[x] # NoRecord =>
    att[x].spent = IF att[x].co = None THEN None ELSE Minutes(att[x].ci, att[x].co)

InTransaction == {"row", "record", "location", "proof", "flush", "commit"}
RecordRead == {"location", "proof", "flush", "commit"}

\* The record read under lock is still the current one when the transaction
\* writes it back: no update of a concurrent request is lost by a student or
\* manual operation, although the record operations take no lock to read.
LockedReadStaysCurrent ==
  \A r \in Requests :
    pc[r] \in RecordRead => snap[r] = att[SlotOf(r)]

\* What each step of a request may rely on: the kind of its operation, the
\* record it has read, and the tokens it has marked used so far.
StageOK(r) ==
  /\ pc[r] # "idle" => req[r] \in Payload
  /\ pc[r] \in {"preflight", "location", "proof"} => req[r].op \in StudentOps
  /\ pc[r] \in {"session"} \cup InTransaction => req[r].op \in StudentOps \cup ManualOps
  /\ pc[r] \in {"load", "write"} => req[r].op \in RecordOps
  /\ pc[r] \in RecordRead =>
       /\ req[r].op = "check_in" => snap[r] = NoRecord
       /\ req[r].op = "check_out" => snap[r] \in Record /\ Open(snap[r])
       /\ req[r].op = "manual_check_out" => snap[r] \in Record
  /\ pc[r] = "write" => snap[r] \in Record
  /\ held[r] = IF pc[r] = "proof" THEN {req[r].loc}
               ELSE IF pc[r] \in {"flush", "commit"} /\ req[r].op \in StudentOps
               THEN {req[r].loc, req[r].proof}
               ELSE {}

\* The tokens of an open transaction are its student's own, are not used in any
\* committed state, and belong to no other open transaction; a used token was
\* minted, so minting never makes one usable again.
TokensInTransit ==
  /\ \A t \in Tokens : tok[t].used => tok[t].minted
  /\ \A r \in Requests : \A t \in held[r] : BelongsTo(t, r) /\ ~tok[t].used
  /\ \A q, r \in Requests : q # r => held[q] \cap held[r] = {}

\* A request is in a transaction only while it holds the row of its session.
SessionLocked ==
  \A r \in Requests : pc[r] \in InTransaction => sessLock[req[r].session] = r

StageInv == \A r \in Requests : StageOK(r)

\* What the session said when a student's transaction locked it, it still says.
StillAdmitted ==
  \A r \in Requests :
    pc[r] \in InTransaction /\ req[r].op \in StudentOps =>
      status[req[r].session] = "ACTIVE" /\ InWindow(req[r].session, req[r].op, clock[r])

\* A record read FOR UPDATE stays locked until the transaction ends.
RecordLocked ==
  \A r \in Requests :
    pc[r] \in RecordRead /\ snap[r] # NoRecord => recLock[SlotOf(r)] = r

\* At most one transaction at a time is between the session lock and its end in
\* one session, so the advisory lock behind it is never waited for.
OneTransactionPerSession ==
  \A q, r \in Requests :
    /\ pc[q] \in InTransaction
    /\ pc[r] \in InTransaction
    /\ req[q].session = req[r].session
    => q = r

\* The inductive invariant behind the safety theorems: what every step of every
\* request preserves, taken together.
Inductive ==
  /\ TypeOK
  /\ StageInv
  /\ SessionLocked
  /\ StillAdmitted
  /\ RecordLocked
  /\ LockedReadStaysCurrent
  /\ TokensInTransit
  /\ ProvenByOwnTokens
  /\ NothingHalfConsumed
  /\ TokenSingleUse

\* attendance_service.py:6-7: when a student operation commits, its session is
\* ACTIVE and the hours in force at that moment admit the time it recorded,
\* although staff may edit the hours while it runs.
CommittedInWindow ==
  [][\A e \in events' \ events :
       status[e.session] = "ACTIVE" /\ InWindow(e.session, e.op, e.at)]_vars

\* attendance_service.py:11, "serialize concurrent duplicates": a check-in
\* commits only over no record, a check-out only over an open one, judged by
\* the table at the moment of the commit and not by what was read earlier.
AttendOnce ==
  [][\A e \in events' \ events :
       LET rec == att[<<e.session, e.student>>] IN
       IF e.op = "check_in" THEN rec = NoRecord
       ELSE rec # NoRecord /\ rec.co = None /\ rec.status # "CHECKED_OUT"]_vars

\* Every submitted request is answered: the session, advisory and record locks
\* and the waits on token and key rows never form a cycle.
EveryRequestAnswered ==
  \A r \in Requests : pc[r] # "idle" ~> pc[r] = "done"

\* What AttendanceLedger sees of a state.
RollOf(rec) ==
  IF rec = NoRecord THEN "absent"
  ELSE IF rec.co = None /\ rec.status # "CHECKED_OUT" THEN "in" ELSE "out"

Ledger == INSTANCE AttendanceLedger WITH
  Slots <- Slot,
  Places <- LocTokens,
  Proofs <- FaceTokens \cup VenueTokens,
  Owner <- [t \in Tokens |-> <<TokenSession[t], TokenStudent[t]>>],
  roll <- [x \in Slot |-> RollOf(att[x])],
  spent <- {t \in Tokens : tok[t].used},
  journal <- {[slot |-> <<e.session, e.student>>, op |-> e.op, tokens |-> e.tokens]
              : e \in events}

\* The transactions implement the ledger: every commit is one atomic check-in,
\* check-out or staff correction, and no other step shows.
ImplementsLedger == Ledger!Spec

\* attendance_service.py:758, "Status reverts to PRESENT/LATE based on
\* minutes_late (CHECKED_OUT only)": a record without a check-out does not say
\* CHECKED_OUT.
CheckedOutHasTime ==
  \A x \in Slot : att[x] # NoRecord /\ att[x].co = None => att[x].status # "CHECKED_OUT"

\* attendance_service.py:11, "idempotency keys make retries safe": a client that
\* repeats a check-out with the key of one of its own committed check-outs is
\* not told that the check-out was already made by something else.
CheckOutRetryIsReplayed ==
  \A r \in Requests :
    resp[r] = "ALREADY_CHECKED_OUT" =>
      ~\E e \in events : e.op = "check_out" /\ req[e.req] = req[r]
=============================================================================
