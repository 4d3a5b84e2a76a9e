# FikaAI: specifications of the attendance system

FikaAI records practical-training attendance. A student proves to be on the
premises (GPS or a venue code) and to be the enrolled person (a face scan with a
liveness challenge), receives a short-lived token for each proof, and exchanges
the tokens for a check-in or a check-out. Staff correct records by hand. The
backend is FastAPI with SQLAlchemy's asyncio extension on PostgreSQL; the
frontend is React.

The specifications describe what happens between the awaits: transactions that
interleave, locks that are held across awaits, tokens that expire or are used
twice, answers that are lost and retried, workers that die. The student's browser is concurrent as well: functions that
run on after their page was left, answers that overtake each other, tabs that
share one sign-in.

## Inventory

| Component | State | Operations | What is hard | What makes it correct |
|---|---|---|---|---|
| Attendance operations (`services/attendance_service.py`, `api/v1/student_attendance.py`) | `attendance_records`, unique per (session, student), unique idempotency key | check-in, check-out, manual check-in/out, excuse, clear excuse, clear check-out, delete | concurrent submissions, retries, staff edits without locks, crashes | one attendance per slot, each backed by own unspent tokens, no lost update, truthful answers |
| Verification tokens (`location_service`, `venue_service`, `verification_service`) | three tables with `used_at`, `expires_at` | verify location/venue/face, consume | consumption inside a transaction that may roll back; two consumers of one token; concurrent scans of one challenge | single use, nothing half-consumed, one event per challenge |
| Sessions and hours (`services/session_service.py`) | `attendance_sessions` | get-or-create of the day's automatic session under an advisory lock, change of hours, windows | concurrent creation, hours read without lock and written by column | one automatic session per day; windows that are windows |
| Audit log (`services/audit_service.py`), pool (`db/session.py`) | `audit_logs`, pooled connections | `write_audit`, `audit_detached` on a second connection | a request holding a connection and locks waits for another connection | what was refused on purpose is recorded; auditing never stops a request |
| Device binding (`services/device_service.py`) | `students.registered_device_*` | verify and auto-bind | first binding races | one device per student |
| Accounts (`api/v1/auth.py`, `core/security.py`, `core/deps.py`) | `users.token_version` | register, login, refresh, logout, change password | revocation by a counter read and written without a lock | revoked tokens stay revoked |
| Chat (`api/v1/chat.py`) | conversations, participants' `last_read_at`, messages | create, send, list, read, delete | polling, retries, two first messages at once | each send once, unread counts, one direct conversation per pair |
| Face enrolment (`services/enrollment_service.py`) | `face_enrollments` | enrol, re-enrol, load | concurrent enrolments | one active enrolment |
| Face recognition (`face_ai/`) | none | liveness, quality, embedding | numerical | thresholds |
| Administration and instructor pages (`api/v1/admin.py`, `instructor.py`) | all tables | CRUD, corrections, hours | cascades against running operations | |
| Reports (`report_service`, `excel_report_service`) | none | aggregate, export | | counts agree with records |
| Attendance page and face scan (`pages/student/AttendancePage.tsx`, `FaceEnrollmentPage.tsx`, `hooks/`) | stage, record, `runId`, camera stream, monitor generation, landmark model | open, leave, scan, enrol, verify, submit | the scan is one asynchronous function that runs on after its page is gone; what it awaited may come late or never | no camera or analysis without a scan, nothing sent of a scan that was left, no record ahead of the server's |
| Server clock (`hooks/useServerClock.ts`, `lib/checkout.ts`) | offset, tick | sync, poll, focus | overlapping requests, sleeping pages, a phone whose clock is set | never fast, boundedly slow, right again |
| QR check-in and sign-in of the student's pages (`App.tsx`, `AutoCheckInPage.tsx`, `lib/`, `services/api.ts`) | token in localStorage, code in sessionStorage, route, timer | scan, sign in, sign out, expire, check in, retry | tabs share a token but not a code; 401 and 429; lost answers | the code survives and leads to the check-in page; retries do not check out |
| Manual attendance page (`pages/portal/ManualAttendancePage.tsx`) | student and session picked, record found, record id, hours typed, busy | set times, excuse, clear excuse, find, remove, save hours | the selects stay free while an operation runs and while a found record is shown | an operation goes to what is picked |
| Other portal pages, reminders, profile, home (`pages/portal`, ...) | forms | requests of the endpoints above | | |

Components talk through the database (shared rows, locks, unique constraints)
and over HTTP (a request may be lost, repeated or answered late); inside one
request, service functions are awaited one after the other.

## Modules

| Module | Models | Checked by |
|---|---|---|
| `Attendance` | the attendance transactions with tokens, locks, keys, retries, crashes; sessions and hours as their environment | `MCAttendance`, three runs |
| `AttendanceLedger` | what the attendance endpoints promise: an atomic roll, spent tokens, a journal | refined by `Attendance` |
| `AttendanceProofs` | inductive invariant and safety theorems of `Attendance` | tlapm |
| `DetachedAudit` | the connection pool under requests that need a second connection (audit rows, the day's session) while they hold one, with the locks they hold meanwhile | `MCDetachedAudit`, two runs |
| `DetachedAuditProofs` | its inductive invariant and safety theorems | tlapm |
| `DailySession` | get-or-create of the day's automatic session behind the advisory lock; read and write of session hours | `MCDailySession`, one run |
| `DayCalendar` | what the day's session promises: made once a day, found by everyone, edited column by column | refined by `DailySession` |
| `DailySessionProofs` | its inductive invariant, safety theorems, and that it implements `DayCalendar` | tlapm |
| `FaceVerification` | challenges, overlapping scans, one-time face tokens and their use; enrolment of faces behind the partial unique index | `MCFaceVerification`, one run |
| `FaceRegister` | what the face services promise: one face at a time, challenges that pass and back one attendance in time | refined by `FaceVerification` |
| `FaceVerificationProofs` | its inductive invariants, safety theorems, and that it implements `FaceRegister` | tlapm |
| `FaceScan` | the face scanner of the browser: pages and dialogs that are left at any await, camera, landmark model, geolocation, requests | `MCFaceScan`, one run |
| `ScanContract` | what the attendance pages promise: a page loads, decides what it will ask, captures, asks, shows the answer | refined by `FaceScan` |
| `FaceScanProofs` | its inductive invariant, safety and action theorems, and that it implements `ScanContract` | tlapm |
| `StudentApp` | tabs, sign-in, the code of a QR scan, interceptors, inactivity, the check-in page | `MCStudentApp`, one run |
| `StudentAppProofs` | its inductive invariant and safety theorems | tlapm |
| `ServerClock` | the clock and the windows of the attendance page | `MCServerClock`, one run |
| `ServerClockProofs` | how far that clock can be off, for all constants | tlapm |
| `Chat` | direct conversations, messages, marks and the page that polls them | `MCChat`, one run |
| `ChatProofs` | its inductive invariant and safety theorems | tlapm |
| `ManualPage` | the portal's page for manual attendance: its form, its requests and the rows they reach | `MCManualPage`, one run, a disagreement |

### Attendance and the code

A request is a process. `Submit` puts its body in `req[r]`; each further action
is one await of the handler on the database, and the atomic steps are what
PostgreSQL makes atomic (READ COMMITTED):

| Action | Code (`attendance_service.py`) |
|---|---|
| `VerifyDeviceBinding` | 200-227, the binding and the commit before the transaction |
| `LoadLockedSession` | `_load_locked_session` 167-180, with the status check and `validate_window` that run without another await |
| `LockAttendanceRow` | `pg_advisory_xact_lock` 54-60 |
| `GetLockedRecord` | `_get_locked_record` 136-147, with the decision about an existing record |
| `ConsumeLocation`, `ConsumeProof` | `_consume_token` 63-133, in the order the code calls it |
| `FlushRecord` | the INSERT and its `IntegrityError` 333-346; the validation of manual times |
| `Commit` | end of `async with db.begin()`: record, tokens and locks at once |
| `LoadRecord`, `WriteRecord` | the four record operations 687-828: `db.get` without lock, then UPDATE of the changed columns |
| `Crash` | the worker or its connection is lost; PostgreSQL rolls back |
| `VerifyLocation`, `VerifyVenue`, `VerifyFace` | a token row is minted |
| `EnsureDailySession`, `UpdateSessionHours` | the session row as seen by attendance |

What an open transaction has written is kept in its locals (`held`, `snap`) until
`Commit` makes it visible; that is the isolation the code gets from PostgreSQL.
An UPDATE of a row which an open transaction has updated waits (`ConsumeToken`),
an INSERT of a key which an open transaction has inserted waits (`FlushRecord`).

### DetachedAudit and DailySession

`DetachedAudit` keeps of a request only its way through the pool. `Connect` is the
first statement of a session (`db/session.py`: 20 + 30 connections), `PoolTimeout`
its `pool_timeout`; `Authenticated` is the end of `get_current_student`, where an
attendance operation closes the read transaction (`attendance_service.py:225`) and
the others keep it; `InsertAudit` is the transaction of `audit_detached`. A row of
`users` whose unique e-mail column has been updated is locked against foreign-key
checks (`Shares`), after any other change of it is not: the courses `email` and `profile`.
An attendance operation is `rejected` where the code writes an audit row behind the session lock
(a duplicate, a used token) and `refused` where it does not; the row of a used token names no actor.
`Save` is the commit of a profile or of a place token, and the `refresh` after it goes to
the pool once more.

`DailySession` has the awaits of `_ensure_daily_session` (`LockAdvisory`,
`FindExisting`, `FindLocation`, `FlushLocation`, `FlushSession`, `CommitEnsure`) and of
`update_session_hours` (`LoadHours`, `FlushHours`, `CommitHours`). Hours are the two
windows; `official_start` is unconstrained in the code and left out. `current` says
whether a row has the configured location, radius and status; only a row of an
earlier start of the server, with other settings, has not.

### FaceVerification

One student in one active session, because every statement of the code selects rows
by student. `LoadChallenge`, `Analyse`, `MatchFace` and `WriteResult` are the awaits of
`verify_face`; `Completed` is the set of columns the ORM updates, which is not the set
the code assigns: a column that is assigned the value it was loaded with is not
written. `PresentToken`, `Consume`, `CommitUse` and `RollbackUse` are what `check_in` and
`check_out` do to a face token; `StartRevoke`, `Revoke`, `InsertFace` and `CommitEnrolment`
are the statements of `enroll_face`. Scores, frames and providers are a choice between
passing, failing before the comparison and failing the comparison.

### Abstractions of Attendance

The check of a location or a venue code and the INSERT of its token
are one step, since consumption checks session and window again. The scan of a face is one
step here (its steps are `FaceVerification`). The replacement of the hours is one step (its read-modify-write is
`DailySession`). Times are ticks; a time outside `SessionDay` is another
day. Audit rows are left out here. `LOST` is the answer a client never sees: a
crash, or a commit whose answer is lost.

### FaceScan

A scanner is an `AttendancePage` or the enrolment dialog inside it; `pc` is the await
at which its function waits, in the order of `scanFace` (276-376): camera and preview
(`useCameraFrames.start`), the landmark model (`loadLandmarker`, one promise for all
pages), a face in the frame (`waitForPosition`), `getLocation` with its three searches,
verify-location, the challenge, the capture, verify-face, the submission; or of `enroll`:
camera, model, poses, the enrolment. `live` is `runId.current === activeRun`. `LeavePage` is
the effect's cleanup: it counts `runId` up and stops camera and monitor, and the function
runs on to its next look at `runId`. `mon.current` is the monitor's generation, `landmarker`
the promise of the module. A deadline is the end of a loop that may come at any time.
`SubmitTimesOut` and `OrphanServed` are a request whose client has given up and that the
server still serves.

### StudentApp

Each QR scan of the phone opens a tab. `Arrive` is where a navigation ends: `Guard`, the
inactivity effect and the redirect of `AttendancePage`; `ToLogin` is
`loginPathPreservingVenue` and a new document. `attempt` is what the check-in page has
under way: `Loaded`, `Tap`, `Located`, `LocationVerified`, `VenueVerified`, `Recorded`,
`AlreadyRecorded` and `Fails` are the awaits of `AutoCheckInPage`, `Unauthorized` and
`TooMany` the response interceptor of `services/api.ts`. `completeAttendance` does not look
whether its page is still there: a link (`Follow`) or the sign-out of `StudentLayout`
(`Navigate`) turns the attempt into one of `Strays`, with `home` the tab it runs in. It goes
on to locate, verify and post, and on success clears that tab's code (`ClearCode`), whatever
the tab shows by then; what it would have told the student nobody sees (`Tells`). Only a new
document (`Load`: a reload, a closed tab, a 401 with a token stored, two idle minutes) ends
it. A request is sent with the stored token or with none (`signed`); with one it may be
accepted or meet a 401, since a token may expire or be revoked at any time, without one it
meets a 401. Which token it was is left out: a 401 clears whichever is stored. What the
server does about a request is `Attendance`; here it is the outcome for one record.
`orphans` are check-ins and check-outs on their way that nobody waits for, as long as the
server would not refuse them anyway.

### ServerClock

`now` is the server's time in seconds; the phone shows `now + skew`. `Sync`, `ServerReads`,
`Arrives` and `Fails` are the request of `sync()`, `TickInterval` and `Poll` the two
intervals, `Focus` the two listeners. Timers of a hidden page stand still (`Hide`); a request
under way then is taken to end within its timeout all the same, which the browser may not
see to. The module is one use of the hook, that of `AttendancePage`. `SessionCountdown` uses it again,
with a difference, a tick and requests of its own: `ClockBounds` is true of each of them, but
what the header shows and what the page admits may differ by the error of both.

### Chat

One student's page and the person it talks to. `Look` and `Insert` are the two halves of
`create_conversation`, `Handle` and `Commit` those of `send_message` (the look for the key, the
commit at the unique index); `LoadMessages`, `MessagesArrive`, `MarkRead` and `LoadEnds` are
`loadMessages` of the page, `LoadConvs` its list, `Send`, `Answered` and `SendFails` its
`send`. The list of conversations is shown as it was when the server answered. `Messages` is
`list_messages` for this page: the latest `Limit` by `created_at`, the moment a
transaction began (`begun`). The page asks for 80 and never for earlier ones, so what is older
than those is not shown to anybody, and the properties of what is shown say so. With three
transactions (`MaxBegins = 3`) the run takes longer than it is given; TLC has found nothing then either.

### ManualPage

A page is its form and at most one operation under way (`busy` disables the buttons, not
the selects and the inputs). Each button is an action that takes a `Request`; each handler
of the server is one step on the row or the hours, whose transactions are those of
`Attendance`; `Done` also lets the client time out on what was done. `HoursSaved`,
`RecordsListed`, `RecordFound`, `CheckoutRemoved` and `CheckinRemoved` are what the page does
with an answer, `Failed` its `catch`. `RecordIds` bounds how many rows are ever inserted.
Of a row its id, its check-out and whether it is EXCUSED are kept. The module has one run, which
shows a disagreement; the rest of its states has been searched for `TypeOK` only, and in part.

## Runs

| Run | Bounds | Shows |
|---|---|---|
| `records`: `TokenSingleUse`, `NothingHalfConsumed`, `AnswerTruthful`, `RecordHasEvidence`, `SpentMatchesTimes`, `ImplementsLedger` | one slot, three requests over eleven bodies that share tokens and keys, ticks 0..1: every pair of operations (an excuse is a manual check-in as EXCUSED here) around a student's own, with a third in between; three requests are the first point where a waiter, a holder and a retry meet | A student's check-ins and check-outs that share tokens and keys, interleaved with each other and with every staff operation on the same record, with retries, crashes and lost answers: every token is spent once, nothing is half-consumed, and what the client is told is what happened. |
| `sessions`: `ProvenByOwnTokens`, `Inductive`, `CommittedInWindow` | two students, two sessions, two requests, ticks 0..2, one change of hours: each pair of bodies that could mix up students or sessions | Two students and two sessions, one of each with somebody else's tokens, while the sessions open and staff move their hours. |
| `progress`: `EveryRequestAnswered` | three requests of four bodies on one slot, no symmetry (liveness) | Under fair scheduling of the handlers every request is answered, whatever it waits for. |
| `pool`: `ConnectionsAccounted`, `RejectionsAreRecorded`, `CommittedIsNotReportedFailed`, `EveryRequestAnswered` | three requests on any of the eight courses, two connections, one user: the smallest pool in which a holder of the session row and a waiter for it use up the connections; no symmetry (liveness) | Three requests on every course share two connections: none leaks or is kept with a lock by who has been answered, the rejections the code audits are recorded or given up by the pool, no committed attendance is answered as an error, and a request that holds the session row while it waits for the pool, and the pool for it, are resolved by the timeout of the pool. |
| `profile`: `ProfileUpdateAnswered` | two requests and three connections, so that the pool is not what blocks | A change of e-mail address waits for its own audit row, which waits for the users row the change has locked. |
| `day`: `AnswersItsDay`, `ImplementsCalendar`, `EveryRequestAnswered` | three requests, two days, two valid edits of the hours and one invalid, a row of an earlier start or none; no symmetry (liveness) | Three requests resolve the day's session at once or change its hours, over midnight and with workers that die: the transactions implement DayCalendar, where nobody hits a unique index, edits meet column by column, everybody gets the session of their day, and requests behind the advisory lock and staff behind a row lock are all answered. |
| `face`: `ChallengeSpentOnce`, `EvidenceIsFresh`, `OneActiveEnrolment`, `ImplementsRegister`, `EveryRequestEnds` | one challenge, two scans, two uses, two enrolments, lifetimes of one tick each, ticks 0..2: two scans are what it takes to answer a challenge twice, two uses to spend it twice, and the last tick is past the expiry of a challenge issued first and of its token; two enrolments, of which the second revokes the first or meets it at the index; no symmetry (liveness) | Two scans answer one challenge at the same time while two transactions present the tokens they mint and two enrolments race: the challenge backs one attendance event, of a scan that began in time; one face is active; both together implement FaceRegister, so that a challenge never goes back a stage and a student is never without a face again; everything that waits for a row or the index ends. |
| `scan`: `DevicesFollowScan`, `UploadsAreSound`, `RecordNotAhead`, `RecordNeverRegresses`, `ImplementsContract`, `EveryScanEnds` | two visits of the page and one enrolment, at most two scan functions running at a time (`Overlap`): the one left behind and the one the student looks at; captures of 1 to 2 frames and one pose, so that a gesture may come before, among or after the frames there is room for; no symmetry (liveness) | The student leaves and reopens the attendance page and its enrolment dialog at every await of a scan, while cameras, the model, positions and answers come late or not at all: no camera stays on, a scan that was left sends no face, the page's record never runs ahead of the server's or falls back, the pages implement ScanContract, and every scan ends. |
| `journey`: `QrNeverFaceId`, `DoneIsTrue`, `NoBlindCheckOut`, `CodeSurvives`, `EveryAttemptEnds` | two tabs, one attempt left behind at a time, one repetition after 429, any number of sign-ins, expiries and links: two tabs are what it takes for one to sign the other out or to record before it, and with the left attempt there are three at once; no symmetry (liveness) | One student scans the room's QR in one or two tabs while sessions expire, idle tabs sign everybody out, requests are lost or repeated after 429, and attempts run on after their page was left: the scan never ends on the Face ID page, its code survives until an attempt of its tab has recorded an attendance, what the page says is recorded is, and a retry after a lost answer does not check out unseen. |
| `clock`: `ClockBounds`, `ScanInWindow`, `ClockRecovers` | two requests under way, a timeout of two seconds, seven seconds around a check-out window, so that a scan may begin later than any the bound admits, a phone that is right or three seconds fast: two requests are what it takes for answers to overtake each other, and the page may sleep longer than a timeout | The page shows the server's time while answers to its requests are delayed, overtake each other or are lost, the page sleeps and the phone's clock is set: once synced the clock is never fast and at most one answer and one tick slow, a check-out scan begins in its window up to that error, and a clock that was set is right again. |
| `chat`: `StoredOnce`, `DuplicatesOverlap`, `OpenIsShown`, `ChatSettles` | two requests for a conversation, one message of each, two runs of `loadMessages` at a time, two transactions that insert a message (one of each person, or two copies of one), and a page that asks for one message where the code asks for 80, so that the other can push it out: two of each kind of request are what it takes for one to overtake the other, and one message of each for the mark of one to pass over that of the other | A student's chat page polls while both people write and open their conversation at the same time, answers overtake each other and requests fail or arrive twice: a message is stored once, it is shown to who has its conversation open unless newer ones push it out of the latest the page asks for, and what stale answers have shown is put right. |
| `removal`: `RemovalUsesPicked` | the pages of an admin and an instructor, two students of one session, a row for each: one to find and one to pick instead | An admin finds the record of one student, picks another in the select above and presses a removal: the record that is still shown is the one removed. |

`CHECK_DEADLOCK FALSE` where the clients' requests are finite: once every request
is answered and the clock has stopped, the system rests.

Fairness is weak fairness of each handler's steps only: the event loop resumes a
coroutine whose database call has returned. Nothing is assumed of clients, of the
clock, of staff, or of crashes. In `DetachedAudit` a handler's step includes the
timeout of its wait for a connection, which SQLAlchemy's pool guarantees.

In the browser, an axios request ends within its timeout of 15 s, `getLocation` with its
own timeouts, the loops of a scan with their deadlines, and intervals of a page in view
come round: those steps have weak fairness. Whether an answer comes or an error is not
assumed, with two exceptions that are stated where they are used: `ClockRecovers`
and the properties of the chat that say what is shown need a network that answers
again and again (strong fairness of an answer), without which the page keeps what it
has. `EveryScanEnds` assumes that the load of the landmark model, which has no timeout
of its own, and the last reading of the position, which waits for the permission of the student, end.

## Bounds

One or two of everything is enough where the hazard is a meeting of two: two tabs, two
pages, two scans of a challenge, two requests for a time. Three
requests are used where a third can come between (records, tokens, the pool, the day).
Actions compare times only with the bounds of windows and lifetimes, so a few
ticks with one on each side and on each boundary stand for a day. Message bodies, frames,
positions and names are not looked at by the code beyond being the same or not.
The inductive invariants are proved without any of these bounds.

## Proofs

`AttendanceProofs` proves the invariant `Inductive` for every number of requests,
students, sessions, tokens and every choice of hours; it assumes only the named
ASSUMEs of `Attendance` (token tables are disjoint, constants have their types).

Token single use is not inductive on its own. The argument: a transaction works
behind the session row lock (`SessionLocked`), so the record it has read stays the
current one (`LockedReadStaysCurrent`, which also needs `RecordLocked` because the
record operations ignore the session lock); what it holds is determined by its
step (`StageInv`); held tokens are unspent, belong to the student and session of
the request and to one open transaction only (`TokensInTransit`); a commit then
adds an event whose tokens are exactly the ones it marks used (`NothingHalfConsumed`),
so no earlier event has them (`TokenSingleUse`). `CommittedInWindow` needs
`StillAdmitted`: the row lock keeps hours and status from changing between the
check and the commit. `AttendOnce` needs that the record read under lock is
current and was judged open.

The theorem `TransactionsImplementLedger` is `Spec => Ledger!Spec`, from the same invariant:
each commit maps to one atomic `CheckIn`, `CheckOut` or `Correct`, every other step stutters.

`Told` says what the table, the events and the answers say of each other. It rests on
`Inductive` and is proved by the way a row can change: by a commit, whose record was built from
the row read under lock, or by a record operation, which writes back some columns of a row it
read without one. `SpentInv` (each time with its minutes, also in a record that is about to be written),
`KeysAreSubmitted` (a client's key in a row is the key of the check-in that inserted it) and
`AnswersCome` (no event and no answer before the end of a request) are what
`SpentMatchesTimes`, `RecordHasEvidence` and `AnswerTruthful` need to be inductive.

`ServerClockProofs` frees the offset of the error of the phone's clock it was taken with:
what is left is the delay of its answer, between zero and the timeout (`Sampled`),
because a request is answered with a time between its sending and now (`InFlight`). A
page in view has ticked within the last second (`Ticked`). The bounds of the clock and of the
windows follow by arithmetic, for every timeout and any number of overlapping requests.

`ChatProofs` needs that a request sent when there was a conversation finds one
(`LateFinds`), since conversations are never removed, and that what is listed is there.

`StudentAppProofs` has an invariant of one tab (`Fine`: with a code it is not on the Face ID
page and not closed, a guarded page has its timer) and one of one attempt, shown or left
(`Honest`: what is done is recorded, and who would check out has been told of the check-in).
The record only grows and the student is not untold, so the other tabs and attempts stay so.
Every step is a new document (`LoadStep`), another page of the same one (`NavigateStep`) or
an attempt that goes on (`AttemptStep`), and each of the three is shown once. `CodesSurvive`
says of the attempt that clears a code that it runs in that tab and has just changed the
record, which needs the typing of `home`: a left attempt that runs has a tab.

`FaceScanProofs` follows one scanner at a time, `ScannerOK`; a step leaves the others as they
were (`OneScanner`). Four things are needed beside the properties. A monitor that is
current is that of a scan that is wanted, and the scan of a page in view is wanted
(`MonitorOK`): a capture goes on only while the monitor runs, and that is why a scan that was left cannot
complete one. What was left has no pose and is not wanted (`LeftOK`), in whatever step its
function waits. A capture begins with no action seen (`CaptureOK`), so that an action seen has its frame.
The load is over before a scan begins (`RecordOK`): without it a late
answer could take the record back. What catches a failed scan is
proved once (`CatchStep`), what leaving does once (`UnmountStep`). A scan that submits has one
request on its way (`PostsOK`).

`ScannersImplementContract` is `Spec => Contract!Spec`, from the same invariant. `ViewOf` maps what
a page knows, `PhaseOf` the await of its function (the awaits up to the capture are one phase,
`verify` is "captured", `submit` is "asking") and `OpOf` whether it checks in or out, which the
contract sees only until the request is on its way. Devices, positions, challenges and all of
a dialog stutter (`OneAlike`). A function that runs on after its page was left is in no phase
of the contract, so its steps stutter only because it cannot get as far as `verify`:
that is `LeftOK` and `MonitorOK` again. One failure of the landmark model ends every scan
that waits for it, hence `GiveUp(S)`. The attempt to prove it found a `CASE` in `EnrolAnswered`
with overlapping guards, which is a choice in TLA+; they are disjoint now.

`DetachedAuditProofs`: that connections are accounted for (`ConnectionsOwned`) does not say that a
request that has been answered has none left, so `ConnectionsAccounted` has `NothingKept` as well: nobody
answered keeps a connection, nobody holds a lock without one. That needs `HeldByStep`, the connections and locks
of each step of each course: two while an audit row or the day's session is written beside an open
transaction, so that one is left when the second goes back (`OneIsLeft`).

`RequestsImplementCalendar` is `Spec => Calendar!Spec`. `PhaseOf` maps the awaits of a request to "asking"
or "editing"; its commit is the one step that shows. `DailyInv` says that what is committed fits
(`StillResolved`: the row found behind the advisory lock, or that there is none, is still so). An
edit goes by a row it read without a lock, so it needs `EditsStand`: rows are never
removed (`RowsStay`). That two edits meet column by column is in the calendar, because the code
promises no more. No action of it answers "ERROR", so the theorem contains `EnsureNeverFails`.

`ServicesImplementRegister` is `Spec => Register!Spec`. `StageOf` maps the columns of a row and the
evidence to the stage of a challenge, `FaceOf` the partial unique index to one face. The
other properties do not say that a stage is never lost, so it needs `RegisterInv`: a column that
says verified is never written back, a row is issued only while there is a face
(`StagesOrdered`), a use spends once and was shown its token before (`UsesInOrder`), and a face
is new when its enrolment ends (`FacesInOrder`). The scan that fails after another has
passed, and the token that is used and rolled back, are stutters. What face the evidence names is
not in the register (see below).

Only model-checked: liveness, which is out of the prover's reach. `ManualPage` has no theorem:
its property is violated.

Type invariants are theorems of their own and part of the inductive invariants; in a run only
that of `Attendance` (in `Inductive`) is checked. Further safety properties
stand as theorems without a run: `OneTransactionPerSession`, `LockedReadStaysCurrent`,
`AttendOnce`, `EveryPageTimesOut`, `WindowsBounded`.

## Disagreements found

- **profile** (`backend/app/api/v1/student_attendance.py:180`): student_update_profile flushes the new users.email, whose unique index makes PostgreSQL lock the row against foreign-key checks as well, and then awaits audit_detached, whose INSERT on another connection needs a key-share lock on the same users row (audit_logs.actor_user_id) before the first transaction commits at line 188. Neither side is ever woken: no lock or statement timeout is configured, and PostgreSQL sees no cycle because the first transaction is idle. The comment says "auditing must never break the request path" (src/backend/app/services/audit_service.py:67). The run: with connections to spare, a profile update that changes the e-mail address is never answered.
- **removal** (`frontend/src/pages/portal/ManualAttendancePage.tsx:329`): removeCheckin and removeCheckout send the id of foundRecord, which a change of the student or of the session (392, 487) leaves as it is and which an answer to findRecord sets whatever is picked by then; the page says "Uses the student + session picked above." (frontend/src/pages/portal/ManualAttendancePage.tsx:654), and its confirmation names times only. The record of the student picked before is deleted.

The configurations named here are instances beside the runs above: TLC finds
the state with each of them.

- **`MCAttendance_clear_race.cfg`** (`CheckedOutHasTime`, `attendance_service.py:776`):
  `clear_check_out` loads the record without a lock (762) and the ORM writes back only
  the columns it changed; the docstring says "Status reverts to PRESENT/LATE based on
  minutes_late (CHECKED_OUT only)." (758). The record is loaded as EXCUSED, a manual check-in
  rewrites it as CHECKED_OUT, and the UPDATE clears the time and leaves the status.
- **`MCAttendance_checkout_retry.cfg`** (`CheckOutRetryIsReplayed`, `attendance_service.py:432`):
  `check_out` compares the submitted key with the key of the check-in; the module says
  "idempotency keys make retries safe" (11). A check-out whose answer was lost is refused
  when repeated with its own key.
- **`MCDailySession_hours.cfg`** (`StoredWindowsAreValid`, `session_service.py:192`):
  hours are validated together, then written by column; two accepted edits
  leave a window that opens after it closes, against "Check-in open must be before
  check-in close." (182).
- **`MCFaceVerification_evidence.cfg`** (`EvidenceNamesMatchedFace`,
  `verification_service.py:286`): a scan that does not match, of a challenge another scan
  has answered, replaces `face_enrollment_id` in the row whose token is used later, against
  "Link face verifications and attendance records to enrolled FaceIDs."
  (`migrations/versions/0003_face_id_audit_trail.py:1`).
- **`MCDetachedAudit_refusals.cfg`** (`EveryRefusalIsRecorded`): "Failed verification attempts
  are recorded even when the surrounding transaction is rolled back" (`audit_service.py:4-5`). A check-in
  or check-out refused for the session or its window (`attendance_service.py:229`, 409), for a
  token that is missing or expired (102-113, 127-133), for the unique key (333), or out of turn
  (422-438), and a place verification outside its window (`location_service.py:115`), end without a row.
- **`MCDetachedAudit_refresh.cfg`** (`NoCommitReportedFailed`): after the commit of a profile
  (`student_attendance.py:208`) or of a verification (`location_service.py:223`, `venue_service.py:167`) the
  row is read again; if the pool stays empty for its timeout, what was committed is answered with 500.
- An admin who excuses a student without a record id always meets an error: the page asks
  `GET /admin/attendance` (`ManualAttendancePage.tsx:224`), which only `instructor.py:244` serves
  for its own role, against "leave blank to auto-find via student+session above" (604). In
  `ManualPage`, `ListRecords` is disabled for `Admins`, and `Refuse` is what is left.
- Two people who open their conversation at the same moment get one each
  (`chat.py:190`, `DuplicatesOverlap` says what is left of uniqueness); the page then lists two.

## Not modelled, and why

Image analysis and embeddings are numerical. Spreadsheet layout, form handling, page
rendering and migrations carry no protocol. Rate limits are modelled where a client
meets them (429), not where they are counted.

Of the repository's 36703 lines of JavaScript and TypeScript, 26510 are the vendored
WebAssembly loaders of MediaPipe under `frontend/public/mediapipe`. They are compiled,
third-party code, modelled only from how `useFaceMonitor` uses them. Most of the rest is
the JSX of pages without protocol state, above all the staff portal. The share of
these lines that a definition can stand for is small for that reason; the
backend, in Python, is where most modules have their source.

Accounts (`token_version`, registration, password changes), device binding, the
administration of people and the configuration are not modelled: `auth.py:257` reads
and writes `token_version` without a lock, `admin.py:384` cascades over records in an
order of locks that is PostgreSQL's, `admin.py:1080` keeps the location mode in a variable of
one worker. The chat is modelled for two people: groups, the search of users and the
deletion of messages, which no page asks for, are left out.

`FaceScan` and `StudentApp` leave out that staff delete a student's record while a page
is open: what the pages then show is what the server said before. One phone has one student,
which the device binding sees to. Before its first answer the page judges windows by
the phone's clock (`AttendancePage.tsx:281`); the server judges them again
(`CommittedInWindow`). The reminders (`lib/reminders.ts:50`) are made in the one minute whose
name the clock shows, and a page that sleeps through it has none.

## What is left

1. `Accounts`: `token_version` under logout and password change, registration, the first binding of a device.
2. `Chat` with groups and deletion.
3. Operators against reference definitions: geofence, robust match, report counts.
4. Abstract specifications of `StudentApp` (what a tab may believe of the record) and `Chat` (a conversation and what its reader has been shown), and their refinement.
