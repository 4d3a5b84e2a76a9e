-------------------------- MODULE AttendanceProofs --------------------------
(***************************************************************************)
(* Proofs about Attendance, for every set of students, sessions, tokens    *)
(* and requests: its inductive invariant, what follows from it, and that   *)
(* the transactions implement AttendanceLedger.                            *)
(***************************************************************************)
EXTENDS Attendance, TLAPS

USE DEF Tokens

-----------------------------------------------------------------------------
(* Arithmetic and the parts of a state.                                    *)

LEMMA DivNat ==
  ASSUME NEW a \in Nat, NEW b \in Nat \ {0}
  PROVE  a \div b \in Nat
  BY SMT

\* Minutes is a natural number whatever the two times are: time_spent_minutes
\* and minutes_late are never negative.
LEMMA MinutesNat ==
  ASSUME NEW a \in Int, NEW b \in Int
  PROVE  Minutes(a, b) \in Nat
  <1>1. CASE b <= a
    BY <1>1 DEF Minutes
  <1>2. CASE ~(b <= a)
    <2>1. b - a \in Nat
      BY <1>2
    <2>2. (b - a) \div TicksPerMinute \in Nat
      BY <2>1, DivNat, NumbersAssumption
    <2> QED
      BY <1>2, <2>2 DEF Minutes
  <1> QED
    BY <1>1, <1>2

LEMMA SlotType ==
  ASSUME NEW r \in Requests, req[r] \in Payload
  PROVE  SlotOf(r) \in Slot
  BY DEF SlotOf, Slot, Payload

LEMMA DropType ==
  ASSUME NEW S, NEW f \in [S -> Requests \cup {None}], NEW r \in Requests
  PROVE  /\ Drop(f, r) \in [S -> Requests \cup {None}]
         /\ \A x \in S : Drop(f, r)[x] = IF f[x] = r THEN None ELSE f[x]
  BY DEF Drop

-----------------------------------------------------------------------------
(* Types.                                                                  *)

LEMMA InitTypes == Init => TypeOK
  <1> SUFFICES ASSUME Init PROVE TypeOK
    OBVIOUS
  <1>1. TablesOK
    BY FunctionsAssumption, NumbersAssumption DEF Init, TablesOK, TokenRow
  <1>2. RequestsOK
    BY NumbersAssumption DEF Init, RequestsOK, Steps, Answers, Time
  <1> QED
    BY <1>1, <1>2 DEF TypeOK

\* The end of a transaction keeps the types of everything but the tables.
LEMMA FinishTypes ==
  ASSUME RequestsOK, NEW r \in Requests, NEW a \in Answers, Finish(r, a)
  PROVE  RequestsOK'
  <1>1. sessLock' \in [Sessions -> Requests \cup {None}]
    BY DropType DEF RequestsOK, Finish
  <1>2. rowLock' \in [Slot -> Requests \cup {None}]
    BY DropType DEF RequestsOK, Finish
  <1>3. recLock' \in [Slot -> Requests \cup {None}]
    BY DropType DEF RequestsOK, Finish
  <1>4. /\ pc' \in [Requests -> Steps]
        /\ resp' \in [Requests -> Answers]
        /\ held' \in [Requests -> SUBSET Tokens]
        /\ snap' \in [Requests -> Record \cup {NoRecord}]
        /\ clock' \in [Requests -> Time]
    BY NumbersAssumption DEF RequestsOK, Finish, Goto, Steps, Time
  <1> QED
    BY <1>1, <1>2, <1>3, <1>4 DEF RequestsOK, Finish

LEMMA RejectTypes ==
  ASSUME TypeOK, NEW r \in Requests, NEW a \in Answers, Reject(r, a)
  PROVE  TypeOK'
  <1>1. RequestsOK'
    BY FinishTypes DEF TypeOK, Reject
  <1>2. TablesOK'
    BY DEF TypeOK, TablesOK, Reject, tables
  <1> QED
    BY <1>1, <1>2 DEF TypeOK

LEMMA AnsweredTypes ==
  ASSUME RequestsOK, NEW r \in Requests, NEW a \in Answers, Answered(r, a)
  PROVE  RequestsOK'
  BY FinishTypes DEF Answered, Answers

\* A classification is a status, and minutes_late a natural number.
LEMMA ClassifiedTypes ==
  ASSUME TypeOK, NEW s \in Sessions, NEW t \in Time
  PROVE  /\ Classified(s, t) \in {"PRESENT", "LATE"}
         /\ ClassifiedLate(s, t) \in Nat
  <1>1. hours[s].officialStart \in Int /\ t \in Int
    BY NumbersAssumption DEF TypeOK, TablesOK, Hours, Time
  <1>2. Minutes(hours[s].officialStart, t) \in Nat
    BY <1>1, MinutesNat
  <1> QED
    BY <1>2 DEF Classified, ClassifiedLate

\* Rows built in memory are rows of the table's type.
LEMMA ManualCheckOutType ==
  ASSUME NEW rec \in Record, NEW out \in Time
  PROVE  ApplyManualCheckOut(rec, out) \in Record
  <1>1. rec.ci \in Int /\ out \in Int
    BY NumbersAssumption DEF Record, Time
  <1>2. Minutes(rec.ci, out) \in Nat
    BY <1>1, MinutesNat
  <1> QED
    BY <1>2 DEF ApplyManualCheckOut, Record, AttendanceStatus

LEMMA CheckInRecordType ==
  ASSUME TypeOK, NEW r \in Requests, req[r] \in Payload
  PROVE  CheckInRecord(r) \in Record
  <1>1. req[r].session \in Sessions /\ clock[r] \in Time /\ req[r].key \in Keys
    BY DEF TypeOK, RequestsOK, Payload
  <1>2. /\ Classified(req[r].session, clock[r]) \in {"PRESENT", "LATE"}
        /\ ClassifiedLate(req[r].session, clock[r]) \in Nat
    BY <1>1, ClassifiedTypes
  <1> QED
    BY <1>1, <1>2 DEF CheckInRecord, CheckInRecordAt, Record, AttendanceStatus,
                      ManualStatus, Methods

LEMMA CheckOutRecordType ==
  ASSUME TypeOK, NEW r \in Requests, snap[r] \in Record
  PROVE  CheckOutRecord(r) \in Record
  <1>1. clock[r] \in Time
    BY DEF TypeOK, RequestsOK
  <1>2. snap[r].ci \in Int /\ clock[r] \in Int
    BY <1>1, NumbersAssumption DEF Record, Time
  <1>3. Minutes(snap[r].ci, clock[r]) \in Nat
    BY <1>2, MinutesNat
  <1> QED
    BY <1>1, <1>3 DEF CheckOutRecord, Record, AttendanceStatus

LEMMA ManualInType ==
  ASSUME TypeOK, NEW r \in Requests, req[r] \in Payload
  PROVE  ManualIn(r) \in Record
  <1> DEFINE s == req[r].session
             at == Given(req[r].at, clock[r])
             target == Given(req[r].want, Classified(s, at))
             late == IF target # "LATE" THEN 0
                     ELSE IF ClassifiedLate(s, at) = 0 THEN 5
                     ELSE ClassifiedLate(s, at)
             base == IF snap[r] = NoRecord
                     THEN [id |-> r, ci |-> at, co |-> None, status |-> target,
                           method |-> "manual", late |-> late, spent |-> None,
                           key |-> r, excused |-> target = "EXCUSED"]
                     ELSE [snap[r] EXCEPT !.ci = at, !.status = target,
                                          !.method = "manual", !.late = late,
                                          !.excused = @ \/ target = "EXCUSED"]
  <1>1. at \in Time
    BY DEF Given, TypeOK, RequestsOK, Payload
  <1>2. /\ Classified(s, at) \in {"PRESENT", "LATE"}
        /\ ClassifiedLate(s, at) \in Nat
    BY <1>1, ClassifiedTypes DEF Payload
  <1>3. target \in AttendanceStatus
    BY <1>2 DEF Given, Payload, AttendanceStatus, ManualStatus
  <1>4. late \in Nat
    BY <1>2
  <1>5. snap[r] \in Record \cup {NoRecord}
    BY DEF TypeOK, RequestsOK
  <1> HIDE DEF at, target, late
  <1>6. base \in Record
    BY <1>1, <1>3, <1>4, <1>5 DEF Record, Methods
  <1>7. CASE req[r].out # None
    <2>1. req[r].out \in Time
      BY <1>7 DEF Payload
    <2>2. ApplyManualCheckOut(base, req[r].out) \in Record
      BY <1>6, <2>1, ManualCheckOutType
    <2> QED
      BY <1>7, <2>2 DEF ManualIn, at, target, late
  <1>8. CASE req[r].out = None
    <2> HIDE DEF base
    <2>1. CASE base.co # None
      <3>1. base.co \in Int /\ at \in Int
        BY <1>1, <1>6, <2>1, NumbersAssumption DEF Record, Time
      <3>2. Minutes(at, base.co) \in Nat
        BY <3>1, MinutesNat
      <3>3. [base EXCEPT !.spent = Minutes(at, base.co)] \in Record
        BY <1>6, <3>2 DEF Record
      <3> QED
        BY <1>8, <2>1, <3>3 DEF ManualIn, base, at, target, late
    <2>2. CASE base.co = None
      BY <1>6, <1>8, <2>2 DEF ManualIn, base, at, target, late
    <2> QED
      BY <2>1, <2>2
  <1> QED
    BY <1>7, <1>8

LEMMA ManualOutType ==
  ASSUME TypeOK, NEW r \in Requests, req[r] \in Payload, snap[r] \in Record
  PROVE  ManualOut(r) \in Record
  <1>1. Given(req[r].out, clock[r]) \in Time
    BY DEF Given, TypeOK, RequestsOK, Payload
  <1> QED
    BY <1>1, ManualCheckOutType DEF ManualOut

LEMMA NewRecordType ==
  ASSUME TypeOK, NEW r \in Requests, StageOK(r), pc[r] = "commit"
  PROVE  NewRecord(r) \in Record
  <1>1. /\ req[r] \in Payload
        /\ req[r].op \in StudentOps \cup ManualOps
        /\ req[r].op \in {"check_out", "manual_check_out"} => snap[r] \in Record
    BY DEF StageOK, InTransaction, RecordRead
  <1>2. CASE req[r].op = "check_in"
    BY <1>1, <1>2, CheckInRecordType DEF NewRecord
  <1>3. CASE req[r].op = "check_out"
    BY <1>1, <1>3, CheckOutRecordType DEF NewRecord
  <1>4. CASE req[r].op = "manual_check_in"
    BY <1>1, <1>4, ManualInType DEF NewRecord
  <1>5. CASE req[r].op = "manual_check_out"
    BY <1>1, <1>5, ManualOutType DEF NewRecord
  <1> QED
    BY <1>1, <1>2, <1>3, <1>4, <1>5 DEF StudentOps, ManualOps

\* The columns a record operation writes keep the row a row.
LEMMA WrittenType ==
  ASSUME TypeOK, NEW r \in Requests, StageOK(r), pc[r] = "write", ~Gone(r)
  PROVE  Written(r) \in Record
  <1>1. req[r] \in Payload /\ snap[r] \in Record
    BY DEF StageOK
  <1>2. att[SlotOf(r)] \in Record
    <2>1. att[SlotOf(r)] \in Record \cup {NoRecord}
      BY <1>1, SlotType DEF TypeOK, TablesOK
    <2>2. att[SlotOf(r)].id \in Requests
      BY <1>1 DEF Gone, Record
    <2> QED
      BY <2>1, <2>2, SetsAssumption DEF NoRecord
  <1>3. Edited(r) \in Record
    BY <1>1 DEF Edited, Record, AttendanceStatus, ManualStatus
  <1> DEFINE new == Edited(r)
             old == snap[r]
             cur == att[SlotOf(r)]
             st == IF new.status # old.status THEN new.status ELSE cur.status
             ex == IF new.excused # old.excused \/ req[r].op \in {"excuse", "mark_absent"}
                   THEN new.excused ELSE cur.excused
             co == IF new.co # old.co THEN new.co ELSE cur.co
             spent == IF new.spent # old.spent THEN new.spent ELSE cur.spent
  <1>4. /\ st \in AttendanceStatus
        /\ ex \in BOOLEAN
        /\ co \in Time \cup {None}
        /\ spent \in Nat \cup {None}
    BY <1>1, <1>2, <1>3 DEF Record
  <1>5. Written(r) = [cur EXCEPT !.status = st, !.excused = ex, !.co = co, !.spent = spent]
    BY DEF Written
  <1> HIDE DEF st, ex, co, spent
  <1> QED
    BY <1>2, <1>4, <1>5 DEF Record

-----------------------------------------------------------------------------
(* TypeOK, action by action.                                               *)

LEMMA MintTypes ==
  ASSUME TypeOK, NEW t \in Tokens, Mint(t)
  PROVE  TypeOK'
  <1>1. now + TokenTTL \in 0 .. MaxTime + TokenTTL
    BY NumbersAssumption DEF TypeOK, RequestsOK, Time
  <1>2. tok' \in [Tokens -> TokenRow]
    BY <1>1 DEF TypeOK, TablesOK, TokenRow, Mint
  <1> QED
    BY <1>2 DEF TypeOK, TablesOK, RequestsOK, Mint, locks

LEMMA EnvironmentTypes ==
  ASSUME TypeOK,
         \/ Tick
         \/ \E s \in Sessions : EnsureDailySession(s)
         \/ \E s \in Sessions, h \in HoursChoices : UpdateSessionHours(s, h)
         \/ \E r \in Requests, p \in Payloads : Submit(r, p)
  PROVE  TypeOK'
  <1>1. CASE Tick
    BY <1>1, NumbersAssumption DEF Tick, TypeOK, TablesOK, RequestsOK, Time
  <1>2. ASSUME NEW s \in Sessions, EnsureDailySession(s)
        PROVE  TypeOK'
    BY <1>2 DEF EnsureDailySession, TypeOK, TablesOK, RequestsOK, locks, SessionStatus
  <1>3. ASSUME NEW s \in Sessions, NEW h \in HoursChoices, UpdateSessionHours(s, h)
        PROVE  TypeOK'
    BY <1>3, FunctionsAssumption
    DEF UpdateSessionHours, TypeOK, TablesOK, RequestsOK, locks
  <1>4. ASSUME NEW r \in Requests, NEW p \in Payloads, Submit(r, p)
        PROVE  TypeOK'
    BY <1>4, SetsAssumption
    DEF Submit, TypeOK, TablesOK, RequestsOK, locks, tables, Goto, Steps
  <1> QED
    BY <1>1, <1>2, <1>3, <1>4

LEMMA ConsumeTokenTypes ==
  ASSUME TypeOK, NEW r \in Requests, NEW t \in Tokens, NEW next \in Steps,
         ConsumeToken(r, t, next)
  PROVE  TypeOK'
  <1>1. CASE Reject(r, TokenRefusal(t, r))
    BY <1>1, RejectTypes DEF TokenRefusal, Answers
  <1>2. CASE /\ held' = [held EXCEPT ![r] = @ \cup {t}]
             /\ Goto(r, next)
             /\ UNCHANGED <<now, tables, locks, req, resp, clock, snap>>
    BY <1>2 DEF TypeOK, TablesOK, RequestsOK, Goto, tables, locks
  <1> QED
    BY <1>1, <1>2 DEF ConsumeToken

\* The four steps that take a lock or read under one.
LEMMA LockingTypes ==
  ASSUME TypeOK, NEW r \in Requests, StageOK(r),
         \/ VerifyDeviceBinding(r)
         \/ LoadLockedSession(r)
         \/ LockAttendanceRow(r)
         \/ GetLockedRecord(r)
  PROVE  TypeOK'
  <1>1. CASE VerifyDeviceBinding(r)
    <2>1. CASE Reject(r, "DEVICE_MISMATCH")
      BY <2>1, RejectTypes DEF Answers
    <2>2. CASE ~Reject(r, "DEVICE_MISMATCH")
      BY <1>1, <2>2
      DEF VerifyDeviceBinding, TypeOK, TablesOK, RequestsOK, Goto, Steps, tables, locks
    <2> QED
      BY <2>1, <2>2
  <1>2. CASE LoadLockedSession(r)
    <2>1. req[r].session \in Sessions
      BY <1>2 DEF LoadLockedSession, StageOK, Payload
    <2>2. CASE Reject(r, SessionRefusal(r))
      BY <2>2, RejectTypes DEF SessionRefusal, Answers
    <2>3. CASE ~Reject(r, SessionRefusal(r))
      BY <1>2, <2>1, <2>3
      DEF LoadLockedSession, ReadClock, TypeOK, TablesOK, RequestsOK, Goto, Steps, Take,
          tables
    <2> QED
      BY <2>2, <2>3
  <1>3. CASE LockAttendanceRow(r)
    <2>1. SlotOf(r) \in Slot
      BY <1>3, SlotType DEF LockAttendanceRow, StageOK
    <2> QED
      BY <1>3, <2>1
      DEF LockAttendanceRow, TypeOK, TablesOK, RequestsOK, Goto, Steps, Take, tables
  <1>4. CASE GetLockedRecord(r)
    <2>1. SlotOf(r) \in Slot
      BY <1>4, SlotType DEF GetLockedRecord, StageOK
    <2>2. CASE Reject(r, RecordVerdict(r))
      BY <2>2, RejectTypes DEF RecordVerdict, Replay, Answers
    <2>3. CASE ~Reject(r, RecordVerdict(r))
      BY <1>4, <2>1, <2>3
      DEF GetLockedRecord, RecordLock, ReadClock, TypeOK, TablesOK, RequestsOK, Goto,
          Steps, Take, tables
    <2> QED
      BY <2>2, <2>3
  <1> QED
    BY <1>1, <1>2, <1>3, <1>4

LEMMA ConsumingTypes ==
  ASSUME TypeOK, NEW r \in Requests, StageOK(r),
         ConsumeLocation(r) \/ ConsumeProof(r)
  PROVE  TypeOK'
  <1>1. req[r] \in Payload
    BY DEF StageOK, ConsumeLocation, ConsumeProof
  <1>2. CASE ConsumeLocation(r)
    <2>1. req[r].loc \in Tokens
      BY <1>1 DEF Payload
    <2> QED
      BY <1>2, <2>1, ConsumeTokenTypes DEF ConsumeLocation, Steps
  <1>3. CASE ConsumeProof(r)
    <2>1. req[r].proof \in Tokens
      BY <1>1 DEF Payload
    <2> QED
      BY <1>3, <2>1, ConsumeTokenTypes DEF ConsumeProof, Steps
  <1> QED
    BY <1>2, <1>3

LEMMA FlushTypes ==
  ASSUME TypeOK, NEW r \in Requests, FlushRecord(r)
  PROVE  TypeOK'
  <1>1. CASE \E a \in Answers : Reject(r, a)
    BY <1>1, RejectTypes
  <1>2. CASE /\ Goto(r, "commit")
             /\ UNCHANGED <<now, tables, locks, req, resp, clock, held, snap>>
    BY <1>2 DEF TypeOK, TablesOK, RequestsOK, Goto, Steps, tables, locks
  <1> QED
    BY <1>1, <1>2 DEF FlushRecord, Answers

LEMMA CommitTypes ==
  ASSUME TypeOK, NEW r \in Requests, StageOK(r), Commit(r)
  PROVE  TypeOK'
  <1>1. /\ req[r] \in Payload
        /\ SlotOf(r) \in Slot
        /\ NewRecord(r) \in Record
    BY SlotType, NewRecordType DEF Commit, StageOK
  <1>2. att' \in [Slot -> Record \cup {NoRecord}]
    BY <1>1 DEF Commit, TypeOK, TablesOK
  <1>3. tok' \in [Tokens -> TokenRow]
    BY DEF Commit, TypeOK, TablesOK, TokenRow
  <1>4. events' \in SUBSET Event
    <2>1. CASE req[r].op \in StudentOps
      <3>1. EventOf(r) \in Event
        BY <1>1, <2>1 DEF EventOf, Event, TypeOK, RequestsOK, Payload
      <3> QED
        BY <2>1, <3>1 DEF Commit, TypeOK, TablesOK
    <2>2. CASE req[r].op \notin StudentOps
      BY <2>2 DEF Commit, TypeOK, TablesOK
    <2> QED
      BY <2>1, <2>2
  <1>5. RequestsOK'
    BY AnsweredTypes DEF Commit, TypeOK, Answers
  <1> QED
    BY <1>2, <1>3, <1>4, <1>5 DEF Commit, TypeOK, TablesOK

LEMMA RecordTypes ==
  ASSUME TypeOK, NEW r \in Requests, StageOK(r), LoadRecord(r) \/ WriteRecord(r)
  PROVE  TypeOK'
  <1>1. SlotOf(r) \in Slot
    BY SlotType DEF LoadRecord, WriteRecord, StageOK
  <1>2. CASE \E a \in Answers : Reject(r, a)
    BY <1>2, RejectTypes
  <1>3. CASE LoadRecord(r) /\ ~\E a \in Answers : Reject(r, a)
    BY <1>1, <1>3
    DEF LoadRecord, TypeOK, TablesOK, RequestsOK, Goto, Steps, Answers, tables, locks
  <1>4. CASE WriteRecord(r) /\ ~\E a \in Answers : Reject(r, a)
    <2>1. /\ ~Gone(r)
          /\ att' = [att EXCEPT ![SlotOf(r)] =
                       IF req[r].op = "delete" THEN NoRecord ELSE Written(r)]
          /\ UNCHANGED <<status, hours, tok, events>>
          /\ Answered(r, "OK")
      BY <1>4 DEF WriteRecord, Answers
    <2>2. Written(r) \in Record
      BY <1>4, <2>1, WrittenType DEF WriteRecord
    <2>3. RequestsOK'
      BY <2>1, AnsweredTypes DEF TypeOK, Answers
    <2> QED
      BY <1>1, <2>1, <2>2, <2>3 DEF TypeOK, TablesOK
  <1> QED
    BY <1>2, <1>3, <1>4

\* Every step keeps every type.
LEMMA NextTypes ==
  ASSUME TypeOK, StageInv, [Next]_vars
  PROVE  TypeOK'
  <1>1. CASE UNCHANGED vars
    BY <1>1 DEF vars, TypeOK, TablesOK, RequestsOK
  <1>2. CASE \/ \E t \in LocTokens : VerifyLocation(t)
             \/ \E t \in VenueTokens : VerifyVenue(t)
             \/ \E t \in FaceTokens : VerifyFace(t)
    BY <1>2, MintTypes DEF VerifyLocation, VerifyVenue, VerifyFace
  <1>3. ASSUME NEW r \in Requests, Step(r)
        PROVE  TypeOK'
    BY <1>3, LockingTypes, ConsumingTypes, FlushTypes, CommitTypes, RecordTypes
    DEF StageInv, Step
  <1>4. ASSUME NEW r \in Requests, Crash(r)
        PROVE  TypeOK'
    BY <1>4, RejectTypes DEF Crash, Answers
  <1> QED
    BY <1>1, <1>2, <1>3, <1>4, EnvironmentTypes DEF Next

-----------------------------------------------------------------------------
(* What a step leaves to the other requests.                               *)

\* A handler's step changes the locals of its own request only.
LEMMA OthersKeepTheirs ==
  ASSUME RequestsOK, NEW r \in Requests, Step(r) \/ Crash(r),
         NEW q \in Requests, q # r
  PROVE  /\ pc'[q] = pc[q] /\ req'[q] = req[q] /\ clock'[q] = clock[q]
         /\ held'[q] = held[q] /\ snap'[q] = snap[q]
  <1>1. ASSUME NEW a, Finish(r, a)
        PROVE  /\ pc'[q] = pc[q] /\ req'[q] = req[q] /\ clock'[q] = clock[q]
               /\ held'[q] = held[q] /\ snap'[q] = snap[q]
    BY <1>1 DEF Finish, Goto, RequestsOK
  <1>2. ASSUME NEW t, NEW next, ConsumeToken(r, t, next)
        PROVE  /\ pc'[q] = pc[q] /\ req'[q] = req[q] /\ clock'[q] = clock[q]
               /\ held'[q] = held[q] /\ snap'[q] = snap[q]
    BY <1>1, <1>2 DEF ConsumeToken, Reject, Goto, RequestsOK
  <1>3. CASE VerifyDeviceBinding(r) \/ LoadLockedSession(r)
    BY <1>1, <1>3
    DEF VerifyDeviceBinding, LoadLockedSession, ReadClock, Reject, Goto, RequestsOK
  <1>4. CASE LockAttendanceRow(r) \/ GetLockedRecord(r)
    BY <1>1, <1>4
    DEF LockAttendanceRow, GetLockedRecord, ReadClock, Reject, Goto, RequestsOK
  <1>5. CASE ConsumeLocation(r) \/ ConsumeProof(r)
    BY <1>1, <1>2, <1>5 DEF ConsumeLocation, ConsumeProof, Reject
  <1>6. CASE FlushRecord(r) \/ LoadRecord(r)
    BY <1>1, <1>6 DEF FlushRecord, LoadRecord, Reject, Goto, RequestsOK
  <1>7. CASE Commit(r) \/ WriteRecord(r) \/ Crash(r)
    BY <1>1, <1>7 DEF Commit, WriteRecord, Crash, Reject, Answered
  <1> QED
    BY <1>3, <1>4, <1>5, <1>6, <1>7 DEF Step

\* A request that has been answered asks for nothing more.
LEMMA FinishedStage ==
  ASSUME RequestsOK, NEW r \in Requests, NEW a, Finish(r, a), StageOK(r), pc[r] # "idle"
  PROVE  StageOK(r)'
  BY DEF Finish, Goto, StageOK, RequestsOK, InTransaction, RecordRead

\* A request that has moved on may rely on what its next step relies on.
LEMMA AdvancedStage ==
  ASSUME TypeOK, NEW r \in Requests, Step(r), StageOK(r)
  PROVE  StageOK(r)'
  <1>1. CASE \E a : Finish(r, a)
    BY <1>1, FinishedStage
    DEF TypeOK, Step, VerifyDeviceBinding, LoadLockedSession, LockAttendanceRow,
        GetLockedRecord, ConsumeLocation, ConsumeProof, FlushRecord, Commit, LoadRecord,
        WriteRecord
  <1>2. CASE ~\E a : Finish(r, a)
    <2>1. CASE VerifyDeviceBinding(r)
      BY <1>2, <2>1
      DEF VerifyDeviceBinding, Reject, Goto, StageOK, TypeOK, RequestsOK, InTransaction,
          RecordRead
    <2>2. CASE LoadLockedSession(r)
      BY <1>2, <2>2
      DEF LoadLockedSession, Reject, Goto, StageOK, TypeOK, RequestsOK, InTransaction,
          RecordRead
    <2>3. CASE LockAttendanceRow(r)
      BY <1>2, <2>3
      DEF LockAttendanceRow, Goto, StageOK, TypeOK, RequestsOK, InTransaction, RecordRead
    <2>4. CASE GetLockedRecord(r)
      <3>1. /\ RecordVerdict(r) = "none"
            /\ req[r] \in Payload
            /\ req[r].op \in StudentOps \cup ManualOps
        BY <1>2, <2>4 DEF GetLockedRecord, Reject, StageOK, InTransaction
      <3>2. att[SlotOf(r)] \in Record \cup {NoRecord}
        BY <3>1, SlotType DEF TypeOK, TablesOK
      <3>3. /\ req[r].op = "check_in" => att[SlotOf(r)] = NoRecord
            /\ req[r].op = "check_out" => att[SlotOf(r)] # NoRecord /\ Open(att[SlotOf(r)])
            /\ req[r].op = "manual_check_out" => att[SlotOf(r)] # NoRecord
        BY <3>1, <3>2, SetsAssumption DEF RecordVerdict, Replay
      <3>4. /\ snap'[r] = att[SlotOf(r)]
            /\ pc'[r] = IF req[r].op \in StudentOps THEN "location" ELSE "flush"
            /\ UNCHANGED <<req, held>>
        BY <1>2, <2>4 DEF GetLockedRecord, Reject, Goto, TypeOK, RequestsOK
      <3> QED
        BY <2>4, <3>1, <3>2, <3>3, <3>4
        DEF GetLockedRecord, StageOK, InTransaction, RecordRead, Open
    <2>5. CASE ConsumeLocation(r)
      <3>1. /\ held'[r] = held[r] \cup {req[r].loc}
            /\ pc'[r] = "proof"
            /\ UNCHANGED <<req, snap>>
        BY <1>2, <2>5 DEF ConsumeLocation, ConsumeToken, Reject, Goto, TypeOK, RequestsOK
      <3> QED
        BY <2>5, <3>1 DEF ConsumeLocation, StageOK, InTransaction, RecordRead, Open
    <2>6. CASE ConsumeProof(r)
      <3>1. /\ held'[r] = held[r] \cup {req[r].proof}
            /\ pc'[r] \in {"flush", "commit"}
            /\ UNCHANGED <<req, snap>>
        BY <1>2, <2>6 DEF ConsumeProof, ConsumeToken, Reject, Goto, TypeOK, RequestsOK
      <3> QED
        BY <2>6, <3>1 DEF ConsumeProof, StageOK, InTransaction, RecordRead, Open
    <2>7. CASE FlushRecord(r)
      BY <1>2, <2>7
      DEF FlushRecord, Reject, Goto, StageOK, TypeOK, RequestsOK, InTransaction,
          RecordRead, Open
    <2>8. CASE LoadRecord(r)
      <3>1. att[SlotOf(r)] \in Record \cup {NoRecord}
        BY <2>8, SlotType DEF LoadRecord, StageOK, TypeOK, TablesOK
      <3> QED
        BY <1>2, <2>8, <3>1
        DEF LoadRecord, Reject, Goto, StageOK, TypeOK, RequestsOK, InTransaction,
            RecordRead
    <2>9. CASE Commit(r) \/ WriteRecord(r)
      BY <1>2, <2>9 DEF Commit, WriteRecord, Reject, Answered
    <2> QED
      BY <2>1, <2>2, <2>3, <2>4, <2>5, <2>6, <2>7, <2>8, <2>9 DEF Step
  <1> QED
    BY <1>1, <1>2

LEMMA NextStages ==
  ASSUME TypeOK, StageInv, [Next]_vars
  PROVE  StageInv'
  <1>1. ASSUME UNCHANGED <<pc, req, held, snap>>
        PROVE  StageInv'
    BY <1>1 DEF StageInv, StageOK, Open
  <1>2. ASSUME NEW r \in Requests, NEW p \in Payloads, Submit(r, p)
        PROVE  StageInv'
    <2>1. ASSUME NEW q \in Requests PROVE StageOK(q)'
      <3>1. CASE q = r
        BY <1>2, <3>1, SetsAssumption
        DEF Submit, Goto, StageInv, StageOK, TypeOK, RequestsOK, InTransaction,
            RecordRead, Payload
      <3>2. CASE q # r
        BY <1>2, <3>2 DEF Submit, Goto, StageInv, StageOK, TypeOK, RequestsOK, Open
      <3> QED
        BY <3>1, <3>2
    <2> QED
      BY <2>1 DEF StageInv
  <1>3. ASSUME NEW r \in Requests, Step(r) \/ Crash(r)
        PROVE  StageInv'
    <2>1. ASSUME NEW q \in Requests PROVE StageOK(q)'
      <3>1. CASE q = r
        BY <1>3, <3>1, AdvancedStage, FinishedStage
        DEF Crash, Reject, StageInv, TypeOK
      <3>2. CASE q # r
        BY <1>3, <3>2, OthersKeepTheirs DEF StageInv, StageOK, TypeOK, Open
      <3> QED
        BY <3>1, <3>2
    <2> QED
      BY <2>1 DEF StageInv
  <1> QED
    BY <1>1, <1>2, <1>3
    DEF Next, vars, Tick, VerifyLocation, VerifyVenue, VerifyFace, Mint,
        EnsureDailySession, UpdateSessionHours

-----------------------------------------------------------------------------
(* Locks.                                                                  *)

\* No handler's step takes a lock away from another request or gives it one.
LEMMA OthersKeepLocks ==
  ASSUME TypeOK, NEW r \in Requests, StageOK(r), Step(r) \/ Crash(r),
         NEW q \in Requests, q # r
  PROVE  /\ \A s \in Sessions : sessLock'[s] = q <=> sessLock[s] = q
         /\ \A x \in Slot : recLock'[x] = q <=> recLock[x] = q
  <1>1. ASSUME NEW a, Finish(r, a)
        PROVE  /\ \A s \in Sessions : sessLock'[s] = q <=> sessLock[s] = q
               /\ \A x \in Slot : recLock'[x] = q <=> recLock[x] = q
    BY <1>1, SetsAssumption DEF Finish, Drop, TypeOK, RequestsOK
  <1>2. CASE \E a : Finish(r, a)
    BY <1>1, <1>2
  <1>3. CASE LoadLockedSession(r) /\ ~\E a : Finish(r, a)
    BY <1>3, SetsAssumption
    DEF LoadLockedSession, Reject, Free, Take, TypeOK, RequestsOK
  <1>4. CASE GetLockedRecord(r) /\ ~\E a : Finish(r, a)
    BY <1>4, SetsAssumption
    DEF GetLockedRecord, RecordLock, Reject, Free, Take, TypeOK, RequestsOK
  <1>5. CASE /\ ~LoadLockedSession(r)
             /\ ~GetLockedRecord(r)
             /\ ~\E a : Finish(r, a)
    <2>1. UNCHANGED <<sessLock, recLock>>
      BY <1>5
      DEF Step, Crash, VerifyDeviceBinding, LockAttendanceRow, ConsumeLocation,
          ConsumeProof, ConsumeToken, FlushRecord, Commit, LoadRecord, WriteRecord,
          Reject, Answered, locks
    <2> QED
      BY <2>1
  <1> QED
    BY <1>2, <1>3, <1>4, <1>5

\* A request is in a transaction, before and after a step of its own, only with
\* the lock of its session.
LEMMA NextSessionLocked ==
  ASSUME TypeOK, StageInv, SessionLocked, [Next]_vars
  PROVE  SessionLocked'
  <1>1. ASSUME UNCHANGED <<pc, req, sessLock>>
        PROVE  SessionLocked'
    BY <1>1 DEF SessionLocked
  <1>2. ASSUME NEW r \in Requests, NEW p \in Payloads, Submit(r, p)
        PROVE  SessionLocked'
    BY <1>2 DEF Submit, Goto, SessionLocked, InTransaction, TypeOK, RequestsOK, locks
  <1>3. ASSUME NEW r \in Requests, Step(r) \/ Crash(r)
        PROVE  SessionLocked'
    <2>1. ASSUME NEW q \in Requests, q # r, pc'[q] \in InTransaction
          PROVE  sessLock'[req'[q].session] = q
      <3>1. req[q].session \in Sessions
        BY <1>3, <2>1, OthersKeepTheirs
        DEF TypeOK, StageInv, StageOK, InTransaction, Payload
      <3> QED
        BY <1>3, <2>1, <3>1, OthersKeepTheirs, OthersKeepLocks
        DEF TypeOK, StageInv, SessionLocked
    <2>2. ASSUME pc'[r] \in InTransaction
          PROVE  sessLock'[req'[r].session] = r
      <3>1. ~\E a : Finish(r, a)
        BY <2>2 DEF Finish, Goto, TypeOK, RequestsOK, InTransaction
      <3>2. CASE LoadLockedSession(r)
        BY <3>1, <3>2
        DEF LoadLockedSession, Reject, Take, TypeOK, RequestsOK, StageInv, StageOK, Payload
      <3>3. CASE ~LoadLockedSession(r)
        <4>1. UNCHANGED <<req, sessLock>> /\ pc[r] \in InTransaction
          <5>1. ~VerifyDeviceBinding(r) /\ ~LoadRecord(r)
            BY <2>2, <3>1
            DEF VerifyDeviceBinding, LoadRecord, Reject, Goto, InTransaction, TypeOK,
                RequestsOK
          <5> QED
            BY <1>3, <3>1, <3>3, <5>1
            DEF Step, Crash, LockAttendanceRow, GetLockedRecord, ConsumeLocation,
                ConsumeProof, ConsumeToken, FlushRecord, Commit, WriteRecord,
                Reject, Answered, InTransaction, locks
        <4> QED
          BY <4>1 DEF SessionLocked
      <3> QED
        BY <3>2, <3>3
    <2> QED
      BY <2>1, <2>2 DEF SessionLocked
  <1> QED
    BY <1>1, <1>2, <1>3
    DEF Next, vars, Tick, VerifyLocation, VerifyVenue, VerifyFace, Mint,
        EnsureDailySession, UpdateSessionHours, locks

\* Two requests in transactions on one session are one request.
LEMMA LockedAlone ==
  ASSUME SessionLocked, NEW q \in Requests, NEW r \in Requests,
         pc[q] \in InTransaction, pc[r] \in InTransaction,
         req[q].session = req[r].session
  PROVE  q = r
  BY DEF SessionLocked

\* The session a student's transaction has locked goes on admitting it.
LEMMA NextStillAdmitted ==
  ASSUME TypeOK, StageInv, SessionLocked, StillAdmitted, [Next]_vars
  PROVE  StillAdmitted'
  <1>1. ASSUME UNCHANGED <<pc, req, clock, status, hours>>
        PROVE  StillAdmitted'
    BY <1>1 DEF StillAdmitted, InWindow
  <1>2. ASSUME NEW s \in Sessions, Free(sessLock, s),
               \/ EnsureDailySession(s)
               \/ \E h \in HoursChoices : UpdateSessionHours(s, h)
        PROVE  StillAdmitted'
    <2>1. ASSUME NEW q \in Requests, pc[q] \in InTransaction PROVE req[q].session # s
      BY <1>2, <2>1, SetsAssumption DEF Free, SessionLocked
    <2>2. ASSUME NEW z \in Sessions, z # s
          PROVE  status'[z] = status[z] /\ hours'[z] = hours[z]
      BY <1>2, <2>2 DEF EnsureDailySession, UpdateSessionHours, TypeOK, TablesOK
    <2>3. \A q \in Requests : pc[q] \in InTransaction => req[q].session \in Sessions
      BY DEF StageInv, StageOK, InTransaction, Payload
    <2> QED
      BY <1>2, <2>1, <2>2, <2>3
      DEF EnsureDailySession, UpdateSessionHours, StillAdmitted, InWindow
  <1>3. ASSUME NEW r \in Requests, NEW p \in Payloads, Submit(r, p)
        PROVE  StillAdmitted'
    BY <1>3
    DEF Submit, Goto, StillAdmitted, InTransaction, InWindow, TypeOK, RequestsOK, tables
  <1>4. ASSUME NEW r \in Requests, Step(r) \/ Crash(r)
        PROVE  StillAdmitted'
    <2>1. UNCHANGED <<status, hours>>
      BY <1>4
      DEF Step, Crash, VerifyDeviceBinding, LoadLockedSession, LockAttendanceRow,
          GetLockedRecord, ConsumeLocation, ConsumeProof, ConsumeToken, FlushRecord,
          Commit, LoadRecord, WriteRecord, Reject, tables
    <2>2. ASSUME NEW q \in Requests, q # r, pc'[q] \in InTransaction,
                 req'[q].op \in StudentOps
          PROVE  (/\ status[req[q].session] = "ACTIVE"
                  /\ InWindow(req[q].session, req[q].op, clock[q]))'
      BY <1>4, <2>1, <2>2, OthersKeepTheirs DEF StillAdmitted, InWindow, TypeOK
    <2>3. ASSUME pc'[r] \in InTransaction, req'[r].op \in StudentOps
          PROVE  (/\ status[req[r].session] = "ACTIVE"
                  /\ InWindow(req[r].session, req[r].op, clock[r]))'
      <3>1. ~\E a : Finish(r, a)
        BY <2>3 DEF Finish, Goto, TypeOK, RequestsOK, InTransaction
      <3>2. CASE LoadLockedSession(r)
        <4>1. SessionRefusal(r) = "none" /\ ReadClock(r, StudentOps) /\ UNCHANGED req
          BY <3>1, <3>2 DEF LoadLockedSession, Reject
        <4>2. req[r].op \in StudentOps /\ req[r].op \notin ManualOps
          BY <2>3, <4>1 DEF StudentOps, ManualOps
        <4>3. clock'[r] = now
          BY <4>1, <4>2 DEF ReadClock, TypeOK, RequestsOK
        <4> QED
          BY <2>1, <4>1, <4>2, <4>3 DEF SessionRefusal, InWindow
      <3>3. CASE ~LoadLockedSession(r)
        <4>1. ~VerifyDeviceBinding(r) /\ ~LoadRecord(r)
          BY <2>3, <3>1
          DEF VerifyDeviceBinding, LoadRecord, Reject, Goto, InTransaction, TypeOK,
              RequestsOK
        <4>2. UNCHANGED req /\ pc[r] \in InTransaction
          BY <1>4, <3>1, <3>3, <4>1
          DEF Step, Crash, LockAttendanceRow, GetLockedRecord, ConsumeLocation,
              ConsumeProof, ConsumeToken, FlushRecord, Commit, WriteRecord,
              Reject, Answered, InTransaction
        <4>3. req[r].op \in StudentOps /\ req[r].op \notin ManualOps
          BY <2>3, <4>2 DEF StudentOps, ManualOps
        <4>4. UNCHANGED clock
          BY <1>4, <3>1, <3>3, <4>1, <4>3
          DEF Step, Crash, LockAttendanceRow, GetLockedRecord, ReadClock, ConsumeLocation,
              ConsumeProof, ConsumeToken, FlushRecord, Commit, WriteRecord, Reject,
              Answered
        <4> QED
          BY <2>1, <2>3, <4>2, <4>4 DEF StillAdmitted, InWindow
      <3> QED
        BY <3>2, <3>3
    <2> QED
      BY <2>2, <2>3 DEF StillAdmitted
  <1> QED
    BY <1>1, <1>2, <1>3, <1>4
    DEF Next, vars, Tick, VerifyLocation, VerifyVenue, VerifyFace, Mint,
        EnsureDailySession, UpdateSessionHours

\* A record that was read under lock is locked until its reader ends.
LEMMA NextRecordLocked ==
  ASSUME TypeOK, StageInv, RecordLocked, [Next]_vars
  PROVE  RecordLocked'
  <1>1. ASSUME UNCHANGED <<pc, req, snap, recLock>>
        PROVE  RecordLocked'
    BY <1>1 DEF RecordLocked, SlotOf
  <1>2. ASSUME NEW r \in Requests, NEW p \in Payloads, Submit(r, p)
        PROVE  RecordLocked'
    BY <1>2 DEF Submit, Goto, RecordLocked, SlotOf, RecordRead, TypeOK, RequestsOK, locks
  <1>3. ASSUME NEW r \in Requests, Step(r) \/ Crash(r)
        PROVE  RecordLocked'
    <2>1. ASSUME NEW q \in Requests, q # r, pc'[q] \in RecordRead, snap'[q] # NoRecord
          PROVE  (recLock[SlotOf(q)] = q)'
      <3>1. pc[q] \in RecordRead /\ snap[q] # NoRecord /\ req'[q] = req[q]
        BY <1>3, <2>1, OthersKeepTheirs DEF TypeOK
      <3>2. SlotOf(q) \in Slot
        BY <3>1, SlotType DEF StageInv, StageOK, RecordRead
      <3> QED
        BY <1>3, <2>1, <3>1, <3>2, OthersKeepLocks DEF RecordLocked, SlotOf, StageInv
    <2>2. ASSUME pc'[r] \in RecordRead, snap'[r] # NoRecord
          PROVE  (recLock[SlotOf(r)] = r)'
      <3>1. ~\E a : Finish(r, a)
        BY <2>2 DEF Finish, Goto, TypeOK, RequestsOK, RecordRead
      <3>2. CASE GetLockedRecord(r)
        <4>1. SlotOf(r) \in Slot
          BY <3>2, SlotType DEF GetLockedRecord, StageInv, StageOK
        <4> QED
          BY <2>2, <3>1, <3>2, <4>1
          DEF GetLockedRecord, RecordLock, Reject, Take, SlotOf, TypeOK, RequestsOK
      <3>3. CASE ~GetLockedRecord(r)
        <4>1. ~VerifyDeviceBinding(r) /\ ~LoadLockedSession(r) /\ ~LockAttendanceRow(r)
              /\ ~LoadRecord(r)
          BY <2>2, <3>1
          DEF VerifyDeviceBinding, LoadLockedSession, LockAttendanceRow, LoadRecord,
              Reject, Goto, RecordRead, TypeOK, RequestsOK
        <4>2. UNCHANGED <<req, snap, recLock>> /\ pc[r] \in RecordRead
          BY <1>3, <3>1, <3>3, <4>1
          DEF Step, Crash, ConsumeLocation, ConsumeProof, ConsumeToken, FlushRecord,
              Commit, WriteRecord, Reject, Answered, RecordRead, locks
        <4> QED
          BY <2>2, <4>2 DEF RecordLocked, SlotOf
      <3> QED
        BY <3>2, <3>3
    <2> QED
      BY <2>1, <2>2 DEF RecordLocked
  <1> QED
    BY <1>1, <1>2, <1>3
    DEF Next, vars, Tick, VerifyLocation, VerifyVenue, VerifyFace, Mint,
        EnsureDailySession, UpdateSessionHours, locks

\* Another request writes a record only when nobody has read it under lock.
LEMMA OthersKeepRecord ==
  ASSUME TypeOK, StageInv, SessionLocked, RecordLocked, LockedReadStaysCurrent,
         NEW r \in Requests, Step(r) \/ Crash(r),
         NEW q \in Requests, q # r, pc[q] \in RecordRead
  PROVE  att'[SlotOf(q)] = att[SlotOf(q)]
  <1>1. SlotOf(q) \in Slot /\ pc[q] \in InTransaction /\ req[q] \in Payload
    BY SlotType DEF StageInv, StageOK, RecordRead, InTransaction
  <1>2. CASE Commit(r)
    <2>1. pc[r] \in InTransaction
      BY <1>2 DEF Commit, InTransaction
    <2>2. SlotOf(r) # SlotOf(q)
      BY <1>1, <2>1, LockedAlone DEF SlotOf
    <2> QED
      BY <1>1, <1>2, <2>2 DEF Commit, TypeOK, TablesOK
  <1>3. CASE WriteRecord(r)
    <2>1. CASE SlotOf(r) # SlotOf(q)
      BY <1>1, <1>3, <2>1 DEF WriteRecord, Reject, tables, TypeOK, TablesOK
    <2>2. CASE SlotOf(r) = SlotOf(q)
      <3>1. CASE Gone(r) \/ recLock[SlotOf(q)] # None
        BY <1>3, <2>2, <3>1 DEF WriteRecord, Reject, tables, Free
      <3>2. CASE ~Gone(r) /\ recLock[SlotOf(q)] = None
        <4>1. snap[q] = NoRecord
          BY <3>2, SetsAssumption DEF RecordLocked
        <4>2. att[SlotOf(q)] = NoRecord
          BY <4>1 DEF LockedReadStaysCurrent
        <4>3. snap[r] \in Record
          BY <1>3 DEF WriteRecord, StageInv, StageOK
        <4> QED
          BY <2>2, <3>2, <4>2, <4>3, SetsAssumption DEF Gone, NoRecord, Record
      <3> QED
        BY <3>1, <3>2
    <2> QED
      BY <2>1, <2>2
  <1>4. CASE ~Commit(r) /\ ~WriteRecord(r)
    BY <1>4
    DEF Step, Crash, VerifyDeviceBinding, LoadLockedSession, LockAttendanceRow,
        GetLockedRecord, ConsumeLocation, ConsumeProof, ConsumeToken, FlushRecord,
        LoadRecord, Reject, tables
  <1> QED
    BY <1>2, <1>3, <1>4

LEMMA NextLockedRead ==
  ASSUME TypeOK, StageInv, SessionLocked, RecordLocked, LockedReadStaysCurrent,
         [Next]_vars
  PROVE  LockedReadStaysCurrent'
  <1>1. ASSUME UNCHANGED <<pc, req, snap, att>>
        PROVE  LockedReadStaysCurrent'
    BY <1>1 DEF LockedReadStaysCurrent, SlotOf
  <1>2. ASSUME NEW r \in Requests, NEW p \in Payloads, Submit(r, p)
        PROVE  LockedReadStaysCurrent'
    BY <1>2
    DEF Submit, Goto, LockedReadStaysCurrent, SlotOf, RecordRead, TypeOK, RequestsOK,
        tables
  <1>3. ASSUME NEW r \in Requests, Step(r) \/ Crash(r)
        PROVE  LockedReadStaysCurrent'
    <2>1. ASSUME NEW q \in Requests, q # r, pc'[q] \in RecordRead
          PROVE  (snap[q] = att[SlotOf(q)])'
      BY <1>3, <2>1, OthersKeepTheirs, OthersKeepRecord
      DEF LockedReadStaysCurrent, SlotOf, TypeOK
    <2>2. ASSUME pc'[r] \in RecordRead
          PROVE  (snap[r] = att[SlotOf(r)])'
      <3>1. ~\E a : Finish(r, a)
        BY <2>2 DEF Finish, Goto, TypeOK, RequestsOK, RecordRead
      <3>2. CASE GetLockedRecord(r)
        BY <3>1, <3>2 DEF GetLockedRecord, Reject, SlotOf, TypeOK, RequestsOK, tables
      <3>3. CASE ~GetLockedRecord(r)
        <4>1. ~VerifyDeviceBinding(r) /\ ~LoadLockedSession(r) /\ ~LockAttendanceRow(r)
              /\ ~LoadRecord(r)
          BY <2>2, <3>1
          DEF VerifyDeviceBinding, LoadLockedSession, LockAttendanceRow, LoadRecord,
              Reject, Goto, RecordRead, TypeOK, RequestsOK
        <4>2. UNCHANGED <<req, snap, att>> /\ pc[r] \in RecordRead
          BY <1>3, <3>1, <3>3, <4>1
          DEF Step, Crash, ConsumeLocation, ConsumeProof, ConsumeToken, FlushRecord,
              Commit, WriteRecord, Reject, Answered, RecordRead, tables
        <4> QED
          BY <4>2 DEF LockedReadStaysCurrent, SlotOf
      <3> QED
        BY <3>2, <3>3
    <2> QED
      BY <2>1, <2>2 DEF LockedReadStaysCurrent
  <1> QED
    BY <1>1, <1>2, <1>3
    DEF Next, vars, Tick, VerifyLocation, VerifyVenue, VerifyFace, Mint,
        EnsureDailySession, UpdateSessionHours

-----------------------------------------------------------------------------
(* Tokens.                                                                 *)

\* The tables of tokens and events change in a Commit, and by minting.
LEMMA TokensUntouched ==
  ASSUME NEW r \in Requests, Step(r) \/ Crash(r), ~Commit(r)
  PROVE  UNCHANGED <<tok, events>>
  BY DEF Step, Crash, VerifyDeviceBinding, LoadLockedSession, LockAttendanceRow,
         GetLockedRecord, ConsumeLocation, ConsumeProof, ConsumeToken, FlushRecord,
         LoadRecord, WriteRecord, Reject, tables

\* A step adds to the tokens of its transaction at most one, which is usable by
\* it and which no other transaction holds.
LEMMA NewlyHeld ==
  ASSUME TypeOK, StageInv, NEW r \in Requests, Step(r) \/ Crash(r),
         NEW t \in held'[r], t \notin held[r]
  PROVE  /\ t \in Tokens
         /\ Usable(t, r)
         /\ \A q \in Requests \ {r} : t \notin held[q]
         /\ UNCHANGED <<req, tok>>
  <1>1. ~\E a : Finish(r, a)
    BY DEF Finish, TypeOK, RequestsOK
  <1>2. ConsumeLocation(r) \/ ConsumeProof(r)
    BY <1>1
    DEF Step, Crash, VerifyDeviceBinding, LoadLockedSession, LockAttendanceRow,
        GetLockedRecord, FlushRecord, Commit, LoadRecord, WriteRecord, Reject, Answered
  <1>3. PICK n : ConsumeToken(r, t, n)
    <2>1. ASSUME NEW u, NEW n, ConsumeToken(r, u, n) PROVE t = u
      BY <1>1, <2>1 DEF ConsumeToken, Reject, TypeOK, RequestsOK
    <2> QED
      BY <1>1, <1>2, <2>1 DEF ConsumeLocation, ConsumeProof, Reject
  <1>4. t \in Tokens
    BY NextTypes DEF Next, TypeOK, RequestsOK
  <1> QED
    BY <1>1, <1>3, <1>4 DEF ConsumeToken, Reject, tables

LEMMA NextTokensInTransit ==
  ASSUME TypeOK, StageInv, TokensInTransit, [Next]_vars
  PROVE  TokensInTransit'
  <1>1. ASSUME UNCHANGED <<held, req, tok>>
        PROVE  TokensInTransit'
    BY <1>1 DEF TokensInTransit, BelongsTo
  <1>2. ASSUME NEW t \in Tokens, Mint(t)
        PROVE  TokensInTransit'
    <2>1. \A u \in Tokens : u # t => tok'[u] = tok[u]
      BY <1>2 DEF Mint, TypeOK, TablesOK
    <2>2. \A r \in Requests : t \notin held[r]
      BY <1>2 DEF Mint, TokensInTransit, BelongsTo
    <2>3. tok'[t].minted /\ ~tok'[t].used
      BY <1>2 DEF Mint, TypeOK, TablesOK
    <2>4. \A r \in Requests : held[r] \subseteq Tokens
      BY DEF TypeOK, RequestsOK
    <2> QED
      BY <1>2, <2>1, <2>2, <2>3, <2>4 DEF Mint, TokensInTransit, BelongsTo
  <1>3. ASSUME NEW r \in Requests, NEW p \in Payloads, Submit(r, p)
        PROVE  TokensInTransit'
    <2>1. held[r] = {}
      BY <1>3 DEF Submit, StageInv, StageOK
    <2> QED
      BY <1>3, <2>1
      DEF Submit, TokensInTransit, BelongsTo, TypeOK, RequestsOK, tables
  <1>4. ASSUME NEW r \in Requests, Commit(r)
        PROVE  TokensInTransit'
    <2>1. held'[r] = {} /\ \A q \in Requests : q # r => held'[q] = held[q]
      BY <1>4 DEF Commit, Answered, Finish, TypeOK, RequestsOK
    <2>2. \A u \in Tokens : /\ tok'[u].minted = tok[u].minted
                            /\ tok'[u].used = (tok[u].used \/ u \in held[r])
      BY <1>4 DEF Commit, TypeOK, TablesOK, TokenRow
    <2>3. UNCHANGED req
      BY <1>4 DEF Commit, Answered, Finish
    <2>4. \A q \in Requests : held[q] \subseteq Tokens
      BY DEF TypeOK, RequestsOK
    <2> QED
      BY <2>1, <2>2, <2>3, <2>4 DEF TokensInTransit, BelongsTo
  <1>5. ASSUME NEW r \in Requests, Step(r) \/ Crash(r), ~Commit(r)
        PROVE  TokensInTransit'
    <2>1. UNCHANGED <<req, tok>>
      BY <1>5, TokensUntouched
      DEF Step, Crash, VerifyDeviceBinding, LoadLockedSession, LockAttendanceRow,
          GetLockedRecord, ConsumeLocation, ConsumeProof, ConsumeToken, FlushRecord,
          LoadRecord, WriteRecord, Reject, Answered, Finish
    <2>2. \A q \in Requests : q # r => held'[q] = held[q]
      BY <1>5, OthersKeepTheirs DEF TypeOK
    <2>3. \A t \in held'[r] : t \notin held[r] =>
             /\ Usable(t, r)
             /\ \A q \in Requests \ {r} : t \notin held[q]
      BY <1>5, NewlyHeld
    <2> QED
      BY <2>1, <2>2, <2>3 DEF TokensInTransit, Usable, BelongsTo
  <1> QED
    BY <1>1, <1>2, <1>3, <1>4, <1>5
    DEF Next, vars, Tick, VerifyLocation, VerifyVenue, VerifyFace, EnsureDailySession,
        UpdateSessionHours

\* What a commit adds to the events is proven by unused tokens of its own.
LEMMA NewEvent ==
  ASSUME TypeOK, StageInv, TokensInTransit, NEW r \in Requests, Commit(r),
         req[r].op \in StudentOps
  PROVE  /\ \E l \in LocTokens, p \in FaceTokens \cup VenueTokens : held[r] = {l, p}
         /\ \A t \in held[r] : /\ TokenStudent[t] = req[r].student
                               /\ TokenSession[t] = req[r].session
                               /\ ~tok[t].used
  <1>1. held[r] = {req[r].loc, req[r].proof}
    BY DEF Commit, StageInv, StageOK
  <1>2. req[r].loc \in LocTokens /\ req[r].proof \in FaceTokens \cup VenueTokens
    BY DEF Commit, StageInv, StageOK, Payload
  <1> QED
    BY <1>1, <1>2 DEF TokensInTransit, BelongsTo

\* The three statements about the events are kept by every step.
LEMMA NextEvidence ==
  ASSUME TypeOK, StageInv, TokensInTransit, [Next]_vars,
         ProvenByOwnTokens, NothingHalfConsumed, TokenSingleUse
  PROVE  (ProvenByOwnTokens /\ NothingHalfConsumed /\ TokenSingleUse)'
  <1>1. ASSUME UNCHANGED <<tok, events>>
        PROVE  (ProvenByOwnTokens /\ NothingHalfConsumed /\ TokenSingleUse)'
    BY <1>1 DEF ProvenByOwnTokens, NothingHalfConsumed, TokenSingleUse
  <1>2. ASSUME NEW t \in Tokens, Mint(t)
        PROVE  (ProvenByOwnTokens /\ NothingHalfConsumed /\ TokenSingleUse)'
    <2>1. \A u \in Tokens : tok'[u].used = tok[u].used
      BY <1>2 DEF Mint, TokensInTransit, TypeOK, TablesOK, TokenRow
    <2> QED
      BY <1>2, <2>1 DEF Mint, ProvenByOwnTokens, NothingHalfConsumed, TokenSingleUse
  <1>3. ASSUME NEW r \in Requests, Commit(r)
        PROVE  (ProvenByOwnTokens /\ NothingHalfConsumed /\ TokenSingleUse)'
    <2>1. \A u \in Tokens : tok'[u].used = (tok[u].used \/ u \in held[r])
      BY <1>3 DEF Commit, TypeOK, TablesOK, TokenRow
    <2>2. CASE req[r].op \in StudentOps
      <3>1. events' = events \cup {EventOf(r)}
        BY <1>3, <2>2 DEF Commit
      <3>2. ProvenByOwnTokens'
        BY <1>3, <2>2, <3>1, NewEvent DEF EventOf, ProvenByOwnTokens
      <3>3. NothingHalfConsumed'
        <4>1. EventOf(r).tokens = held[r]
          BY DEF EventOf
        <4>2. \A u \in Tokens :
                (\E e \in events' : u \in e.tokens)
                  <=> (\E e \in events : u \in e.tokens) \/ u \in held[r]
          BY <3>1, <4>1
        <4> QED
          BY <2>1, <4>2 DEF NothingHalfConsumed
      <3>4. \A e \in events : e.tokens \cap held[r] = {}
        <4>1. \A e \in events : e.tokens \subseteq Tokens
          BY DEF TypeOK, TablesOK, Event
        <4> QED
          BY <1>3, <2>2, <4>1, NewEvent DEF NothingHalfConsumed
      <3>5. TokenSingleUse'
        BY <3>1, <3>4 DEF EventOf, TokenSingleUse
      <3> QED
        BY <3>2, <3>3, <3>5
    <2>3. CASE req[r].op \notin StudentOps
      <3>1. held[r] = {} /\ events' = events
        BY <1>3, <2>3 DEF Commit, StageInv, StageOK
      <3> QED
        BY <2>1, <3>1 DEF ProvenByOwnTokens, NothingHalfConsumed, TokenSingleUse
    <2> QED
      BY <2>2, <2>3
  <1>4. ASSUME NEW r \in Requests, Step(r) \/ Crash(r), ~Commit(r)
        PROVE  (ProvenByOwnTokens /\ NothingHalfConsumed /\ TokenSingleUse)'
    BY <1>1, <1>4, TokensUntouched
  <1> QED
    BY <1>1, <1>2, <1>3, <1>4
    DEF Next, vars, Tick, VerifyLocation, VerifyVenue, VerifyFace, EnsureDailySession,
        UpdateSessionHours, Submit, tables

-----------------------------------------------------------------------------
(* The theorems.                                                           *)

LEMMA InitInductive == Init => Inductive
  <1> SUFFICES ASSUME Init PROVE Inductive
    OBVIOUS
  <1>1. TypeOK
    BY InitTypes
  <1>2. StageInv /\ SessionLocked /\ StillAdmitted /\ RecordLocked /\ LockedReadStaysCurrent
    BY DEF Init, StageInv, StageOK, SessionLocked, StillAdmitted, RecordLocked,
           LockedReadStaysCurrent, InTransaction, RecordRead
  <1>3. TokensInTransit
    BY DEF Init, TokensInTransit
  <1>4. ProvenByOwnTokens /\ NothingHalfConsumed /\ TokenSingleUse
    BY DEF Init, ProvenByOwnTokens, NothingHalfConsumed, TokenSingleUse
  <1> QED
    BY <1>1, <1>2, <1>3, <1>4 DEF Inductive

LEMMA NextInductive == Inductive /\ [Next]_vars => Inductive'
  <1> SUFFICES ASSUME Inductive, [Next]_vars PROVE Inductive'
    OBVIOUS
  <1>1. TypeOK' /\ StageInv'
    BY NextTypes, NextStages DEF Inductive
  <1>2. SessionLocked' /\ StillAdmitted'
    BY NextSessionLocked, NextStillAdmitted DEF Inductive
  <1>3. RecordLocked' /\ LockedReadStaysCurrent'
    BY NextRecordLocked, NextLockedRead DEF Inductive
  <1>4. TokensInTransit'
    BY NextTokensInTransit DEF Inductive
  <1>5. (ProvenByOwnTokens /\ NothingHalfConsumed /\ TokenSingleUse)'
    BY NextEvidence DEF Inductive
  <1> QED
    BY <1>1, <1>2, <1>3, <1>4, <1>5 DEF Inductive

\* The invariant that ties the stages of a request, the locks, the record it has
\* read and the tokens it has marked used together holds in every state.
THEOREM InductiveInvariant == Spec => []Inductive
  BY InitInductive, NextInductive, PTL DEF Spec

\* Every variable keeps its type (attendance_service.py, the whole module).
THEOREM TypeCorrect == Spec => []TypeOK
  <1>1. Inductive => TypeOK
    BY DEF Inductive
  <1> QED
    BY <1>1, InductiveInvariant, PTL

\* _consume_token: no verification token backs two committed check-ins or
\* check-outs, for any number of concurrent requests.
THEOREM TokensAreUsedOnce == Spec => []TokenSingleUse
  <1>1. Inductive => TokenSingleUse
    BY DEF Inductive
  <1> QED
    BY <1>1, InductiveInvariant, PTL

\* A committed student operation is backed by one location token and one face
\* or venue token minted for that student and session.
THEOREM EventsAreProven == Spec => []ProvenByOwnTokens
  <1>1. Inductive => ProvenByOwnTokens
    BY DEF Inductive
  <1> QED
    BY <1>1, InductiveInvariant, PTL

\* Rollback and crash leave no token used without a committed operation, and no
\* committed operation leaves one of its tokens usable.
THEOREM TokensAreNotLost == Spec => []NothingHalfConsumed
  <1>1. Inductive => NothingHalfConsumed
    BY DEF Inductive
  <1> QED
    BY <1>1, InductiveInvariant, PTL

\* The record read FOR UPDATE is still the committed one when it is written back.
THEOREM NoLostUpdate == Spec => []LockedReadStaysCurrent
  <1>1. Inductive => LockedReadStaysCurrent
    BY DEF Inductive
  <1> QED
    BY <1>1, InductiveInvariant, PTL

\* _load_locked_session admits one transaction at a time to a session.
THEOREM SessionsAreSerial == Spec => []OneTransactionPerSession
  <1>1. Inductive => OneTransactionPerSession
    BY LockedAlone DEF Inductive, OneTransactionPerSession
  <1> QED
    BY <1>1, InductiveInvariant, PTL

\* Only a commit writes events, one for a student operation.
LEMMA EventsGrow ==
  ASSUME TypeOK, StageInv, [Next]_vars, NEW e \in events' \ events
  PROVE  \E r \in Requests : Commit(r) /\ req[r].op \in StudentOps /\ e = EventOf(r)
  <1>1. PICK r \in Requests : Commit(r)
    BY TokensUntouched
    DEF Next, vars, Tick, VerifyLocation, VerifyVenue, VerifyFace, Mint,
        EnsureDailySession, UpdateSessionHours, Submit, tables
  <1> QED
    BY <1>1 DEF Commit

\* Whatever is committed was in the window when its session was locked, and the
\* session still says so when it commits.
THEOREM CommitsAreInWindow == Spec => CommittedInWindow
  <1>1. Inductive /\ [Next]_vars =>
          [\A e \in events' \ events :
             status[e.session] = "ACTIVE" /\ InWindow(e.session, e.op, e.at)]_vars
    <2> SUFFICES ASSUME Inductive, [Next]_vars, NEW e \in events' \ events
                 PROVE  status[e.session] = "ACTIVE" /\ InWindow(e.session, e.op, e.at)
      OBVIOUS
    <2>1. PICK r \in Requests : Commit(r) /\ req[r].op \in StudentOps /\ e = EventOf(r)
      BY EventsGrow DEF Inductive
    <2>2. pc[r] \in InTransaction
      BY <2>1 DEF Commit, InTransaction
    <2> QED
      BY <2>1, <2>2 DEF Inductive, StillAdmitted, EventOf
  <1> QED
    BY <1>1, InductiveInvariant, PTL DEF Spec, CommittedInWindow

\* A check-in commits only over no record and a check-out only over an open one.
THEOREM CommitsAttendOnce == Spec => AttendOnce
  <1>1. Inductive /\ [Next]_vars =>
          [\A e \in events' \ events :
             LET rec == att[<<e.session, e.student>>] IN
             IF e.op = "check_in" THEN rec = NoRecord
             ELSE rec # NoRecord /\ rec.co = None /\ rec.status # "CHECKED_OUT"]_vars
    <2> SUFFICES ASSUME Inductive, [Next]_vars, NEW e \in events' \ events
                 PROVE  LET rec == att[<<e.session, e.student>>] IN
                        IF e.op = "check_in" THEN rec = NoRecord
                        ELSE rec # NoRecord /\ rec.co = None /\ rec.status # "CHECKED_OUT"
      OBVIOUS
    <2>1. PICK r \in Requests : Commit(r) /\ req[r].op \in StudentOps /\ e = EventOf(r)
      BY EventsGrow DEF Inductive
    <2>2. snap[r] = att[<<e.session, e.student>>]
      BY <2>1 DEF Commit, RecordRead, Inductive, LockedReadStaysCurrent, SlotOf, EventOf
    <2>3. /\ req[r].op = "check_in" => snap[r] = NoRecord
          /\ req[r].op = "check_out" => snap[r] \in Record /\ Open(snap[r])
      BY <2>1 DEF Commit, Inductive, StageInv, StageOK, RecordRead
    <2>4. NoRecord \notin Record
      BY SetsAssumption DEF NoRecord, Record
    <2> QED
      BY <2>1, <2>2, <2>3, <2>4 DEF EventOf, Open, StudentOps
  <1> QED
    BY <1>1, InductiveInvariant, PTL DEF Spec, AttendOnce

-----------------------------------------------------------------------------
(* The time spent, the evidence of a record and the answers.               *)

\* The minutes of one row, and of the row a record operation has read.
SpentOK(rec) == rec.spent = IF rec.co = None THEN None ELSE Minutes(rec.ci, rec.co)
SpentInv ==
  /\ SpentMatchesTimes
  /\ \A r \in Requests : pc[r] = "write" => SpentOK(snap[r])

\* A key of a client in a row is that of the check-in that inserted the row.
KeysAreSubmitted ==
  \A x \in Slot : att[x] # NoRecord /\ att[x].key \in Keys =>
    \E e \in events : /\ e.op = "check_in"
                      /\ <<e.session, e.student>> = x
                      /\ req[e.req].key = att[x].key

\* Nothing is committed and nothing answered before the end of a request.
AnswersCome ==
  \A r \in Requests :
    pc[r] # "done" => resp[r] = "none" /\ ~\E e \in events : e.req = r

Told == SpentInv /\ RecordHasEvidence /\ KeysAreSubmitted /\ AnswersCome /\ AnswerTruthful

LEMMA RowOrNone ==
  /\ NoRecord \notin Record
  /\ \A n \in Int : n # None
  BY SetsAssumption DEF NoRecord, Record

\* A row that is checked out keeps what it says of its check-in.
LEMMA ManualCheckOutKeeps ==
  ASSUME NEW rec \in Record, NEW out \in Time
  PROVE  LET new == ApplyManualCheckOut(rec, out) IN
         /\ new.id = rec.id /\ new.ci = rec.ci /\ new.method = rec.method
         /\ new.key = rec.key /\ SpentOK(new)
  <1>1. out # None
    BY RowOrNone, NumbersAssumption DEF Time
  <1> QED BY <1>1 DEF ApplyManualCheckOut, Record, SpentOK

\* The row a transaction writes: of a check-in its own, otherwise the one it
\* has read with what it says of the check-in, unless it is manual from now on.
LEMMA WhatIsCommitted ==
  ASSUME Inductive, SpentInv, NEW r \in Requests, pc[r] = "commit",
         NEW new, new = NewRecord(r)
  PROVE  /\ SpentOK(new)
         /\ \/ new.method = "manual" /\ new.key = r
            \/ /\ req[r].op = "check_in" /\ new.id = r /\ new.ci = clock[r]
               /\ new.key = req[r].key
            \/ /\ snap[r] \in Record /\ new.key = snap[r].key
               /\ \/ new.method = "manual"
                  \/ /\ new.method = snap[r].method /\ new.id = snap[r].id
                     /\ new.ci = snap[r].ci
  <1>1. /\ req[r] \in Payload /\ SlotOf(r) \in Slot /\ clock[r] \in Time
        /\ snap[r] \in Record \cup {NoRecord} /\ snap[r] = att[SlotOf(r)]
        /\ req[r].op \in StudentOps \cup ManualOps
        /\ req[r].op \in {"check_out", "manual_check_out"} => snap[r] \in Record
    BY SlotType DEF Inductive, TypeOK, RequestsOK, StageInv, StageOK, InTransaction,
                    RecordRead, LockedReadStaysCurrent
  <1>2. snap[r] \in Record => SpentOK(snap[r])
    BY <1>1, RowOrNone DEF SpentInv, SpentMatchesTimes, SpentOK
  <1>3. clock[r] # None /\ clock[r] \in Int
    BY <1>1, RowOrNone, NumbersAssumption DEF Time
  <1>4. CASE req[r].op = "check_in"
    BY <1>4 DEF NewRecord, CheckInRecord, CheckInRecordAt, SpentOK
  <1>5. CASE req[r].op = "check_out"
    <2>1. snap[r] \in Record /\ new = CheckOutRecord(r)
      BY <1>1, <1>5 DEF NewRecord
    <2>2. /\ new.id = snap[r].id /\ new.ci = snap[r].ci /\ new.method = snap[r].method
          /\ new.key = snap[r].key /\ new.co = clock[r]
          /\ new.spent = Minutes(snap[r].ci, clock[r])
      BY <2>1 DEF CheckOutRecord, Record
    <2> QED BY <1>3, <2>1, <2>2 DEF SpentOK
  <1>6. CASE req[r].op = "manual_check_out"
    <2>1. snap[r] \in Record /\ new = ManualOut(r)
      BY <1>1, <1>6 DEF NewRecord
    <2>2. Given(req[r].out, clock[r]) \in Time
      BY <1>1 DEF Given, Payload
    <2> QED BY <2>1, <2>2, ManualCheckOutKeeps DEF ManualOut
  <1>7. CASE req[r].op = "manual_check_in"
    <2> DEFINE s == req[r].session
               at == Given(req[r].at, clock[r])
               target == Given(req[r].want, Classified(s, at))
               late == IF target # "LATE" THEN 0
                       ELSE IF ClassifiedLate(s, at) = 0 THEN 5 ELSE ClassifiedLate(s, at)
               fresh == [id |-> r, ci |-> at, co |-> None, status |-> target,
                         method |-> "manual", late |-> late, spent |-> None,
                         key |-> r, excused |-> target = "EXCUSED"]
               over == [snap[r] EXCEPT !.ci = at, !.status = target,
                                       !.method = "manual", !.late = late,
                                       !.excused = @ \/ target = "EXCUSED"]
               base == IF snap[r] = NoRecord THEN fresh ELSE over
    <2>1. s \in Sessions /\ at \in Time
      BY <1>1 DEF Given, Payload
    <2>2. target \in ManualStatus /\ late \in Nat
      BY <1>1, <2>1, ClassifiedTypes DEF Given, Payload, ManualStatus, Inductive
    <2> HIDE DEF s, at, target, late
    <2>3. fresh \in Record
      BY <2>1, <2>2 DEF Record, AttendanceStatus, Methods
    <2>4. ASSUME snap[r] \in Record
          PROVE  /\ over \in Record /\ over.co = snap[r].co /\ over.spent = snap[r].spent
                 /\ over.method = "manual" /\ over.key = snap[r].key /\ over.ci = at
      <3> DEFINE a == [snap[r] EXCEPT !.ci = at, !.status = target, !.method = "manual"]
                 ex == snap[r].excused \/ target = "EXCUSED"
                 b == [a EXCEPT !.late = late, !.excused = ex]
      <3>1. ex \in BOOLEAN
        OBVIOUS
      <3>2. over = b
        BY <2>4 DEF Record
      <3> HIDE DEF ex
      <3>3. /\ a \in Record /\ a.co = snap[r].co /\ a.spent = snap[r].spent
            /\ a.method = "manual" /\ a.key = snap[r].key /\ a.ci = at
        BY <2>1, <2>2, <2>4 DEF Record, AttendanceStatus, Methods
      <3> HIDE DEF a
      <3>4. /\ b \in Record /\ b.co = a.co /\ b.spent = a.spent
            /\ b.method = a.method /\ b.key = a.key /\ b.ci = a.ci
        BY <2>2, <3>1, <3>3 DEF Record
      <3> QED BY <3>2, <3>3, <3>4
    <2>5. /\ base \in Record /\ base.method = "manual" /\ base.ci = at
          /\ snap[r] = NoRecord => base.co = None /\ base.spent = None /\ base.key = r
          /\ snap[r] # NoRecord => /\ snap[r] \in Record /\ base.key = snap[r].key
                                   /\ base.co = snap[r].co /\ base.spent = snap[r].spent
      BY <1>1, <2>3, <2>4
    <2>6. new = IF req[r].out # None THEN ApplyManualCheckOut(base, req[r].out)
                ELSE IF base.co # None THEN [base EXCEPT !.spent = Minutes(at, base.co)]
                ELSE base
      BY <1>7 DEF NewRecord, ManualIn, s, at, target, late
    <2> HIDE DEF base
    <2>7. /\ SpentOK(new) /\ new.method = "manual" /\ new.key = base.key
      <3>1. CASE req[r].out # None
        <4>1. req[r].out \in Time
          BY <1>1, <3>1 DEF Payload
        <4> QED BY <2>5, <2>6, <3>1, <4>1, ManualCheckOutKeeps
      <3>2. CASE req[r].out = None /\ base.co # None
        BY <2>5, <2>6, <3>2 DEF SpentOK, Record
      <3>3. CASE req[r].out = None /\ base.co = None
        BY <1>2, <2>5, <2>6, <3>3 DEF SpentOK
      <3> QED BY <3>1, <3>2, <3>3
    <2> QED BY <2>5, <2>7
  <1> QED BY <1>1, <1>4, <1>5, <1>6, <1>7 DEF StudentOps, ManualOps

\* A record operation writes the two columns of the check-out together, and none
\* of the check-in's.
LEMMA WhatIsWritten ==
  ASSUME Inductive, SpentInv, NEW r \in Requests, pc[r] = "write", ~Gone(r),
         NEW new, new = Written(r)
  PROVE  LET cur == att[SlotOf(r)] IN
         /\ cur \in Record /\ SpentOK(new)
         /\ new.id = cur.id /\ new.ci = cur.ci /\ new.method = cur.method
         /\ new.key = cur.key
  <1> DEFINE ed == Edited(r)
             old == snap[r]
             cur == att[SlotOf(r)]
             st == IF ed.status # old.status THEN ed.status ELSE cur.status
             ex == IF ed.excused # old.excused \/ req[r].op \in {"excuse", "mark_absent"}
                   THEN ed.excused ELSE cur.excused
             co == IF ed.co # old.co THEN ed.co ELSE cur.co
             spent == IF ed.spent # old.spent THEN ed.spent ELSE cur.spent
  <1>1. req[r] \in Payload /\ old \in Record /\ SlotOf(r) \in Slot
    BY SlotType DEF Inductive, StageInv, StageOK
  <1>2. cur \in Record
    BY <1>1, SetsAssumption DEF Inductive, TypeOK, TablesOK, Gone, Record, NoRecord
  <1>3. SpentOK(old) /\ SpentOK(cur)
    BY <1>1, <1>2, RowOrNone DEF SpentInv, SpentMatchesTimes, SpentOK
  <1>4. \/ ed.co = old.co /\ ed.spent = old.spent
        \/ ed.co = None /\ ed.spent = None
    BY <1>1 DEF Edited, Record
  <1>5. old.co = None <=> old.spent = None
    <2>1. old.co # None => Minutes(old.ci, old.co) \in Nat
      BY <1>1, MinutesNat, NumbersAssumption DEF Record, Time
    <2> QED BY <1>3, <2>1, RowOrNone DEF SpentOK
  <1>6. new = [cur EXCEPT !.status = st, !.excused = ex, !.co = co, !.spent = spent]
    BY DEF Written
  <1>7. \/ co = cur.co /\ spent = cur.spent
        \/ co = None /\ spent = None
    BY <1>4, <1>5
  <1> HIDE DEF ed, old, cur, st, ex, co, spent
  <1>8. /\ new.id = cur.id /\ new.ci = cur.ci /\ new.method = cur.method
        /\ new.key = cur.key /\ new.co = co /\ new.spent = spent
    BY <1>2, <1>6 DEF Record
  <1> QED BY <1>2, <1>3, <1>7, <1>8 DEF SpentOK, cur

\* How a step of a request answers: not yet, with nothing committed and a reason
\* that is true of the table, or by a commit.
LEMMA WhatIsAnswered ==
  ASSUME Inductive, NEW r \in Requests, Step(r) \/ Crash(r)
  PROVE  /\ req' = req /\ pc[r] # "done"
         /\ \A q \in Requests : q # r => resp'[q] = resp[q]
         /\ \/ pc'[r] # "done" /\ UNCHANGED <<att, events, resp>>
            \/ /\ pc'[r] = "done" /\ events' = events
               /\ resp'[r] = "OK" => req[r].op \in RecordOps
               /\ resp'[r] = "REPLAY" => /\ att[SlotOf(r)] # NoRecord
                                         /\ att[SlotOf(r)].key = req[r].key
            \/ Commit(r) /\ pc'[r] = "done" /\ resp'[r] \in {"OK", "LOST"}
  <1> USE DEF Inductive, TypeOK, RequestsOK
  <1>1. ASSUME NEW a, Finish(r, a)
        PROVE  /\ req' = req /\ pc'[r] = "done" /\ resp'[r] = a
               /\ \A q \in Requests : q # r => resp'[q] = resp[q]
    BY <1>1 DEF Finish, Goto
  <1>2. ASSUME NEW a, Reject(r, a)
        PROVE  /\ req' = req /\ pc'[r] = "done" /\ resp'[r] = a /\ events' = events
               /\ \A q \in Requests : q # r => resp'[q] = resp[q]
    BY <1>1, <1>2 DEF Reject, tables
  <1>3. ASSUME NEW t, NEW next, next \in {"proof", "flush", "commit"}, ConsumeToken(r, t, next)
        PROVE  \/ Reject(r, TokenRefusal(t, r))
               \/ pc'[r] # "done" /\ UNCHANGED <<req, att, events, resp>>
    BY <1>3 DEF ConsumeToken, Goto, tables
  <1>4. \A t : TokenRefusal(t, r) \notin {"OK", "REPLAY"}
    BY DEF TokenRefusal
  <1>5. CASE VerifyDeviceBinding(r) \/ LockAttendanceRow(r)
    BY <1>2, <1>5 DEF VerifyDeviceBinding, LockAttendanceRow, Goto, tables
  <1>6. CASE LoadLockedSession(r)
    <2>1. SessionRefusal(r) \notin {"OK", "REPLAY"}
      BY DEF SessionRefusal
    <2> QED BY <1>2, <1>6, <2>1 DEF LoadLockedSession, Goto, tables
  <1>7. CASE GetLockedRecord(r)
    <2>1. RecordVerdict(r) # "OK"
      BY DEF RecordVerdict, Replay
    <2>2. RecordVerdict(r) = "REPLAY" => /\ att[SlotOf(r)] # NoRecord
                                         /\ att[SlotOf(r)].key = req[r].key
      BY DEF RecordVerdict, Replay
    <2>3. CASE Reject(r, RecordVerdict(r))
      BY <1>2, <1>7, <2>1, <2>2, <2>3 DEF GetLockedRecord
    <2>4. CASE ~Reject(r, RecordVerdict(r))
      BY <1>7, <2>4 DEF GetLockedRecord, Goto, tables
    <2> QED BY <2>3, <2>4
  <1>8. CASE ConsumeLocation(r) \/ ConsumeProof(r)
    <2>1. pc[r] # "done"
      BY <1>8 DEF ConsumeLocation, ConsumeProof
    <2>2. PICK t, next : next \in {"proof", "flush", "commit"} /\ ConsumeToken(r, t, next)
      BY <1>8 DEF ConsumeLocation, ConsumeProof
    <2> QED BY <1>2, <1>3, <1>4, <2>1, <2>2
  <1>9. CASE FlushRecord(r)
    BY <1>2, <1>9 DEF FlushRecord, Goto, tables
  <1>10. CASE Commit(r)
    BY <1>1, <1>10 DEF Commit, Answered
  <1>11. CASE LoadRecord(r)
    BY <1>2, <1>11 DEF LoadRecord, Goto, tables
  <1>12. CASE WriteRecord(r)
    <2>1. req[r].op \in RecordOps /\ pc[r] = "write"
      BY <1>12 DEF WriteRecord, StageInv, StageOK
    <2>2. \/ \E a \in {"OK", "STALE_DATA"} : Reject(r, a)
          \/ \E a \in {"OK", "LOST"} : Finish(r, a) /\ events' = events
      BY <1>12 DEF WriteRecord, Answered
    <2> QED BY <1>1, <1>2, <2>1, <2>2
  <1>13. CASE Crash(r)
    BY <1>2, <1>13 DEF Crash
  <1> QED
    BY <1>5, <1>6, <1>7, <1>8, <1>9, <1>10, <1>11, <1>12, <1>13 DEF Step

\* A row changes into what a commit or a record operation makes of it, and a
\* record operation reads a row of the table.
LEMMA HowRowsChange ==
  ASSUME Inductive, SpentInv, NEW r \in Requests, Step(r) \/ Crash(r)
  PROVE  /\ \A x \in Slot : att'[x] # NoRecord /\ att'[x] # att[x] =>
               /\ x = SlotOf(r) /\ SpentOK(att'[x])
               /\ \/ att'[x].method = "manual" /\ att'[x].key = r
                  \/ /\ Commit(r) /\ req[r].op = "check_in"
                     /\ att'[x].id = r /\ att'[x].ci = clock[r]
                     /\ att'[x].key = req[r].key
                  \/ /\ att[x] # NoRecord /\ att'[x].key = att[x].key
                     /\ \/ att'[x].method = "manual"
                        \/ /\ att'[x].method = att[x].method
                           /\ att'[x].id = att[x].id /\ att'[x].ci = att[x].ci
         /\ pc'[r] = "write" => att[SlotOf(r)] # NoRecord /\ snap'[r] = att[SlotOf(r)]
  <1>1. CASE Commit(r)
    <2>1. /\ pc[r] = "commit" /\ SlotOf(r) \in Slot /\ pc'[r] = "done"
          /\ snap[r] = att[SlotOf(r)]
      BY <1>1, SlotType
      DEF Commit, Answered, Finish, Goto, Inductive, TypeOK, RequestsOK, StageInv, StageOK,
          LockedReadStaysCurrent, RecordRead
    <2>2. \A x \in Slot : att'[x] = IF x = SlotOf(r) THEN NewRecord(r) ELSE att[x]
      BY <1>1, <2>1 DEF Commit, Inductive, TypeOK, TablesOK
    <2> DEFINE new == NewRecord(r)
    <2> HIDE DEF new
    <2>3. /\ SpentOK(new)
          /\ \/ new.method = "manual" /\ new.key = r
             \/ /\ req[r].op = "check_in" /\ new.id = r /\ new.ci = clock[r]
                /\ new.key = req[r].key
             \/ /\ snap[r] \in Record /\ new.key = snap[r].key
                /\ \/ new.method = "manual"
                   \/ /\ new.method = snap[r].method /\ new.id = snap[r].id
                      /\ new.ci = snap[r].ci
      BY <2>1, WhatIsCommitted DEF new
    <2> QED BY <1>1, <2>1, <2>2, <2>3, RowOrNone DEF new
  <1>2. CASE WriteRecord(r)
    <2>1. pc[r] = "write" /\ SlotOf(r) \in Slot /\ pc'[r] = "done"
      BY <1>2, SlotType
      DEF WriteRecord, Reject, Answered, Finish, Goto, Inductive, TypeOK, RequestsOK,
          StageInv, StageOK
    <2>2. CASE att' = att
      BY <2>1, <2>2
    <2>3. CASE att' # att
      <3>1. ~Gone(r)
        BY <1>2, <2>3 DEF WriteRecord, Reject, tables
      <3>2. \A x \in Slot : \/ att'[x] = att[x] \/ att'[x] = NoRecord
                            \/ x = SlotOf(r) /\ att'[x] = Written(r)
        BY <1>2, <2>1, <2>3 DEF WriteRecord, Reject, tables, Inductive, TypeOK, TablesOK
      <3> DEFINE new == Written(r)
      <3> HIDE DEF new
      <3>3. /\ att[SlotOf(r)] \in Record /\ SpentOK(new)
            /\ new.id = att[SlotOf(r)].id /\ new.ci = att[SlotOf(r)].ci
            /\ new.method = att[SlotOf(r)].method /\ new.key = att[SlotOf(r)].key
        BY <2>1, <3>1, WhatIsWritten DEF new
      <3> QED BY <2>1, <3>2, <3>3, RowOrNone DEF new
    <2> QED BY <2>2, <2>3
  <1>3. CASE ~Commit(r) /\ ~WriteRecord(r)
    <2>1. att' = att
      BY <1>3
      DEF Step, Crash, VerifyDeviceBinding, LoadLockedSession, LockAttendanceRow,
          GetLockedRecord, ConsumeLocation, ConsumeProof, ConsumeToken, FlushRecord,
          LoadRecord, Reject, tables
    <2>2. ASSUME pc'[r] = "write"
          PROVE  att[SlotOf(r)] # NoRecord /\ snap'[r] = att[SlotOf(r)]
      <3>1. ~\E a : Finish(r, a)
        BY <2>2 DEF Finish, Goto, Inductive, TypeOK, RequestsOK
      <3>2. LoadRecord(r)
        BY <1>3, <2>2, <3>1
        DEF Step, Crash, VerifyDeviceBinding, LoadLockedSession, LockAttendanceRow,
            GetLockedRecord, ConsumeLocation, ConsumeProof, ConsumeToken, FlushRecord,
            Reject, Goto, Inductive, TypeOK, RequestsOK
      <3> QED
        BY <3>1, <3>2 DEF LoadRecord, Reject, Inductive, TypeOK, RequestsOK
    <2> QED BY <2>1, <2>2
  <1> QED BY <1>1, <1>2, <1>3

\* Events stay, and a request that has one is not submitted again.
LEMMA EventsStay ==
  ASSUME Inductive, AnswersCome, [Next]_vars
  PROVE  \A e \in events : e \in events' /\ req'[e.req] = req[e.req]
  <1>1. \A e \in events : e.req \in Requests
    BY DEF Inductive, TypeOK, TablesOK, Event
  <1>2. CASE \E r \in Requests, p \in Payloads : Submit(r, p)
    <2>1. PICK r \in Requests, p \in Payloads : Submit(r, p)
      BY <1>2
    <2>2. \A e \in events : e.req # r
      BY <2>1 DEF Submit, AnswersCome
    <2> QED
      BY <1>1, <2>1, <2>2 DEF Submit, tables, Inductive, TypeOK, RequestsOK
  <1>3. CASE \E r \in Requests : Step(r) \/ Crash(r)
    <2>1. PICK r \in Requests : Step(r) \/ Crash(r)
      BY <1>3
    <2>2. req' = req
      BY <2>1, WhatIsAnswered
    <2>3. events \subseteq events'
      BY <2>1, TokensUntouched DEF Commit
    <2> QED BY <2>2, <2>3
  <1>4. CASE UNCHANGED <<req, events>>
    BY <1>4
  <1> QED
    BY <1>2, <1>3, <1>4
    DEF Next, vars, Tick, VerifyLocation, VerifyVenue, VerifyFace, Mint,
        EnsureDailySession, UpdateSessionHours

\* Nothing of Told changes while the table, the events and the answers stay.
LEMMA SameTold ==
  ASSUME Told, UNCHANGED <<att, events, req, resp, pc, snap>>
  PROVE  Told'
  BY DEF Told, SpentInv, SpentMatchesTimes, SpentOK, RecordHasEvidence, KeysAreSubmitted,
         AnswersCome, AnswerTruthful, Minutes, SlotOf

LEMMA SubmitTold ==
  ASSUME Inductive, Told, NEW r \in Requests, NEW p \in Payloads, Submit(r, p)
  PROVE  Told'
  <1>1. /\ UNCHANGED <<att, events, resp, snap>>
        /\ pc[r] = "idle" /\ pc'[r] \notin {"write", "done"}
        /\ \A q \in Requests : q # r => pc'[q] = pc[q] /\ req'[q] = req[q]
    BY DEF Submit, Goto, tables, Inductive, TypeOK, RequestsOK
  <1>2. \A e \in events : req'[e.req] = req[e.req]
    BY EventsStay DEF Told, Next
  <1>3. resp'[r] = "none" /\ ~\E e \in events : e.req = r
    BY <1>1 DEF Told, AnswersCome
  <1>4. SpentInv'
    BY <1>1 DEF Told, SpentInv, SpentMatchesTimes, SpentOK, Minutes
  <1>5. RecordHasEvidence'
    BY <1>1 DEF Told, RecordHasEvidence
  <1>6. KeysAreSubmitted'
    BY <1>1, <1>2 DEF Told, KeysAreSubmitted
  <1>7. AnswersCome'
    BY <1>1, <1>3 DEF Told, AnswersCome
  <1>8. AnswerTruthful'
    BY <1>1, <1>2, <1>3 DEF Told, AnswerTruthful, SlotOf
  <1> QED BY <1>4, <1>5, <1>6, <1>7, <1>8 DEF Told

LEMMA StepTold ==
  ASSUME Inductive, Told, NEW r \in Requests, Step(r) \/ Crash(r)
  PROVE  Told'
  <1>1. /\ req' = req /\ pc[r] # "done"
        /\ \A q \in Requests : q # r => resp'[q] = resp[q] /\ pc'[q] = pc[q]
                                                           /\ snap'[q] = snap[q]
    BY WhatIsAnswered, OthersKeepTheirs DEF Inductive, TypeOK
  <1>2. \A e \in events : e \in events'
    BY TokensUntouched DEF Commit
  <1>3. \A e \in events' : e \in events \/ e.req = r
    BY TokensUntouched DEF Commit, EventOf
  <1>4. ~\E e \in events : e.req = r
    BY <1>1 DEF Told, AnswersCome
  <1>5. req[r] \in Payload /\ SlotOf(r) \in Slot
    <2>1. pc[r] # "idle"
      BY DEF Step, Crash, VerifyDeviceBinding, LoadLockedSession, LockAttendanceRow,
             GetLockedRecord, ConsumeLocation, ConsumeProof, FlushRecord, Commit,
             LoadRecord, WriteRecord
    <2> QED BY <2>1, SlotType DEF Inductive, StageInv, StageOK
  <1>6. SpentInv
    BY DEF Told
  <1>7. \A x \in Slot : att'[x] # NoRecord /\ att'[x] # att[x] =>
           /\ x = SlotOf(r) /\ SpentOK(att'[x])
           /\ \/ att'[x].method = "manual" /\ att'[x].key = r
              \/ /\ Commit(r) /\ req[r].op = "check_in"
                 /\ att'[x].id = r /\ att'[x].ci = clock[r]
                 /\ att'[x].key = req[r].key
              \/ /\ att[x] # NoRecord /\ att'[x].key = att[x].key
                 /\ \/ att'[x].method = "manual"
                    \/ /\ att'[x].method = att[x].method
                       /\ att'[x].id = att[x].id /\ att'[x].ci = att[x].ci
    BY <1>6, HowRowsChange
  <1>8. Commit(r) /\ req[r].op \in StudentOps =>
          \E e \in events' : /\ e.req = r /\ e.op = req[r].op /\ e.at = clock[r]
                             /\ <<e.session, e.student>> = SlotOf(r)
    <2>1. Commit(r) /\ req[r].op \in StudentOps => EventOf(r) \in events'
      BY DEF Commit
    <2>2. /\ EventOf(r).req = r /\ EventOf(r).op = req[r].op /\ EventOf(r).at = clock[r]
          /\ <<EventOf(r).session, EventOf(r).student>> = SlotOf(r)
      BY DEF EventOf, SlotOf
    <2> QED BY <2>1, <2>2
  <1>9. SpentInv'
    <2>1. SpentMatchesTimes'
      BY <1>6, <1>7 DEF SpentInv, SpentMatchesTimes, SpentOK, Minutes
    <2>2. pc'[r] = "write" => SpentOK(snap'[r])
      <3>1. pc'[r] = "write" => att[SlotOf(r)] # NoRecord /\ snap'[r] = att[SlotOf(r)]
        BY <1>6, HowRowsChange
      <3> QED BY <1>5, <1>6, <3>1 DEF SpentInv, SpentMatchesTimes, SpentOK
    <2>3. \A q \in Requests : q # r => (pc'[q] = "write" => SpentOK(snap'[q]))
      BY <1>1, <1>6 DEF SpentInv
    <2> QED BY <2>1, <2>2, <2>3 DEF SpentInv, SpentOK, Minutes
  <1>10. RecordHasEvidence'
    <2> SUFFICES ASSUME NEW x \in Slot, att'[x] # NoRecord, att'[x].method # "manual"
                 PROVE  \E e \in events' : /\ e.req = att'[x].id
                                           /\ e.op = "check_in"
                                           /\ <<e.session, e.student>> = x
                                           /\ e.at = att'[x].ci
      BY DEF RecordHasEvidence
    <2>1. CASE Commit(r) /\ req[r].op = "check_in" /\ att'[x] # att[x]
               /\ att'[x].id = r /\ att'[x].ci = clock[r]
      BY <1>7, <1>8, <2>1 DEF StudentOps
    <2>2. CASE /\ att[x] # NoRecord /\ att'[x].method = att[x].method
               /\ att'[x].id = att[x].id /\ att'[x].ci = att[x].ci
      BY <1>2, <2>2 DEF Told, RecordHasEvidence
    <2> QED BY <1>7, <2>1, <2>2
  <1>11. KeysAreSubmitted'
    <2> SUFFICES ASSUME NEW x \in Slot, att'[x] # NoRecord, att'[x].key \in Keys
                 PROVE  \E e \in events' : /\ e.op = "check_in"
                                           /\ <<e.session, e.student>> = x
                                           /\ req'[e.req].key = att'[x].key
      BY DEF KeysAreSubmitted
    <2>1. CASE Commit(r) /\ req[r].op = "check_in" /\ att'[x] # att[x]
               /\ att'[x].key = req[r].key
      BY <1>1, <1>7, <1>8, <2>1 DEF StudentOps
    <2>2. CASE att[x] # NoRecord /\ att'[x].key = att[x].key
      BY <1>1, <1>2, <2>2 DEF Told, KeysAreSubmitted
    <2>3. att'[x].key # r
      BY SetsAssumption
    <2> QED BY <1>7, <2>1, <2>2, <2>3
  <1>12. AnswersCome'
    <2>1. \A q \in Requests : q # r => (pc'[q] # "done" =>
            resp'[q] = "none" /\ ~\E e \in events' : e.req = q)
      BY <1>1, <1>3 DEF Told, AnswersCome
    <2>2. pc'[r] # "done" => resp'[r] = "none" /\ ~\E e \in events' : e.req = r
      BY <1>1, <1>4, WhatIsAnswered DEF Told, AnswersCome
    <2> QED BY <2>1, <2>2 DEF AnswersCome
  <1>13. AnswerTruthful'
    <2>1. \A q \in Requests : SlotOf(q)' = SlotOf(q)
      BY <1>1 DEF SlotOf
    <2>2. ASSUME NEW q \in Requests, q # r
          PROVE  /\ resp'[q] \notin {"none", "OK", "LOST"} => ~\E e \in events' : e.req = q
                 /\ resp'[q] = "OK" /\ req[q].op \in StudentOps =>
                      \E e \in events' : e.req = q
                 /\ resp'[q] = "REPLAY" /\ req[q].op = "check_in" =>
                      \E e \in events' : /\ e.op = "check_in"
                                         /\ <<e.session, e.student>> = SlotOf(q)
                                         /\ req[e.req].key = req[q].key
      BY <1>1, <1>2, <1>3, <2>2 DEF Told, AnswerTruthful
    <2>3. /\ resp'[r] \notin {"none", "OK", "LOST"} => ~\E e \in events' : e.req = r
          /\ resp'[r] = "OK" /\ req[r].op \in StudentOps =>
               \E e \in events' : e.req = r
          /\ resp'[r] = "REPLAY" /\ req[r].op = "check_in" =>
               \E e \in events' : /\ e.op = "check_in"
                                  /\ <<e.session, e.student>> = SlotOf(r)
                                  /\ req[e.req].key = req[r].key
      <3>1. CASE pc'[r] # "done" /\ UNCHANGED <<att, events, resp>>
        <4>1. resp'[r] = "none"
          BY <1>12, <3>1 DEF AnswersCome
        <4> QED BY <4>1
      <3>2. CASE /\ pc'[r] = "done" /\ events' = events
                 /\ resp'[r] = "OK" => req[r].op \in RecordOps
                 /\ resp'[r] = "REPLAY" => /\ att[SlotOf(r)] # NoRecord
                                           /\ att[SlotOf(r)].key = req[r].key
        <4>1. req[r].key \in Keys
          BY <1>5 DEF Payload
        <4> QED
          BY <1>4, <1>5, <3>2, <4>1 DEF Told, KeysAreSubmitted, RecordOps, StudentOps
      <3>3. CASE Commit(r) /\ pc'[r] = "done" /\ resp'[r] \in {"OK", "LOST"}
        BY <1>8, <3>3
      <3> QED BY <3>1, <3>2, <3>3, WhatIsAnswered
    <2> QED BY <1>1, <2>1, <2>2, <2>3 DEF AnswerTruthful
  <1> QED BY <1>9, <1>10, <1>11, <1>12, <1>13 DEF Told

LEMMA InitTold == Init => Told
  BY DEF Init, Told, SpentInv, SpentMatchesTimes, RecordHasEvidence, KeysAreSubmitted,
         AnswersCome, AnswerTruthful

LEMMA NextTold == Inductive /\ Told /\ [Next]_vars => Told'
  <1> SUFFICES ASSUME Inductive, Told, [Next]_vars PROVE Told'
    OBVIOUS
  <1>1. CASE UNCHANGED <<att, events, req, resp, pc, snap>>
    BY <1>1, SameTold
  <1> QED
    BY <1>1, SubmitTold, StepTold
    DEF Next, vars, Tick, VerifyLocation, VerifyVenue, VerifyFace, Mint,
        EnsureDailySession, UpdateSessionHours

\* What the table, the events and the answers say of each other holds in every
\* state.
THEOREM ToldInvariant == Spec => []Told
  BY InitTold, NextTold, InductiveInvariant, PTL DEF Spec

\* time_spent_minutes is always the minutes between the two times of its row,
\* also where a record operation wrote back what it had read without a lock.
THEOREM TimesAgree == Spec => []SpentMatchesTimes
  <1>1. Told => SpentMatchesTimes
    BY DEF Told, SpentInv
  <1> QED
    BY <1>1, ToldInvariant, PTL

\* A record that does not say "manual" always has the check-in that made it.
THEOREM RecordsHaveEvidence == Spec => []RecordHasEvidence
  <1>1. Told => RecordHasEvidence
    BY DEF Told
  <1> QED
    BY <1>1, ToldInvariant, PTL

\* A client is never told OK of what was not committed, an error of what was, nor
\* a replay of a check-in that nobody made with its key.
THEOREM AnswersAreTrue == Spec => []AnswerTruthful
  <1>1. Told => AnswerTruthful
    BY DEF Told
  <1> QED
    BY <1>1, ToldInvariant, PTL

-----------------------------------------------------------------------------
(* The transactions implement AttendanceLedger.                            *)

\* The three variables of the ledger, as Attendance maps them.
Roll == [x \in Slot |-> RollOf(att[x])]
Spent == {t \in Tokens : tok[t].used}
Journal == {[slot |-> <<e.session, e.student>>, op |-> e.op, tokens |-> e.tokens]
            : e \in events}

USE DEF Roll, Spent, Journal

LEMMA NoRecordIsNoRecord == NoRecord \notin Record
  BY SetsAssumption DEF NoRecord, Record

LEMMA InitIsLedgerInit == Init => Ledger!Init
  BY DEF Init, Ledger!Init, RollOf

\* Writing one record moves one entry of the roll.
LEMMA RollOfWrite ==
  ASSUME NEW x \in Slot, NEW v, att' = [att EXCEPT ![x] = v],
         att \in [Slot -> Record \cup {NoRecord}]
  PROVE  Roll' = [Roll EXCEPT ![x] = RollOf(v)]
  <1>1. \A y \in Slot : att'[y] = IF y = x THEN v ELSE att[y]
    OBVIOUS
  <1>2. Roll' = [y \in Slot |-> RollOf(att'[y])]
    BY DEF RollOf
  <1> QED
    BY <1>1, <1>2

\* A student's commit is a check-in or a check-out of the ledger.
LEMMA CommitAttends ==
  ASSUME Inductive, NEW r \in Requests, Commit(r), req[r].op \in StudentOps,
         NEW x \in Slot, x = SlotOf(r)
  PROVE  Ledger!CheckIn(x) \/ Ledger!CheckOut(x)
  <1>1. /\ TypeOK /\ StageInv /\ StageOK(r) /\ TokensInTransit
        /\ req[r] \in Payload
        /\ SlotOf(r) \in Slot
        /\ snap[r] = att[SlotOf(r)]
    BY SlotType
    DEF Commit, Inductive, StageInv, StageOK, LockedReadStaysCurrent, RecordRead
  <1>2. PICK l \in LocTokens, p \in FaceTokens \cup VenueTokens : held[r] = {l, p}
    BY <1>1, NewEvent
  <1>3. /\ TokenStudent[l] = req[r].student /\ TokenSession[l] = req[r].session
        /\ TokenStudent[p] = req[r].student /\ TokenSession[p] = req[r].session
        /\ ~tok[l].used /\ ~tok[p].used
    BY <1>1, <1>2, NewEvent
  <1>4. Spent' = Spent \cup {l, p}
    <2>1. \A u \in Tokens : tok'[u].used = (tok[u].used \/ u \in held[r])
      BY <1>1 DEF Commit, TypeOK, TablesOK, TokenRow
    <2> QED
      BY <1>2, <2>1
  <1>5. Journal' = Journal \cup
                     {[slot |-> SlotOf(r), op |-> req[r].op, tokens |-> {l, p}]}
    <2>1. events' = events \cup {EventOf(r)}
      BY DEF Commit
    <2>2. /\ <<EventOf(r).session, EventOf(r).student>> = SlotOf(r)
          /\ EventOf(r).op = req[r].op
          /\ EventOf(r).tokens = {l, p}
      BY <1>2 DEF EventOf, SlotOf
    <2> QED
      BY <2>1, <2>2
  <1>6. Roll' = [Roll EXCEPT ![SlotOf(r)] = RollOf(NewRecord(r))]
    BY <1>1, RollOfWrite DEF Commit, TypeOK, TablesOK
  <1>7. NewRecord(r) \in Record /\ NewRecord(r) # NoRecord
    BY <1>1, NewRecordType, NoRecordIsNoRecord DEF Commit
  <1>8. CASE req[r].op = "check_in"
    <2>1. Roll[SlotOf(r)] = "absent"
      BY <1>1, <1>8 DEF Commit, StageOK, RecordRead, RollOf
    <2>2. NewRecord(r).co = None /\ NewRecord(r).status # "CHECKED_OUT"
      <3>1. Classified(req[r].session, clock[r]) \in {"PRESENT", "LATE"}
        BY DEF Classified
      <3> QED
        BY <1>8, <3>1 DEF NewRecord, CheckInRecord, CheckInRecordAt
    <2>3. RollOf(NewRecord(r)) = "in"
      BY <1>7, <2>2 DEF RollOf
    <2> QED
      BY <1>2, <1>3, <1>4, <1>5, <1>6, <1>8, <2>1, <2>3
      DEF Ledger!CheckIn, Ledger!Attend, Ledger!Entry, SlotOf
  <1>9. CASE req[r].op = "check_out"
    <2>1. snap[r] \in Record /\ Open(snap[r])
      BY <1>1, <1>9 DEF Commit, StageOK, RecordRead
    <2>2. Roll[SlotOf(r)] = "in"
      BY <1>1, <2>1, NoRecordIsNoRecord DEF RollOf, Open
    <2>3. NewRecord(r).co = clock[r]
      BY <1>9, <2>1 DEF NewRecord, CheckOutRecord, Record
    <2>4. clock[r] # None
      BY <1>1, SetsAssumption, NumbersAssumption DEF TypeOK, RequestsOK, Time
    <2>5. RollOf(NewRecord(r)) = "out"
      BY <1>7, <2>3, <2>4 DEF RollOf
    <2> QED
      BY <1>2, <1>3, <1>4, <1>5, <1>6, <1>9, <2>2, <2>5
      DEF Ledger!CheckOut, Ledger!Attend, Ledger!Entry, SlotOf
  <1> QED
    BY <1>8, <1>9 DEF StudentOps

\* A commit of staff, and a record operation, correct one entry of the roll.
LEMMA StaffCorrects ==
  ASSUME TypeOK, NEW x \in Slot, NEW v, att' = [att EXCEPT ![x] = v],
         \A t \in Tokens : tok'[t].used = tok[t].used, events' = events
  PROVE  Ledger!Correct(x)
  <1>1. Roll' = [Roll EXCEPT ![x] = RollOf(v)]
    BY RollOfWrite DEF TypeOK, TablesOK
  <1>2. RollOf(v) \in {"absent", "in", "out"}
    BY DEF RollOf
  <1> QED
    BY <1>1, <1>2 DEF Ledger!Correct

LEMMA NextIsLedgerNext ==
  ASSUME Inductive, [Next]_vars
  PROVE  [Ledger!Next]_(Ledger!ledger)
  <1>1. ASSUME UNCHANGED att, \A t \in Tokens : tok'[t].used = tok[t].used,
               UNCHANGED events
        PROVE  UNCHANGED Ledger!ledger
    BY <1>1 DEF Ledger!ledger, RollOf
  <1>2. ASSUME NEW t \in Tokens, Mint(t)
        PROVE  UNCHANGED Ledger!ledger
    <2>1. \A u \in Tokens : tok'[u].used = tok[u].used
      BY <1>2 DEF Mint, Inductive, TokensInTransit, TypeOK, TablesOK, TokenRow
    <2> QED
      BY <1>1, <1>2, <2>1 DEF Mint
  <1>3. ASSUME NEW r \in Requests, Commit(r)
        PROVE  Ledger!Next
    <2>1. SlotOf(r) \in Slot
      BY <1>3, SlotType DEF Commit, Inductive, StageInv, StageOK
    <2>2. CASE req[r].op \in StudentOps
      <3>1. PICK x \in Slot : x = SlotOf(r)
        BY <2>1
      <3>2. Ledger!CheckIn(x) \/ Ledger!CheckOut(x)
        BY <1>3, <2>2, <3>1, CommitAttends
      <3> QED
        BY <3>2 DEF Ledger!Next
    <2>3. CASE req[r].op \notin StudentOps
      <3>1. held[r] = {}
        BY <1>3, <2>3 DEF Commit, Inductive, StageInv, StageOK
      <3>2. \A t \in Tokens : tok'[t].used = tok[t].used
        BY <1>3, <3>1 DEF Commit, Inductive, TypeOK, TablesOK, TokenRow
      <3>3. Ledger!Correct(SlotOf(r))
        BY <1>3, <2>1, <2>3, <3>2, StaffCorrects DEF Commit, Inductive
      <3> QED
        BY <2>1, <3>3 DEF Ledger!Next
    <2> QED
      BY <2>2, <2>3
  <1>4. ASSUME NEW r \in Requests, WriteRecord(r)
        PROVE  [Ledger!Next]_(Ledger!ledger)
    <2>1. SlotOf(r) \in Slot
      BY <1>4, SlotType DEF WriteRecord, Inductive, StageInv, StageOK
    <2>2. CASE UNCHANGED tables
      BY <1>1, <2>2 DEF tables
    <2>3. CASE ~UNCHANGED tables
      <3>1. /\ UNCHANGED <<tok, events>>
            /\ att' = [att EXCEPT ![SlotOf(r)] =
                         IF req[r].op = "delete" THEN NoRecord ELSE Written(r)]
        BY <1>4, <2>3 DEF WriteRecord, Reject
      <3>2. Ledger!Correct(SlotOf(r))
        BY <2>1, <3>1, StaffCorrects DEF Inductive
      <3> QED
        BY <2>1, <3>2 DEF Ledger!Next
    <2> QED
      BY <2>2, <2>3
  <1>5. ASSUME NEW r \in Requests, Step(r) \/ Crash(r), ~Commit(r), ~WriteRecord(r)
        PROVE  UNCHANGED Ledger!ledger
    <2>1. UNCHANGED <<att, tok, events>>
      BY <1>5
      DEF Step, Crash, VerifyDeviceBinding, LoadLockedSession, LockAttendanceRow,
          GetLockedRecord, ConsumeLocation, ConsumeProof, ConsumeToken, FlushRecord,
          LoadRecord, Reject, tables
    <2> QED
      BY <1>1, <2>1
  <1>6. CASE \/ UNCHANGED vars
             \/ Tick
             \/ \E s \in Sessions : EnsureDailySession(s)
             \/ \E s \in Sessions, h \in HoursChoices : UpdateSessionHours(s, h)
             \/ \E r \in Requests, p \in Payloads : Submit(r, p)
    <2>1. UNCHANGED <<att, tok, events>>
      BY <1>6 DEF vars, Tick, EnsureDailySession, UpdateSessionHours, Submit, tables
    <2> QED
      BY <1>1, <2>1
  <1> QED
    BY <1>2, <1>3, <1>4, <1>5, <1>6
    DEF Next, VerifyLocation, VerifyVenue, VerifyFace

\* Every behaviour of the transactions is one of the ledger: concurrent
\* requests, rollbacks and crashes show outside as single atomic check-ins,
\* check-outs and corrections.
THEOREM TransactionsImplementLedger == Spec => ImplementsLedger
  <1>1. Inductive /\ [Next]_vars => [Ledger!Next]_(Ledger!ledger)
    BY NextIsLedgerNext
  <1> QED
    BY <1>1, InitIsLedgerInit, InductiveInvariant, PTL
    DEF Spec, ImplementsLedger, Ledger!Spec

=============================================================================
