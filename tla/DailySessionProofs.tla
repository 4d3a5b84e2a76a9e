------------------------- MODULE DailySessionProofs -------------------------
(***************************************************************************)
(* Safety of DailySession for every number of requests and days.           *)
(***************************************************************************)
EXTENDS DailySession, TLAPS

USE DEF Steps, Goto, Resolving

\* Rewriting rows in place, keeping id, day and what is current, keeps the rows
\* distinct, keeps every answer true and keeps what other requests have found.
LEMMA RowsRewritten ==
  ASSUME DailyInv, NEW F \in [rows -> Row], rows' = {F[a] : a \in rows},
         \A a \in rows : /\ F[a].id = a.id
                         /\ F[a].day = a.day
                         /\ a.current => F[a].current
  PROVE  /\ rows' \subseteq Row
         /\ RowsDistinct'
         /\ \A b \in rows' : \E a \in rows : a.id = b.id /\ a.day = b.day
         /\ \A a \in rows : F[a] \in rows'
         /\ \A i, d : (\E a \in rows : a.id = i /\ a.day = d)
              => \E b \in rows' : b.id = i /\ b.day = d
         /\ \A i, d : (\E a \in rows : /\ a.id = i /\ a.day = d /\ a.current
                                       /\ \A other \in rows : other.day = d => other = a)
              => \E b \in rows' : /\ b.id = i /\ b.day = d /\ b.current
                                  /\ \A other \in rows' : other.day = d => other = b
<1>1. /\ rows' \subseteq Row
      /\ \A a \in rows : F[a] \in rows'
      /\ \A b \in rows' : \E a \in rows : b = F[a]
  OBVIOUS
<1>2. RowsDistinct'
  <2> SUFFICES ASSUME NEW b \in rows', NEW c \in rows', b.day = c.day \/ b.id = c.id
               PROVE  b = c
    BY DEF RowsDistinct
  <2>1. PICK a \in rows : b = F[a]
    BY <1>1
  <2>2. PICK e \in rows : c = F[e]
    BY <1>1
  <2>3. a = e
    BY <2>1, <2>2 DEF DailyInv, RowsDistinct
  <2> QED BY <2>1, <2>2, <2>3
<1>3. ASSUME NEW i, NEW d,
             NEW a \in rows, a.id = i, a.day = d, a.current,
             \A other \in rows : other.day = d => other = a
      PROVE  \E b \in rows' : /\ b.id = i /\ b.day = d /\ b.current
                              /\ \A other \in rows' : other.day = d => other = b
  <2>1. F[a] \in rows' /\ F[a].id = i /\ F[a].day = d /\ F[a].current
    BY <1>1, <1>3
  <2>2. \A other \in rows' : other.day = d => other = F[a]
    BY <1>1, <1>3
  <2> QED BY <2>1, <2>2
<1> QED BY <1>1, <1>2, <1>3

\* A step that keeps the rows and the answers keeps the answers true.
LEMMA AnswersKept ==
  ASSUME AnswersItsDay, UNCHANGED <<rows, clock, resp>>
  PROVE  AnswersItsDay'
  BY DEF AnswersItsDay

\* A request that begins has been told nothing, so reading the clock does not
\* disturb its answer.
LEMMA ClockRead ==
  ASSUME DailyInv, NEW r \in Requests, pc[r] = "idle",
         clock' = [clock EXCEPT ![r] = today], UNCHANGED <<rows, resp>>
  PROVE  AnswersItsDay'
<1>1. resp[r] = "none"
  BY DEF DailyInv
<1>2. resp[r] \notin Requests \cup {Earlier}
  BY <1>1, DailyAssumption DEF Answers
<1>3. \A q \in Requests : q # r => clock'[q] = clock[q]
  BY DEF DailyInv, TypeOK
<1> QED
  BY <1>2, <1>3 DEF DailyInv, AnswersItsDay

\* The request that ends gives its locks back; everything else but the rows is
\* as it was.
LEMMA Finished ==
  ASSUME DailyInv, NEW r \in Requests, NEW a \in Answers \cup Requests \cup {Earlier},
         Finish(r, a), rows' \subseteq Row, locations' \subseteq Requests \cup {Earlier}
  PROVE  /\ TypeOK'
         /\ \A q \in Requests : resp'[q] # "none" => pc'[q] = "done"
         /\ \A q \in Requests : q # r =>
              /\ pc'[q] = pc[q] /\ resp'[q] = resp[q]
              /\ advisory = q => advisory' = q
         /\ pc'[r] = "done" /\ resp'[r] = a
  BY DEF DailyInv, TypeOK, Finish, Unlocked

\* A request that fails or is refused, whatever its step, leaves the invariant.
LEMMA FailedKeeps ==
  ASSUME DailyInv, NEW r \in Requests, NEW a \in Answers \ {"ERROR"}, Fail(r, a)
  PROVE  DailyInv'
<1>0. Finish(r, a) /\ UNCHANGED <<rows, locations>>
  BY DEF Fail
<1>1. /\ TypeOK'
      /\ \A q \in Requests : resp'[q] # "none" => pc'[q] = "done"
      /\ \A q \in Requests : q # r =>
           /\ pc'[q] = pc[q] /\ resp'[q] = resp[q]
           /\ advisory = q => advisory' = q
      /\ pc'[r] = "done" /\ resp'[r] = a
  BY <1>0, Finished DEF DailyInv, TypeOK
<1>2. RowsDistinct'
  BY <1>0 DEF DailyInv, RowsDistinct
<1>3. \A row \in rows' : row.id \in Requests => pc'[row.id] = "done"
  BY <1>0, <1>1 DEF DailyInv
<1>4. \A q \in Requests : StillResolved(q)'
  BY <1>0, <1>1 DEF DailyInv, StillResolved, Finish
<1>5. EnsureNeverFails'
  BY <1>1 DEF DailyInv, EnsureNeverFails
<1>6. a \notin Requests \cup {Earlier}
  BY DailyAssumption
<1>7. AnswersItsDay'
  BY <1>0, <1>1, <1>6 DEF DailyInv, AnswersItsDay, Finish
<1> QED BY <1>1, <1>2, <1>3, <1>4, <1>5, <1>7 DEF DailyInv

\* The two answers a request cannot get: with the advisory lock no INSERT hits a
\* unique index.
LEMMA NoUniqueViolation ==
  ASSUME DailyInv, NEW r \in Requests
  PROVE  /\ pc[r] = "flush_location" => locations = {}
         /\ pc[r] \in {"flush_session", "commit"} /\ found[r] = None
              => \A row \in rows : row.day # clock[r]
  BY DEF DailyInv, StillResolved

\* A step of one request that writes no row and gives no answer.
LEMMA QuietStep ==
  ASSUME DailyInv, NEW r \in Requests, UNCHANGED <<rows, clock, resp, locations>>,
         TypeOK', \A q \in Requests : q # r =>
                   /\ pc'[q] = pc[q] /\ found'[q] = found[q]
                   /\ located'[q] = located[q] /\ want'[q] = want[q]
                   /\ advisory = q => advisory' = q,
         pc[r] # "done", resp[r] = "none", StillResolved(r)'
  PROVE  DailyInv'
<1>1. RowsDistinct' /\ EnsureNeverFails'
  BY DEF DailyInv, RowsDistinct, EnsureNeverFails
<1>2. \A row \in rows' : row.id \in Requests => pc'[row.id] = "done"
  BY DEF DailyInv
<1>3. \A q \in Requests : resp'[q] # "none" => pc'[q] = "done"
  BY DEF DailyInv
<1>4. \A q \in Requests : StillResolved(q)'
  <2> SUFFICES ASSUME NEW q \in Requests, q # r
               PROVE  StillResolved(q)'
    OBVIOUS
  <2> QED BY DEF DailyInv, StillResolved
<1>5. AnswersItsDay'
  BY AnswersKept DEF DailyInv
<1> QED BY <1>1, <1>2, <1>3, <1>4, <1>5 DEF DailyInv

\* The commit of a request that resolved the day's session: one row more, or one
\* row refreshed.
LEMMA CommitEnsureKeeps ==
  ASSUME DailyInv, NEW r \in Requests, CommitEnsure(r)
  PROVE  DailyInv'
<1> DEFINE a == IF found[r] = None THEN r ELSE found[r].id
<1>0. /\ TypeOK /\ RowsDistinct /\ EnsureNeverFails /\ AnswersItsDay
      /\ \A q \in Requests : StillResolved(q)
      /\ \A row \in rows : row.id \in Requests => pc[row.id] = "done"
      /\ pc[r] = "commit" /\ advisory = r
      /\ Finish(r, a)
  BY DEF DailyInv, CommitEnsure, StillResolved
<1>1. a \in Requests \cup {Earlier}
  BY <1>0 DEF TypeOK, Row
<1>2. locations' \subseteq Requests \cup {Earlier}
  BY <1>0 DEF CommitEnsure, TypeOK
<1>3. /\ rows' \subseteq Row
      /\ RowsDistinct'
      /\ \A row \in rows' : row.id \in Requests \ {r} => pc[row.id] = "done"
      /\ \A i, d : (\E x \in rows : /\ x.id = i /\ x.day = d /\ x.current
                                    /\ \A other \in rows : other.day = d => other = x)
           => \E b \in rows' : /\ b.id = i /\ b.day = d /\ b.current
                               /\ \A other \in rows' : other.day = d => other = b
      /\ \E b \in rows' : /\ b.id = a /\ b.day = clock[r] /\ b.current
                          /\ \A other \in rows' : other.day = clock[r] => other = b
  <2>1. CASE found[r] = None
    <3>1. rows' = rows \cup {NewRow(r)}
      BY <2>1 DEF CommitEnsure
    <3>2. \A row \in rows : row.day # clock[r] /\ row.id # r
      BY <1>0, <2>1, NoUniqueViolation
    <3>3. /\ NewRow(r) \in Row
          /\ NewRow(r).id = r /\ NewRow(r).day = clock[r] /\ NewRow(r).current
      BY <1>0, DailyAssumption DEF NewRow, Row, TypeOK
    <3>4. rows' \subseteq Row
      BY <1>0, <3>1, <3>3 DEF TypeOK
    <3>5. RowsDistinct'
      BY <1>0, <3>1, <3>2, <3>3 DEF RowsDistinct
    <3>6. \A row \in rows' : row.id \in Requests \ {r} => pc[row.id] = "done"
      BY <1>0, <3>1, <3>3
    <3>7. ASSUME NEW i, NEW d, NEW x \in rows, x.id = i, x.day = d, x.current,
                 \A other \in rows : other.day = d => other = x
          PROVE  \E b \in rows' : /\ b.id = i /\ b.day = d /\ b.current
                                  /\ \A other \in rows' : other.day = d => other = b
      BY <3>1, <3>2, <3>3, <3>7
    <3>8. \E b \in rows' : /\ b.id = a /\ b.day = clock[r] /\ b.current
                           /\ \A other \in rows' : other.day = clock[r] => other = b
      BY <2>1, <3>1, <3>2, <3>3
    <3> QED BY <3>4, <3>5, <3>6, <3>7, <3>8
  <2>2. CASE found[r] # None
    <3> DEFINE F == [row \in rows |-> IF row.id = found[r].id THEN Refreshed(row) ELSE row]
    <3>0. \A row \in rows : Refreshed(row) \in Row /\ row \in Row
      BY <1>0 DEF TypeOK, Refreshed, Row
    <3>1. F \in [rows -> Row]
      BY <3>0
    <3>2. rows' = {F[row] : row \in rows}
      BY <2>2 DEF CommitEnsure
    <3>3. \A row \in rows : /\ F[row].id = row.id
                            /\ F[row].day = row.day
                            /\ row.current => F[row].current
                            /\ row.id = found[r].id => F[row].current
      BY <1>0 DEF TypeOK, Refreshed, Row
    <3> HIDE DEF F
    <3>4. /\ rows' \subseteq Row
          /\ RowsDistinct'
          /\ \A b \in rows' : \E x \in rows : x.id = b.id /\ x.day = b.day
          /\ \A x \in rows : F[x] \in rows'
          /\ \A i, d : (\E x \in rows : /\ x.id = i /\ x.day = d /\ x.current
                                        /\ \A other \in rows : other.day = d => other = x)
               => \E b \in rows' : /\ b.id = i /\ b.day = d /\ b.current
                                   /\ \A other \in rows' : other.day = d => other = b
      BY <3>1, <3>2, <3>3, RowsRewritten
    <3>5. PICK x \in rows : x.id = found[r].id /\ x.day = clock[r]
      BY <1>0, <2>2 DEF StillResolved
    <3>6. /\ F[x] \in rows' /\ F[x].id = a /\ F[x].day = clock[r] /\ F[x].current
          /\ \A other \in rows' : other.day = clock[r] => other = F[x]
      BY <2>2, <3>3, <3>4, <3>5 DEF RowsDistinct
    <3>7. \A row \in rows' : row.id \in Requests \ {r} => pc[row.id] = "done"
      BY <1>0, <3>4
    <3> QED BY <3>4, <3>6, <3>7
  <2> QED BY <2>1, <2>2
<1>4. /\ TypeOK'
      /\ \A q \in Requests : resp'[q] # "none" => pc'[q] = "done"
      /\ \A q \in Requests : q # r => pc'[q] = pc[q] /\ resp'[q] = resp[q]
      /\ pc'[r] = "done" /\ resp'[r] = a
  BY <1>0, <1>1, <1>2, <1>3, Finished
<1>5. \A row \in rows' : row.id \in Requests => pc'[row.id] = "done"
  BY <1>3, <1>4
<1>6. \A q \in Requests : StillResolved(q)'
  <2> SUFFICES ASSUME NEW q \in Requests
               PROVE  StillResolved(q)'
    OBVIOUS
  <2>1. CASE q = r
    BY <1>4, <2>1 DEF StillResolved
  <2>2. CASE q # r
    <3>1. pc[q] \notin Resolving /\ pc'[q] = pc[q] /\ UNCHANGED <<found, want>>
      BY <1>0, <1>4, <2>2 DEF StillResolved, Finish
    <3> QED BY <1>0, <3>1 DEF StillResolved
  <2> QED BY <2>1, <2>2
<1>7. EnsureNeverFails'
  BY <1>0, <1>1, <1>4, DailyAssumption DEF EnsureNeverFails, Answers
<1>8. AnswersItsDay'
  BY <1>0, <1>3, <1>4 DEF AnswersItsDay, Finish
<1> QED BY <1>3, <1>4, <1>5, <1>6, <1>7, <1>8 DEF DailyInv

\* The commit of a change of hours rewrites one row in place.
LEMMA CommitHoursKeeps ==
  ASSUME DailyInv, NEW r \in Requests, CommitHours(r)
  PROVE  DailyInv'
<1>0. /\ TypeOK /\ RowsDistinct /\ EnsureNeverFails /\ AnswersItsDay
      /\ \A q \in Requests : StillResolved(q)
      /\ \A row \in rows : row.id \in Requests => pc[row.id] = "done"
      /\ pc[r] = "commit_hours"
      /\ Finish(r, "OK") /\ UNCHANGED locations
  BY DEF DailyInv, CommitHours
<1> DEFINE New(row) == [c \in Columns |-> IF c \in Changed(r) THEN want[r][c] ELSE row.hours[c]]
           F == [row \in rows |-> IF row.id # found[r].id THEN row
                                  ELSE [row EXCEPT !.hours = New(row)]]
<1>1. \A row \in rows : New(row) \in Hours
  BY <1>0 DEF StillResolved, TypeOK, Row, Hours
<1>2. F \in [rows -> Row]
  <2> HIDE DEF New
  <2> QED BY <1>0, <1>1 DEF TypeOK, Row
<1>3. rows' = {F[row] : row \in rows}
  BY <1>0 DEF CommitHours, TypeOK, Row
<1>4. \A row \in rows : /\ F[row].id = row.id
                        /\ F[row].day = row.day
                        /\ row.current => F[row].current
  BY <1>0 DEF TypeOK, Row
<1> HIDE DEF F
<1>5. /\ rows' \subseteq Row
      /\ RowsDistinct'
      /\ \A b \in rows' : \E x \in rows : x.id = b.id /\ x.day = b.day
      /\ \A i, d : (\E x \in rows : x.id = i /\ x.day = d)
           => \E b \in rows' : b.id = i /\ b.day = d
      /\ \A i, d : (\E x \in rows : /\ x.id = i /\ x.day = d /\ x.current
                                    /\ \A other \in rows : other.day = d => other = x)
           => \E b \in rows' : /\ b.id = i /\ b.day = d /\ b.current
                               /\ \A other \in rows' : other.day = d => other = b
  BY <1>2, <1>3, <1>4, RowsRewritten
<1>6. /\ TypeOK'
      /\ \A q \in Requests : resp'[q] # "none" => pc'[q] = "done"
      /\ \A q \in Requests : q # r =>
           /\ pc'[q] = pc[q] /\ resp'[q] = resp[q]
           /\ advisory = q => advisory' = q
      /\ pc'[r] = "done" /\ resp'[r] = "OK"
  BY <1>0, <1>5, Finished DEF TypeOK, Answers
<1>7. \A row \in rows' : row.id \in Requests => pc'[row.id] = "done"
  BY <1>0, <1>5, <1>6
<1>8. \A q \in Requests : StillResolved(q)'
  <2> SUFFICES ASSUME NEW q \in Requests, q # r
               PROVE  StillResolved(q)'
    BY <1>6 DEF StillResolved
  <2>1. UNCHANGED <<found, located, want, clock, locations>>
    BY <1>0 DEF Finish
  <2>2. pc[q] \in Resolving \ {"find"} =>
          IF found[q] = None THEN \A row \in rows' : row.day # clock[q]
          ELSE \E row \in rows' : row.id = found[q].id /\ row.day = clock[q]
    BY <1>0, <1>5 DEF StillResolved
  <2> QED BY <1>0, <1>6, <2>1, <2>2 DEF StillResolved
<1>9. EnsureNeverFails'
  BY <1>0, <1>6 DEF EnsureNeverFails
<1>10. AnswersItsDay'
  <2>1. "OK" \notin Requests \cup {Earlier}
    BY DailyAssumption DEF Answers
  <2> SUFFICES ASSUME NEW q \in Requests, resp'[q] \in Requests \cup {Earlier}
               PROVE  \E row \in rows' :
                        /\ row.id = resp'[q] /\ row.day = clock'[q] /\ row.current
                        /\ \A other \in rows' : other.day = clock'[q] => other = row
    BY DEF AnswersItsDay
  <2>2. q # r /\ resp'[q] = resp[q] /\ clock' = clock
    BY <1>0, <1>6, <2>1 DEF Finish
  <2>3. \E x \in rows : /\ x.id = resp[q] /\ x.day = clock[q] /\ x.current
                        /\ \A other \in rows : other.day = clock[q] => other = x
    BY <1>0, <2>2 DEF AnswersItsDay
  <2> QED BY <1>5, <2>2, <2>3
<1> QED BY <1>5, <1>6, <1>7, <1>8, <1>9, <1>10 DEF DailyInv

\* Every step preserves the invariant.
LEMMA DailyStep == DailyInv /\ [Next]_vars => DailyInv'
<1> SUFFICES ASSUME DailyInv, [Next]_vars
             PROVE  DailyInv'
  OBVIOUS
<1>0. /\ TypeOK /\ RowsDistinct /\ EnsureNeverFails /\ AnswersItsDay
      /\ \A r \in Requests : StillResolved(r)
      /\ \A r \in Requests : resp[r] # "none" => pc[r] = "done"
      /\ \A row \in rows : row.id \in Requests => pc[row.id] = "done"
  BY DEF DailyInv
<1>1. CASE Midnight
  BY <1>0, <1>1, AnswersKept, DailyAssumption
  DEF Midnight, DailyInv, TypeOK, RowsDistinct, StillResolved, EnsureNeverFails, Days
<1>2. ASSUME NEW r \in Requests, FindActiveSession(r)
      PROVE  DailyInv'
  <2>1. TypeOK' /\ RowsDistinct' /\ EnsureNeverFails'
    BY <1>0, <1>2 DEF FindActiveSession, TypeOK, RowsDistinct, EnsureNeverFails
  <2>2. AnswersItsDay'
    BY <1>2, ClockRead DEF FindActiveSession
  <2>3. \A q \in Requests : StillResolved(q)'
    BY <1>0, <1>2 DEF FindActiveSession, TypeOK, StillResolved
  <2>4. /\ \A q \in Requests : resp'[q] # "none" => pc'[q] = "done"
        /\ \A row \in rows' : row.id \in Requests => pc'[row.id] = "done"
    BY <1>0, <1>2 DEF FindActiveSession, TypeOK
  <2> QED BY <2>1, <2>2, <2>3, <2>4 DEF DailyInv
<1>3. ASSUME NEW r \in Requests, NEW h \in HoursChoices, SubmitHours(r, h)
      PROVE  DailyInv'
  <2>1. TypeOK'
    BY <1>0, <1>3, DailyAssumption DEF SubmitHours, TypeOK
  <2>2. pc[r] = "idle" /\ resp[r] = "none"
    BY <1>0, <1>3 DEF SubmitHours
  <2>3. StillResolved(r)'
    BY <1>0, <1>3, DailyAssumption DEF SubmitHours, TypeOK, StillResolved
  <2> QED BY <1>0, <1>3, <2>1, <2>2, <2>3, QuietStep DEF SubmitHours, TypeOK
<1>4. ASSUME NEW r \in Requests, LockAdvisory(r)
      PROVE  DailyInv'
  <2>1. TypeOK'
    BY <1>0, <1>4 DEF LockAdvisory, TypeOK
  <2>2. resp[r] = "none" /\ pc[r] # "done"
    BY <1>0, <1>4 DEF LockAdvisory
  <2>3. StillResolved(r)'
    BY <1>0, <1>4 DEF LockAdvisory, TypeOK, StillResolved
  <2>4. \A q \in Requests : q # r => pc'[q] = pc[q] /\ (advisory = q => advisory' = q)
    BY <1>0, <1>4, DailyAssumption DEF LockAdvisory, TypeOK
  <2> QED BY <1>4, <2>1, <2>2, <2>3, <2>4, QuietStep DEF LockAdvisory
<1>5. ASSUME NEW r \in Requests, FindExisting(r)
      PROVE  DailyInv'
  <2>1. None \notin Row
    BY DailyAssumption
  <2>2. TypeOK'
    BY <1>0, <1>5 DEF FindExisting, TypeOK
  <2>3. resp[r] = "none" /\ pc[r] # "done"
    BY <1>0, <1>5 DEF FindExisting
  <2>4. StillResolved(r)'
    BY <1>0, <1>5, <2>1 DEF FindExisting, TypeOK, StillResolved
  <2>5. \A q \in Requests : q # r => pc'[q] = pc[q] /\ found'[q] = found[q]
    BY <1>0, <1>5 DEF FindExisting, TypeOK
  <2> QED BY <1>5, <2>2, <2>3, <2>4, <2>5, QuietStep DEF FindExisting
<1>6. ASSUME NEW r \in Requests, FindLocation(r)
      PROVE  DailyInv'
  <2>1. TypeOK'
    BY <1>0, <1>6 DEF FindLocation, TypeOK
  <2>2. resp[r] = "none" /\ pc[r] # "done"
    BY <1>0, <1>6 DEF FindLocation
  <2>3. StillResolved(r)'
    BY <1>0, <1>6 DEF FindLocation, TypeOK, StillResolved
  <2>4. \A q \in Requests : q # r => pc'[q] = pc[q] /\ located'[q] = located[q]
    BY <1>0, <1>6 DEF FindLocation, TypeOK
  <2> QED BY <1>6, <2>1, <2>2, <2>3, <2>4, QuietStep DEF FindLocation
<1>7. ASSUME NEW r \in Requests, FlushLocation(r)
      PROVE  DailyInv'
  <2>1. pc[r] = "flush_location" /\ locations = {}
    BY <1>7, NoUniqueViolation DEF FlushLocation
  <2>2. Goto(r, "flush_session")
        /\ UNCHANGED <<today, rows, locations, advisory, rowLock, clock, found, located, want, resp>>
    BY <1>7, <2>1 DEF FlushLocation
  <2>3. TypeOK' /\ StillResolved(r)'
    BY <1>0, <2>1, <2>2 DEF TypeOK, StillResolved
  <2>4. resp[r] = "none" /\ \A q \in Requests : q # r => pc'[q] = pc[q]
    BY <1>0, <2>1, <2>2 DEF TypeOK
  <2> QED BY <2>1, <2>2, <2>3, <2>4, QuietStep
<1>8. ASSUME NEW r \in Requests, FlushSession(r)
      PROVE  DailyInv'
  <2>1. pc[r] = "flush_session"
    BY <1>8 DEF FlushSession
  <2>2. /\ Goto(r, "commit")
        /\ rowLock' \in {rowLock, [rowLock EXCEPT ![found[r].id] = r]}
        /\ UNCHANGED <<today, rows, locations, advisory, clock, found, located, want, resp>>
    <3>1. CASE found[r] = None
      BY <1>8, <2>1, <3>1, NoUniqueViolation DEF FlushSession
    <3>2. CASE found[r] # None
      BY <1>8, <3>2 DEF FlushSession
    <3> QED BY <3>1, <3>2
  <2>3. rowLock' \in [Requests \cup {Earlier} -> Requests \cup {None}]
    BY <1>0, <2>2 DEF TypeOK
  <2>4. TypeOK'
    BY <1>0, <2>2, <2>3 DEF TypeOK
  <2>5. StillResolved(r)'
    BY <1>0, <2>1, <2>2 DEF TypeOK, StillResolved
  <2>6. resp[r] = "none" /\ \A q \in Requests : q # r => pc'[q] = pc[q]
    BY <1>0, <2>1, <2>2 DEF TypeOK
  <2> QED BY <2>1, <2>2, <2>4, <2>5, <2>6, QuietStep
<1>9. ASSUME NEW r \in Requests, CommitEnsure(r)
      PROVE  DailyInv'
  BY <1>9, CommitEnsureKeeps
<1>10. ASSUME NEW r \in Requests, LoadHours(r)
       PROVE  DailyInv'
  <2>1. CASE Fail(r, "REFUSED")
    BY <2>1, FailedKeeps DEF Answers
  <2>2. CASE /\ \E row \in rows : found' = [found EXCEPT ![r] = row]
             /\ Goto(r, "flush_hours")
             /\ UNCHANGED <<today, rows, locations, advisory, rowLock, clock, located, want, resp>>
    <3>1. None \notin Row
      BY DailyAssumption
    <3>2. TypeOK'
      BY <1>0, <2>2, <3>1 DEF TypeOK
    <3>5. want'[r] # None
      BY <1>0, <1>10, <2>2 DEF LoadHours, StillResolved
    <3>6. StillResolved(r)'
      BY <1>0, <2>2, <3>5 DEF TypeOK, StillResolved
    <3>3. pc[r] # "done" /\ resp[r] = "none"
      BY <1>0, <1>10 DEF LoadHours
    <3>4. \A q \in Requests : q # r => pc'[q] = pc[q] /\ found'[q] = found[q]
      BY <1>0, <2>2 DEF TypeOK
    <3> QED BY <2>2, <3>2, <3>3, <3>4, <3>6, QuietStep
  <2> QED BY <1>10, <2>1, <2>2 DEF LoadHours
<1>11. ASSUME NEW r \in Requests, FlushHours(r)
       PROVE  DailyInv'
  <2>1. rowLock' \in [Requests \cup {Earlier} -> Requests \cup {None}]
    BY <1>0, <1>11 DEF FlushHours, TypeOK
  <2>2. TypeOK'
    BY <1>0, <1>11, <2>1 DEF FlushHours, TypeOK
  <2>3. StillResolved(r)'
    BY <1>0, <1>11 DEF FlushHours, TypeOK, StillResolved
  <2>4. /\ pc[r] # "done" /\ resp[r] = "none"
        /\ \A q \in Requests : q # r => pc'[q] = pc[q]
    BY <1>0, <1>11 DEF FlushHours, TypeOK
  <2> QED BY <1>11, <2>2, <2>3, <2>4, QuietStep DEF FlushHours
<1>12. ASSUME NEW r \in Requests, CommitHours(r)
       PROVE  DailyInv'
  BY <1>12, CommitHoursKeeps
<1>13. ASSUME NEW r \in Requests, Crash(r)
       PROVE  DailyInv'
  BY <1>13, FailedKeeps DEF Crash, Answers
<1>14. CASE UNCHANGED vars
  BY <1>0, <1>14, AnswersKept
  DEF vars, DailyInv, TypeOK, RowsDistinct, StillResolved, EnsureNeverFails
<1> QED
  BY <1>1, <1>2, <1>3, <1>4, <1>5, <1>6, <1>7, <1>8, <1>9, <1>10, <1>11, <1>12, <1>13, <1>14
  DEF Next, Step

\* The invariant holds of the specification.
THEOREM DailyInvariant == Spec => []DailyInv
<1>1. Init => DailyInv
  <2> SUFFICES ASSUME Init PROVE DailyInv
    OBVIOUS
  <2>1. EarlierRow \in Row
    BY DailyAssumption DEF EarlierRow, Row, Days
  <2>2. TypeOK
    BY <2>1, DailyAssumption DEF Init, TypeOK, Days, Answers
  <2>3. RowsDistinct
    BY DEF Init, RowsDistinct
  <2>4. \A row \in rows : row.id \notin Requests
    BY DailyAssumption DEF Init, EarlierRow
  <2>5. EnsureNeverFails /\ AnswersItsDay
    BY DailyAssumption DEF Init, EnsureNeverFails, AnswersItsDay, Answers
  <2>6. \A r \in Requests : StillResolved(r)
    BY DEF Init, StillResolved
  <2> QED BY <2>2, <2>3, <2>4, <2>5, <2>6 DEF DailyInv, Init
<1> QED BY <1>1, DailyStep, PTL DEF Spec

\* session_service.py:67-70: resolving the day's session never hits a unique index.
THEOREM EnsuresSucceed == Spec => []EnsureNeverFails
BY DailyInvariant, PTL DEF DailyInv

\* session_service.py:43: every page gets the one automatic session of the day on
\* which it asked, as now configured.
THEOREM AnswersAreOfTheDay == Spec => []AnswersItsDay
BY DailyInvariant, PTL DEF DailyInv

-----------------------------------------------------------------------------
(* DailySession implements DayCalendar.                                    *)

Phases == [r \in Requests |-> PhaseOf(r)]

\* A row is never removed and never changes its id.
LEMMA RowsStay ==
  ASSUME DailyInv, [Next]_vars
  PROVE  \A a \in rows : \E b \in rows' : b.id = a.id
<1>1. ASSUME NEW r \in Requests, CommitEnsure(r)
      PROVE  \A a \in rows : \E b \in rows' : b.id = a.id
  <2>1. CASE found[r] = None
    BY <1>1, <2>1 DEF CommitEnsure
  <2>2. CASE found[r] # None
    <3>1. rows' = {IF a.id = found[r].id THEN Refreshed(a) ELSE a : a \in rows}
      BY <1>1, <2>2 DEF CommitEnsure
    <3>2. \A a \in rows : Refreshed(a).id = a.id
      BY DEF DailyInv, TypeOK, Row, Refreshed
    <3> QED BY <3>1, <3>2
  <2> QED BY <2>1, <2>2
<1>2. ASSUME NEW r \in Requests, CommitHours(r)
      PROVE  \A a \in rows : \E b \in rows' : b.id = a.id
  <2> DEFINE New(a) == [c \in Columns |-> IF c \in Changed(r) THEN want[r][c] ELSE a.hours[c]]
             F(a) == IF a.id # found[r].id THEN a ELSE [a EXCEPT !.hours = New(a)]
  <2>1. rows' = {F(a) : a \in rows}
    BY <1>2 DEF CommitHours
  <2>2. \A a \in rows : F(a).id = a.id
    BY DEF DailyInv, TypeOK, Row
  <2> HIDE DEF F
  <2> QED BY <2>1, <2>2
<1>3. ASSUME NEW r \in Requests, LoadHours(r)
      PROVE  UNCHANGED rows
  BY <1>3 DEF LoadHours, Fail
<1>4. ASSUME NEW r \in Requests, FlushLocation(r) \/ FlushSession(r)
      PROVE  UNCHANGED rows
  BY <1>4 DEF FlushLocation, FlushSession, Fail
<1>5. ASSUME NEW r \in Requests,
             \/ FindActiveSession(r) \/ LockAdvisory(r) \/ FindExisting(r) \/ FindLocation(r)
             \/ FlushHours(r) \/ Crash(r) \/ \E h \in HoursChoices : SubmitHours(r, h)
      PROVE  UNCHANGED rows
  BY <1>5 DEF FindActiveSession, LockAdvisory, FindExisting, FindLocation, FlushHours, Crash,
              SubmitHours, Fail
<1>6. Midnight \/ UNCHANGED vars => UNCHANGED rows
  BY DEF Midnight, vars
<1> QED BY <1>1, <1>2, <1>3, <1>4, <1>5, <1>6 DEF Next, Step

\* The step of an edit is that of its own request, once it has read its row.
LEMMA EditsStandStep ==
  ASSUME DailyInv, EditsStand, [Next]_vars
  PROVE  EditsStand'
<1> SUFFICES ASSUME NEW r \in Requests, pc'[r] \in {"flush_hours", "commit_hours"}
             PROVE  /\ ValidWindows(want'[r])
                    /\ found'[r] # None
                    /\ \E row \in rows' : row.id = found'[r].id
  BY DEF EditsStand, ValidWindows
<1>0. TypeOK
  BY DEF DailyInv
<1>1. CASE pc[r] \in {"flush_hours", "commit_hours"} /\ found'[r] = found[r]
           /\ want'[r] = want[r]
  <2>1. /\ ValidWindows(want[r]) /\ found[r] # None
        /\ \E row \in rows : row.id = found[r].id
    BY <1>1 DEF EditsStand
  <2>2. \E row \in rows' : row.id = found[r].id
    BY <2>1, RowsStay
  <2> QED BY <1>1, <2>1, <2>2
<1>2. CASE LoadHours(r)
  <2>1. /\ ValidWindows(want[r]) /\ UNCHANGED <<rows, want>>
        /\ \E row \in rows : found' = [found EXCEPT ![r] = row]
    BY <1>0, <1>2 DEF LoadHours, Fail, Finish, TypeOK
  <2>2. PICK row \in rows : found'[r] = row
    BY <1>0, <2>1 DEF TypeOK
  <2>3. row # None
    BY <1>0, <2>2, DailyAssumption DEF TypeOK
  <2> QED BY <2>1, <2>2, <2>3
<1>3. CASE ~LoadHours(r)
  <2>1. SUFFICES pc[r] \in {"flush_hours", "commit_hours"} /\ found'[r] = found[r]
                 /\ want'[r] = want[r]
    BY <1>1
  <2>2. ASSUME NEW q \in Requests, NEW a, Finish(q, a)
        PROVE  q # r /\ pc'[r] = pc[r] /\ UNCHANGED <<found, want>>
    BY <1>0, <2>2 DEF Finish, TypeOK
  <2>3. ASSUME NEW q \in Requests, CommitEnsure(q) \/ CommitHours(q) \/ Crash(q)
        PROVE  pc'[r] = pc[r] /\ UNCHANGED <<found, want>>
    BY <2>2, <2>3 DEF CommitEnsure, CommitHours, Crash, Fail
  <2>4. ASSUME NEW q \in Requests, LoadHours(q)
        PROVE  pc'[r] = pc[r] /\ found'[r] = found[r] /\ UNCHANGED want
    <3>1. CASE Fail(q, "REFUSED")
      BY <2>2, <3>1 DEF Fail
    <3>2. CASE ~Fail(q, "REFUSED")
      BY <1>0, <1>3, <2>4, <3>2 DEF LoadHours, TypeOK
    <3> QED BY <3>1, <3>2
  <2>5. ASSUME NEW q \in Requests, FlushLocation(q) \/ FlushSession(q)
        PROVE  pc'[r] = pc[r] /\ UNCHANGED <<found, want>>
    <3>1. CASE Fail(q, "ERROR")
      BY <2>2, <3>1 DEF Fail
    <3>2. CASE ~Fail(q, "ERROR")
      BY <1>0, <2>5, <3>2 DEF FlushLocation, FlushSession, TypeOK
    <3> QED BY <3>1, <3>2
  <2>6. ASSUME NEW q \in Requests, FlushHours(q)
        PROVE  /\ pc[r] \in {"flush_hours", "commit_hours"}
               /\ UNCHANGED <<found, want>>
    BY <1>0, <2>6 DEF FlushHours, TypeOK
  <2>7. ASSUME NEW q \in Requests,
               \/ FindActiveSession(q) \/ LockAdvisory(q) \/ FindExisting(q) \/ FindLocation(q)
               \/ \E h \in HoursChoices : SubmitHours(q, h)
        PROVE  pc'[r] = pc[r] /\ found'[r] = found[r] /\ want'[r] = want[r]
    BY <1>0, <2>7 DEF FindActiveSession, LockAdvisory, FindExisting, FindLocation, SubmitHours,
                      TypeOK
  <2>8. Midnight \/ UNCHANGED vars => pc'[r] = pc[r] /\ UNCHANGED <<found, want>>
    BY DEF Midnight, vars
  <2> QED BY <2>3, <2>4, <2>5, <2>6, <2>7, <2>8 DEF Next, Step
<1> QED BY <1>2, <1>3

\* The edits of every behaviour go by what they read.
LEMMA EditsInvariant == Spec => [](DailyInv /\ EditsStand)
<1>1. Init => EditsStand
  BY DEF Init, EditsStand
<1>2. DailyInv /\ EditsStand /\ [Next]_vars => EditsStand'
  BY EditsStandStep
<1> QED BY <1>1, <1>2, DailyInvariant, PTL DEF Spec

\* A request at its next step: the calendar sees the phase of that step.
LEMMA Moves ==
  ASSUME TypeOK, NEW r \in Requests, NEW step \in Steps, Goto(r, step)
  PROVE  Phases' = [Phases EXCEPT ![r] = PhaseOf(r)']
<1>1. \A q \in Requests : q # r => PhaseOf(q)' = PhaseOf(q)
  BY DEF TypeOK, PhaseOf
<1> QED BY <1>1 DEF Phases

\* A step inside a phase.
LEMMA Inside ==
  ASSUME TypeOK, NEW r \in Requests, NEW step \in Steps, Goto(r, step),
         PhaseOf(r)' = PhaseOf(r), UNCHANGED <<today, rows, clock, want, resp>>
  PROVE  UNCHANGED Calendar!calendar
<1>1. Phases' = Phases
  BY Moves DEF Phases
<1> QED BY <1>1 DEF Phases, Calendar!calendar

\* However a request ends, the calendar sees its answer.
LEMMA Answered ==
  ASSUME TypeOK, NEW r \in Requests, NEW a, Finish(r, a)
  PROVE  Calendar!Answer(r, a)
<1>1. PhaseOf(r)' = "done"
  BY DEF Finish, TypeOK, PhaseOf
<1>2. Phases' = [Phases EXCEPT ![r] = "done"]
  BY <1>1, Moves DEF Finish
<1> QED BY <1>2 DEF Finish, Phases, Calendar!Answer

\* The commit of a request that asked for the day's session is where it is made, or taken.
LEMMA EnsureImplements ==
  ASSUME DailyInv, NEW r \in Requests, CommitEnsure(r)
  PROVE  Calendar!Create(r) \/ Calendar!Resolve(r)
<1>0. /\ TypeOK /\ RowsDistinct /\ StillResolved(r) /\ pc[r] = "commit"
      /\ Finish(r, IF found[r] = None THEN r ELSE found[r].id)
  BY DEF DailyInv, CommitEnsure
<1>1. Phases[r] = "asking"
  BY <1>0 DEF Phases, PhaseOf
<1>2. CASE found[r] = None
  <2>1. \A row \in rows : row.day # clock[r]
    BY <1>0, <1>2 DEF StillResolved
  <2>2. rows' = rows \cup {NewRow(r)}
    BY <1>2 DEF CommitEnsure
  <2>3. Calendar!Answer(r, r)
    BY <1>0, <1>2, Answered
  <2> QED BY <1>1, <2>1, <2>2, <2>3 DEF Calendar!Create, Phases, NewRow
<1>3. CASE found[r] # None
  <2>1. PICK row \in rows : row.id = found[r].id /\ row.day = clock[r]
    BY <1>0, <1>3 DEF StillResolved
  <2>2. rows' = {IF a.id = found[r].id THEN Refreshed(a) ELSE a : a \in rows}
    BY <1>3 DEF CommitEnsure
  <2>3. \A a \in rows : a.id = found[r].id => a = row
    BY <1>0, <2>1 DEF RowsDistinct
  <2>4. rows' = (rows \ {row}) \cup {Refreshed(row)}
    BY <2>1, <2>2, <2>3
  <2>5. Calendar!Answer(r, row.id)
    BY <1>0, <1>3, <2>1, Answered
  <2>6. Calendar!Becomes(row, [row EXCEPT !.current = TRUE])
    BY <2>4 DEF Refreshed, Calendar!Becomes
  <2> QED BY <1>1, <2>1, <2>5, <2>6 DEF Calendar!Resolve, Phases
<1> QED BY <1>2, <1>3

\* The UPDATE of an edit writes some columns of the row its request read.
LEMMA EditImplements ==
  ASSUME DailyInv, EditsStand, NEW r \in Requests, CommitHours(r)
  PROVE  Calendar!Edit(r)
<1>0. /\ TypeOK /\ RowsDistinct /\ pc[r] = "commit_hours" /\ Finish(r, "OK")
      /\ ValidWindows(want[r])
  BY DEF DailyInv, EditsStand, CommitHours
<1>1. Phases[r] = "editing"
  BY <1>0 DEF Phases, PhaseOf
<1>2. Calendar!Valid(want[r])
  BY <1>0 DEF ValidWindows, Calendar!Valid
<1>3. PICK row \in rows : row.id = found[r].id
  BY <1>0 DEF EditsStand
<1> DEFINE F(a) == [a EXCEPT !.hours =
                      [c \in Columns |-> IF c \in Changed(r) THEN want[r][c] ELSE @[c]]]
<1>4. rows' = {IF a.id # found[r].id THEN a ELSE F(a) : a \in rows}
  BY DEF CommitHours
<1>5. \A a \in rows : a.id = found[r].id => a = row
  BY <1>0, <1>3 DEF RowsDistinct
<1>6. rows' = (rows \ {row}) \cup {F(row)}
  <2> HIDE DEF F
  <2> QED BY <1>3, <1>4, <1>5
<1>7. Changed(r) \in SUBSET Columns /\ Calendar!Becomes(row, F(row))
  BY <1>6 DEF Changed, Calendar!Becomes
<1>8. Calendar!Answer(r, "OK")
  BY <1>0, Answered
<1> QED BY <1>1, <1>2, <1>7, <1>8 DEF Calendar!Edit, Phases

\* A request that fails before its commit has done nothing the calendar knows.
LEMMA LossImplements ==
  ASSUME DailyInv, NEW r \in Requests, Crash(r)
  PROVE  Calendar!Lose(r)
<1>1. TypeOK /\ Finish(r, "LOST") /\ UNCHANGED rows
  BY DEF DailyInv, Crash, Fail
<1>2. Phases[r] \in {"asking", "editing"}
  BY <1>1 DEF Crash, Phases, PhaseOf, TypeOK
<1> QED BY <1>1, <1>2, Answered DEF Calendar!Lose, Phases

LEMMA LoadImplements ==
  ASSUME DailyInv, NEW r \in Requests, LoadHours(r)
  PROVE  Calendar!Refuse(r) \/ UNCHANGED Calendar!calendar
<1>0. TypeOK /\ pc[r] = "load" /\ PhaseOf(r) = "editing"
  BY DEF DailyInv, LoadHours, PhaseOf
<1>1. CASE (rows = {} \/ ~ValidWindows(want[r])) /\ Fail(r, "REFUSED")
  <2>1. Calendar!Answer(r, "REFUSED") /\ UNCHANGED rows
    BY <1>0, <1>1, Answered DEF Fail
  <2> QED BY <1>0, <1>1, <2>1 DEF Calendar!Refuse, Calendar!Valid, ValidWindows, Phases
<1>2. CASE Goto(r, "flush_hours") /\ UNCHANGED <<today, rows, clock, want, resp>>
  <2>1. PhaseOf(r)' = "editing"
    BY <1>0, <1>2 DEF TypeOK, PhaseOf
  <2> QED BY <1>0, <1>2, <2>1, Inside
<1> QED BY <1>1, <1>2 DEF LoadHours

\* The steps of a transaction before its commit are no steps of the calendar.
LEMMA QuietImplements ==
  ASSUME DailyInv, NEW r \in Requests,
         \/ LockAdvisory(r) \/ FindExisting(r) \/ FindLocation(r) \/ FlushLocation(r)
         \/ FlushSession(r) \/ FlushHours(r)
  PROVE  UNCHANGED Calendar!calendar
<1>0. TypeOK /\ UNCHANGED <<today, rows, clock, want, resp>>
  BY NoUniqueViolation
  DEF DailyInv, LockAdvisory, FindExisting, FindLocation, FlushLocation, FlushSession, FlushHours
<1>1. PICK step \in Steps : /\ Goto(r, step)
                            /\ PhaseOf(r)' = PhaseOf(r)
  <2>1. CASE LockAdvisory(r)
    BY <1>0, <2>1 DEF LockAdvisory, TypeOK, PhaseOf
  <2>2. CASE FindExisting(r)
    BY <1>0, <2>2 DEF FindExisting, TypeOK, PhaseOf
  <2>3. CASE FindLocation(r)
    BY <1>0, <2>3 DEF FindLocation, TypeOK, PhaseOf
  <2>4. CASE FlushLocation(r)
    BY <1>0, <2>4, NoUniqueViolation DEF FlushLocation, TypeOK, PhaseOf
  <2>5. CASE FlushSession(r)
    BY <1>0, <2>5, NoUniqueViolation DEF FlushSession, TypeOK, PhaseOf
  <2>6. CASE FlushHours(r)
    BY <1>0, <2>6 DEF FlushHours, TypeOK, PhaseOf
  <2> QED BY <2>1, <2>2, <2>3, <2>4, <2>5, <2>6
<1> QED BY <1>0, <1>1, Inside

LEMMA CalendarStep ==
  ASSUME DailyInv, EditsStand, [Next]_vars
  PROVE  [Calendar!Next]_(Calendar!calendar)
<1>0. TypeOK
  BY DEF DailyInv
<1>1. CASE Midnight
  BY <1>1 DEF Midnight, Calendar!Next, Calendar!Midnight, PhaseOf
<1>2. ASSUME NEW r \in Requests, FindActiveSession(r)
      PROVE  Calendar!Ask(r)
  <2>1. Phases[r] = "idle" /\ PhaseOf(r)' = "asking"
    BY <1>0, <1>2 DEF FindActiveSession, TypeOK, Phases, PhaseOf
  <2>2. Phases' = [Phases EXCEPT ![r] = "asking"]
    BY <1>0, <1>2, <2>1, Moves DEF FindActiveSession
  <2> QED BY <1>2, <2>1, <2>2 DEF FindActiveSession, Calendar!Ask, Phases
<1>3. ASSUME NEW r \in Requests, NEW h \in HoursChoices, SubmitHours(r, h)
      PROVE  Calendar!Submit(r)
  <2>1. Phases[r] = "idle" /\ PhaseOf(r)' = "editing"
    BY <1>0, <1>3 DEF SubmitHours, TypeOK, Phases, PhaseOf
  <2>2. Phases' = [Phases EXCEPT ![r] = "editing"]
    BY <1>0, <1>3, <2>1, Moves DEF SubmitHours
  <2> QED BY <1>3, <2>1, <2>2 DEF SubmitHours, Calendar!Submit, Phases
<1>4. ASSUME NEW r \in Requests, Step(r) \/ Crash(r)
      PROVE  [\/ Calendar!Create(r) \/ Calendar!Resolve(r) \/ Calendar!Edit(r)
              \/ Calendar!Refuse(r) \/ Calendar!Lose(r)]_(Calendar!calendar)
  BY <1>4, EnsureImplements, EditImplements, LossImplements, LoadImplements, QuietImplements
  DEF Step
<1>5. CASE UNCHANGED vars
  BY <1>5 DEF vars, Calendar!calendar, PhaseOf
<1> QED BY <1>1, <1>2, <1>3, <1>4, <1>5 DEF Next, Calendar!Next

\* Every behaviour of the requests is one of the calendar, for any number of
\* requests, days and edits: behind the lock the session of a day is made at one commit, and no
\* index, lock or crash shows in what a page is told.
THEOREM RequestsImplementCalendar == Spec => ImplementsCalendar
<1>1. Init => Calendar!Init
  BY DEF Init, Calendar!Init, PhaseOf, EarlierRow
<1>2. DailyInv /\ EditsStand /\ [Next]_vars => [Calendar!Next]_(Calendar!calendar)
  BY CalendarStep
<1> QED BY <1>1, <1>2, EditsInvariant, PTL DEF Spec, ImplementsCalendar, Calendar!Spec

=============================================================================
