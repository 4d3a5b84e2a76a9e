-------------------------- MODULE StudentAppProofs --------------------------
(***************************************************************************)
(* Safety of the student's application for every number of tabs, of        *)
(* attempts that were left and of repeated requests.                       *)
(***************************************************************************)
EXTENDS StudentApp, TLAPS

USE StudentAppAssumption

\* What a page may say is done at the record rec.
Told(op, rec) == rec = "out" \/ (rec = "in" /\ op = "in")

\* The invariant of a tab.
Fine(x) ==
  /\ x.code => x.route \notin {"attendance", "closed"}
  /\ x.route \in Guarded => x.timer

\* The invariant of an attempt, with the record and what the student was told.
Honest(a, rec, told) ==
  /\ a.phase \in {"current", "done"} => Told(a.action, rec)
  /\ a.action = "out" => told

AppInv ==
  /\ TypeOK
  /\ \A t \in Tabs : Fine(tab[t])
  /\ \A w \in Attempts : Honest(attempt[w], record, shown)
  /\ NoBlindCheckOut

\* An attempt of tab t records what it asked for.
Records(t) ==
  \E w \in Attempts :
    /\ TabOf(w) = t /\ attempt[w].phase = "post"
    /\ record' = attempt[w].action /\ record # record'

\* What CodeSurvives says of a step.
CodeStep ==
  \A t \in Tabs : tab[t].code /\ ~tab'[t].code => tab'[t].route = "closed" \/ Records(t)

\* The record only grows.
Grows ==
  \/ record' = record
  \/ record = "absent" /\ record' = "in"
  \/ record = "in" /\ record' = "out"

-----------------------------------------------------------------------------
(* Pages.                                                                  *)

LEMMA TypesOfTab ==
  ASSUME NEW x \in Tab
  PROVE  x.route \in Route /\ x.code \in BOOLEAN /\ x.timer \in BOOLEAN
  BY DEF Tab

LEMMA TypesOfAttempt ==
  ASSUME NEW a \in Attempt
  PROVE  /\ a.phase \in Phase /\ a.action \in {"in", "out"}
         /\ a.signed \in BOOLEAN /\ a.tries \in 0 .. MaxRetries
  BY DEF Attempt

LEMMA ClosedIsFine == Closed \in Tab /\ Closed.route = "closed" /\ Fine(Closed)
  BY DEF Closed, Tab, Route, Guarded, Fine

LEMMA IdleIsHonest ==
  /\ Idle \in Attempt /\ ~Runs(Idle)
  /\ \A rec, told : Honest(Idle, rec, told)
  BY DEF Idle, Attempt, Phase, Sending, Runs, Honest

LEMMA OpenedIsHonest ==
  ASSUME NEW x, NEW k \in BOOLEAN
  PROVE  /\ Opened(x, k) \in Attempt
         /\ \A rec, told : Honest(Opened(x, k), rec, told)
<1>1. CASE x.route = "checkin"
  <2> DEFINE y == [phase |-> "loading", action |-> "in", signed |-> k, tries |-> 0]
  <2>1. Opened(x, k) = y
    BY <1>1 DEF Opened, Idle
  <2>2. y \in Attempt /\ \A rec, told : Honest(y, rec, told)
    BY DEF Attempt, Phase, Sending, Honest
  <2> QED BY <2>1, <2>2
<1>2. CASE x.route # "checkin"
  BY <1>2, IdleIsHonest DEF Opened
<1> QED BY <1>1, <1>2

\* A page that is come to is fine and has the code it is owed.
LEMMA ArriveIsFine ==
  ASSUME NEW x \in Tab, NEW dest \in Guarded, NEW k \in BOOLEAN
  PROVE  /\ Arrive(x, dest, k) \in Tab /\ Fine(Arrive(x, dest, k))
         /\ x.code => Arrive(x, dest, k).code
<1> DEFINE to == Redirected(x.code, dest)
           page == IF k THEN to ELSE "login"
           c == x.code \/ to = "checkin"
<1>1. to \in Guarded /\ (to = "attendance" => ~x.code) /\ x.code \in BOOLEAN
  BY TypesOfTab DEF Redirected, Guarded
<1>2. page \in Route /\ c \in BOOLEAN
  BY <1>1 DEF Route, Guarded
<1>3. page \notin {"closed"} /\ (page = "attendance" => ~c) /\ (page \in Guarded => k)
  BY <1>1 DEF Guarded
<1>4. Arrive(x, dest, k) = [route |-> page, code |-> c, timer |-> k]
  BY DEF Arrive
<1> QED BY <1>2, <1>3, <1>4 DEF Tab, Fine

\* The login page, with a code or without.
LEMMA LoginIsFine ==
  ASSUME NEW c \in BOOLEAN
  PROVE  LET y == [Closed EXCEPT !.route = "login", !.code = c]
         IN y \in Tab /\ y.code = c /\ Fine(y)
  BY DEF Closed, Tab, Route, Guarded, Fine

LEMMA ToLoginIsFine ==
  ASSUME NEW x \in Tab
  PROVE  ToLogin(x) \in Tab /\ Fine(ToLogin(x)) /\ (x.code => ToLogin(x).code)
<1>1. (x.code \/ x.route = "checkin") \in BOOLEAN
  BY TypesOfTab
<1> QED BY <1>1, LoginIsFine DEF ToLogin

-----------------------------------------------------------------------------
(* Parts of a step.                                                        *)

\* An attempt stays honest when the record grows and the student is told.
LEMMA HonestStays ==
  ASSUME NEW a, Honest(a, record, shown), Grows, shown => shown'
  PROVE  Honest(a, record', shown')
  BY DEF Honest, Told, Grows

\* What is not served when its attempt is gone is a check-out of a student who
\* was told of the check-in, or a check-in.
LEMMA MayBeServedKeeps ==
  ASSUME AppInv, NEW ws \in SUBSET Attempts, MayBeServed(ws) \/ UNCHANGED orphans,
         UNCHANGED record, shown => shown'
  PROVE  orphans' \subseteq {"in", "out"} /\ NoBlindCheckOut'
<1>1. CASE UNCHANGED orphans
  BY <1>1 DEF AppInv, TypeOK, NoBlindCheckOut
<1>2. CASE MayBeServed(ws)
  <2> DEFINE sent == {v \in ws : attempt[v].phase = "post" /\ attempt[v].signed}
  <2>1. PICK ops \in SUBSET {attempt[v].action : v \in sent} :
          orphans' = orphans \cup {op \in ops : ~Already(op)}
    BY <1>2 DEF MayBeServed
  <2>2. \A v \in sent : attempt[v].action \in {"in", "out"}
                          /\ (attempt[v].action = "out" => shown)
    BY TypesOfAttempt DEF AppInv, TypeOK, Honest
  <2>3. \A op \in ops : op \in {"in", "out"} /\ (op = "out" => shown)
    BY <2>2
  <2> HIDE DEF sent
  <2> QED BY <2>1, <2>3 DEF AppInv, TypeOK, NoBlindCheckOut
<1> QED BY <1>1, <1>2

\* A tab whose page becomes x, other attempts or no attempts in it.
LEMMA PageStep ==
  ASSUME AppInv, NEW t \in Tabs, NEW x \in Tab, Fine(x),
         tab' = [tab EXCEPT ![t] = x],
         tab[t].code => x.code \/ x.route = "closed",
         attempt' \in [Attempts -> Attempt], home' \in [Strays -> Tabs \cup {NoTab}],
         \A s \in Strays : Runs(attempt'[s]) <=> home'[s] # NoTab,
         \A w \in Attempts : Honest(attempt'[w], record', shown'),
         token' \in BOOLEAN, UNCHANGED <<record, shown>>,
         orphans' \subseteq {"in", "out"}, NoBlindCheckOut'
  PROVE  AppInv' /\ CodeStep
<1>1. tab \in [Tabs -> Tab] /\ \A u \in Tabs : Fine(tab[u])
  BY DEF AppInv, TypeOK
<1>2. \A u \in Tabs : tab'[u] = IF u = t THEN x ELSE tab[u]
  BY <1>1
<1>3. tab' \in [Tabs -> Tab] /\ \A u \in Tabs : Fine(tab'[u])
  BY <1>1, <1>2
<1>4. TypeOK'
  BY <1>3 DEF AppInv, TypeOK
<1>5. CodeStep
  BY <1>2 DEF CodeStep
<1> QED BY <1>3, <1>4, <1>5 DEF AppInv

\* A new document.
LEMMA LoadStep ==
  ASSUME AppInv, NEW t \in Tabs, NEW x \in Tab, NEW k \in BOOLEAN, Fine(x), Load(t, x, k),
         tab[t].code => x.code \/ x.route = "closed",
         token' \in BOOLEAN, UNCHANGED <<record, shown>>
  PROVE  AppInv' /\ CodeStep
<1> DEFINE gone == {w \in Attempts : TabOf(w) = t}
           o == Opened(x, k)
<1>1. /\ tab' = [tab EXCEPT ![t] = x]
      /\ attempt' = [w \in Attempts |-> IF w = t THEN o
                                        ELSE IF w \in gone THEN Idle ELSE attempt[w]]
      /\ home' = [s \in Strays |-> IF s \in gone THEN NoTab ELSE home[s]]
      /\ MayBeServed(gone)
  BY DEF Load
<1>2. gone \in SUBSET Attempts
  OBVIOUS
<1>3. orphans' \subseteq {"in", "out"} /\ NoBlindCheckOut'
  BY <1>1, <1>2, MayBeServedKeeps
<1>4. o \in Attempt /\ \A rec, told : Honest(o, rec, told)
  BY OpenedIsHonest
<1>5. Strays \subseteq Attempts /\ t \notin Strays
  BY DEF Attempts
<1> HIDE DEF gone, o
<1>6. attempt' \in [Attempts -> Attempt] /\ home' \in [Strays -> Tabs \cup {NoTab}]
  BY <1>1, <1>4, IdleIsHonest DEF AppInv, TypeOK
<1>7. \A s \in Strays : Runs(attempt'[s]) <=> home'[s] # NoTab
  BY <1>1, <1>5, IdleIsHonest DEF AppInv, TypeOK
<1>8. \A w \in Attempts : Honest(attempt'[w], record', shown')
  BY <1>1, <1>4, IdleIsHonest DEF AppInv
<1> QED BY <1>1, <1>3, <1>6, <1>7, <1>8, PageStep

\* Another page of the same document.
LEMMA NavigateStep ==
  ASSUME AppInv, NEW t \in Tabs, NEW x \in Tab, NEW k \in BOOLEAN, Fine(x),
         Navigate(t, x, k), tab[t].code => x.code,
         token' \in BOOLEAN, UNCHANGED <<record, shown>>
  PROVE  AppInv' /\ CodeStep
<1> DEFINE o == Opened(x, k)
<1>1. o \in Attempt /\ \A rec, told : Honest(o, rec, told)
  BY OpenedIsHonest
<1>2. Strays \subseteq Attempts /\ t \in Attempts /\ t \notin Strays /\ NoTab \notin Tabs
  BY DEF Attempts, NoTab
<1>3. /\ attempt \in [Attempts -> Attempt] /\ home \in [Strays -> Tabs \cup {NoTab}]
      /\ \A s \in Strays : Runs(attempt[s]) <=> home[s] # NoTab
      /\ \A w \in Attempts : Honest(attempt[w], record', shown')
  BY DEF AppInv, TypeOK
<1>4. tab' = [tab EXCEPT ![t] = x] /\ UNCHANGED orphans
  BY DEF Navigate
<1>5. orphans' \subseteq {"in", "out"} /\ NoBlindCheckOut'
  BY <1>4, MayBeServedKeeps
<1>6. CASE Runs(attempt[t])
  <2>1. PICK s \in Strays :
          /\ home' = [home EXCEPT ![s] = t]
          /\ attempt' = [attempt EXCEPT ![s] = attempt[t], ![t] = o]
    BY <1>6 DEF Navigate
  <2> HIDE DEF o
  <2>2. \A w \in Attempts : attempt'[w] = IF w = t THEN o ELSE IF w = s THEN attempt[t]
                                          ELSE attempt[w]
    BY <1>2, <1>3, <2>1
  <2>3. attempt' \in [Attempts -> Attempt] /\ home' \in [Strays -> Tabs \cup {NoTab}]
    BY <1>1, <1>2, <1>3, <2>1
  <2>4. \A v \in Strays : Runs(attempt'[v]) <=> home'[v] # NoTab
    BY <1>2, <1>3, <1>6, <2>1, <2>2
  <2>5. \A w \in Attempts : Honest(attempt'[w], record', shown')
    BY <1>1, <1>2, <1>3, <2>2
  <2> QED BY <1>4, <1>5, <2>3, <2>4, <2>5, PageStep
<1>7. CASE ~Runs(attempt[t])
  <2>1. attempt' = [attempt EXCEPT ![t] = o] /\ UNCHANGED home
    BY <1>7 DEF Navigate
  <2> HIDE DEF o
  <2>2. \A w \in Attempts : attempt'[w] = IF w = t THEN o ELSE attempt[w]
    BY <1>3, <2>1
  <2>3. attempt' \in [Attempts -> Attempt]
    BY <1>1, <1>3, <2>1
  <2>4. \A v \in Strays : Runs(attempt'[v]) <=> home'[v] # NoTab
    BY <1>2, <1>3, <2>1, <2>2
  <2>5. \A w \in Attempts : Honest(attempt'[w], record', shown')
    BY <1>1, <1>3, <2>2
  <2> QED BY <1>3, <1>4, <1>5, <2>1, <2>3, <2>4, <2>5, PageStep
<1> QED BY <1>6, <1>7

\* An attempt becomes a, and its tab may lose the code for what it records.
LEMMA AttemptStep ==
  ASSUME AppInv, NEW w \in Attempts, NEW a \in Attempt, Becomes(w, a),
         Honest(a, record', shown'),
         UNCHANGED tab \/ (ClearCode(w) /\ Records(TabOf(w))),
         UNCHANGED token, Grows, record' \in {"absent", "in", "out"},
         shown' \in BOOLEAN, shown => shown',
         orphans' \subseteq {"in", "out"}, NoBlindCheckOut',
         w \in Strays => TabOf(w) # NoTab
  PROVE  AppInv' /\ CodeStep
<1>1. /\ attempt \in [Attempts -> Attempt] /\ home \in [Strays -> Tabs \cup {NoTab}]
      /\ \A s \in Strays : Runs(attempt[s]) <=> home[s] # NoTab
      /\ \A v \in Attempts : Honest(attempt[v], record', shown')
      /\ tab \in [Tabs -> Tab] /\ \A t \in Tabs : Fine(tab[t])
  BY HonestStays DEF AppInv, TypeOK
<1>2. Strays \subseteq Attempts /\ (w \in Strays => w \notin Tabs) /\ TabOf(w) \in Tabs
  BY <1>1 DEF Attempts, TabOf
<1>3. /\ attempt' \in [Attempts -> Attempt]
      /\ home' \in [Strays -> Tabs \cup {NoTab}]
      /\ \A s \in Strays : Runs(attempt'[s]) <=> home'[s] # NoTab
      /\ \A v \in Attempts : Honest(attempt'[v], record', shown')
  <2>1. CASE w \in Strays /\ ~Runs(a)
    <3>1. attempt' = [attempt EXCEPT ![w] = Idle] /\ home' = [home EXCEPT ![w] = NoTab]
      BY <2>1 DEF Becomes
    <3> QED BY <1>1, <1>2, <2>1, <3>1, IdleIsHonest
  <2>2. CASE ~(w \in Strays /\ ~Runs(a))
    <3>1. attempt' = [attempt EXCEPT ![w] = a] /\ UNCHANGED home
      BY <2>2 DEF Becomes
    <3>2. \A v \in Attempts : attempt'[v] = IF v = w THEN a ELSE attempt[v]
      BY <1>1, <3>1
    <3>3. \A s \in Strays : Runs(attempt'[s]) <=> home'[s] # NoTab
      BY <1>1, <1>2, <2>2, <3>1, <3>2 DEF TabOf
    <3> QED BY <1>1, <3>1, <3>2, <3>3
  <2> QED BY <2>1, <2>2
<1>4. tab' \in [Tabs -> Tab] /\ (\A t \in Tabs : Fine(tab'[t])) /\ CodeStep
  <2>1. CASE UNCHANGED tab
    BY <1>1, <2>1 DEF CodeStep
  <2>2. CASE ClearCode(w) /\ Records(TabOf(w))
    <3> DEFINE y == [tab[TabOf(w)] EXCEPT !.code = FALSE]
    <3>1. tab[TabOf(w)] \in Tab /\ Fine(tab[TabOf(w)])
      BY <1>1, <1>2
    <3>2. y \in Tab /\ Fine(y)
      BY <3>1 DEF Tab, Fine
    <3>3. tab' = [tab EXCEPT ![TabOf(w)] = y]
      BY <1>1, <2>2 DEF ClearCode
    <3> HIDE DEF y
    <3>4. \A t \in Tabs : tab'[t] = IF t = TabOf(w) THEN y ELSE tab[t]
      BY <1>1, <3>3
    <3>5. CodeStep
      BY <2>2, <3>4 DEF CodeStep
    <3> QED BY <1>1, <1>2, <3>2, <3>3, <3>4, <3>5
  <2> QED BY <2>1, <2>2
<1>5. TypeOK'
  BY <1>3, <1>4 DEF AppInv, TypeOK
<1> QED BY <1>3, <1>4, <1>5 DEF AppInv

-----------------------------------------------------------------------------
(* Steps.                                                                  *)

LEMMA StudentStep ==
  ASSUME AppInv, NEW t \in Tabs, Student(t)
  PROVE  AppInv' /\ CodeStep
<1>0. /\ tab[t] \in Tab /\ Fine(tab[t]) /\ token \in BOOLEAN /\ t \in Attempts /\ t \notin Strays
      /\ tab[t].route \in Route /\ tab[t].code \in BOOLEAN
  BY TypesOfTab DEF AppInv, TypeOK, Attempts
<1>1. CASE ScanQr(t)
  <2> DEFINE c == [Closed EXCEPT !.code = TRUE]
             y == Arrive(c, "checkin", token)
  <2>1. c \in Tab /\ "checkin" \in Guarded
    BY DEF Closed, Tab, Route, Guarded
  <2>2. Load(t, y, token) /\ UNCHANGED <<token, record, shown>> /\ ~tab[t].code
    BY <1>0, <1>1 DEF ScanQr, Fine
  <2> HIDE DEF c
  <2>3. y \in Tab /\ Fine(y)
    BY <1>0, <2>1, ArriveIsFine
  <2> HIDE DEF y
  <2> QED BY <1>0, <2>2, <2>3, LoadStep
<1>2. CASE OpenApp(t)
  <2> DEFINE y == Arrive(Closed, "attendance", token)
  <2>1. Load(t, y, token) /\ UNCHANGED <<token, record, shown>> /\ ~tab[t].code
    BY <1>0, <1>2 DEF OpenApp, Fine
  <2>2. y \in Tab /\ Fine(y)
    BY <1>0, ClosedIsFine, ArriveIsFine DEF Guarded
  <2> HIDE DEF y
  <2> QED BY <1>0, <2>1, <2>2, LoadStep
<1>3. CASE CloseTab(t)
  BY <1>0, <1>3, ClosedIsFine, LoadStep DEF CloseTab
<1>4. CASE Reload(t)
  <2> DEFINE x == tab[t]
             dest == IF x.route = "login" THEN PostAuth(x.code) ELSE x.route
  <2>0. UNCHANGED <<token, record, shown>> /\ x.route # "closed"
    BY <1>4 DEF Reload
  <2>1. CASE x.route = "login" /\ ~token
    <3>1. Load(t, x, token)
      BY <1>4, <2>1 DEF Reload
    <3> QED BY <1>0, <2>0, <3>1, LoadStep
  <2>2. CASE ~(x.route = "login" /\ ~token)
    <3> DEFINE y == Arrive(x, dest, token)
    <3>1. Load(t, y, token)
      BY <1>4, <2>2 DEF Reload
    <3>2. dest \in Guarded
      BY <1>0, <2>0 DEF Route, Guarded, PostAuth
    <3> HIDE DEF dest
    <3>3. y \in Tab /\ Fine(y) /\ (x.code => y.code)
      BY <1>0, <3>2, ArriveIsFine
    <3> HIDE DEF y
    <3> QED BY <1>0, <2>0, <3>1, <3>3, LoadStep
  <2> QED BY <2>1, <2>2
<1>5. CASE Login(t)
  <2>1. PICK dest \in {PostAuth(tab[t].code), PostSignup(tab[t].code)} :
          Navigate(t, Arrive(tab[t], dest, TRUE), TRUE)
    BY <1>5 DEF Login
  <2> DEFINE y == Arrive(tab[t], dest, TRUE)
  <2>2. dest \in Guarded
    BY DEF PostAuth, PostSignup, Guarded
  <2>3. y \in Tab /\ Fine(y) /\ (tab[t].code => y.code)
    BY <1>0, <2>2, ArriveIsFine
  <2>4. Navigate(t, y, TRUE) /\ token' \in BOOLEAN /\ UNCHANGED <<record, shown>>
    BY <1>5, <2>1 DEF Login
  <2> HIDE DEF y
  <2> QED BY <1>0, <2>3, <2>4, NavigateStep
<1>6. CASE SignOut(t)
  <2> DEFINE y == [Closed EXCEPT !.route = "login", !.code = tab[t].code]
  <2>1. y \in Tab /\ y.code = tab[t].code /\ Fine(y)
    BY <1>0, LoginIsFine
  <2>2. Navigate(t, y, FALSE) /\ token' \in BOOLEAN /\ UNCHANGED <<record, shown>>
    BY <1>6 DEF SignOut
  <2> HIDE DEF y
  <2> QED BY <1>0, <2>1, <2>2, NavigateStep
<1>7. CASE Inactive(t)
  <2>1. Load(t, ToLogin(tab[t]), FALSE) /\ token' \in BOOLEAN /\ UNCHANGED <<record, shown>>
    BY <1>7 DEF Inactive
  <2> QED BY <1>0, <2>1, ToLoginIsFine, LoadStep
<1>8. CASE Tap(t)
  <2> DEFINE a == Rests(t, "locating")
  <2>1. attempt[t] \in Attempt /\ Honest(attempt[t], record, shown)
          /\ 0 \in 0 .. MaxRetries /\ "locating" \in Phase
    BY <1>0 DEF AppInv, TypeOK, Phase
  <2>2. a \in Attempt /\ Honest(a, record, shown)
    BY <2>1 DEF Rests, Attempt, Honest
  <2>3. Becomes(t, a) /\ UNCHANGED <<tab, token, record, orphans, shown>>
    BY <1>8 DEF Tap
  <2> HIDE DEF a
  <2> QED BY <1>0, <2>2, <2>3, AttemptStep DEF AppInv, TypeOK, NoBlindCheckOut, Grows
<1>9. ASSUME NEW dest \in {"attendance", "other"}, Follow(t, dest)
      PROVE  AppInv' /\ CodeStep
  <2> DEFINE y == Arrive(tab[t], dest, token)
  <2>1. y \in Tab /\ Fine(y) /\ (tab[t].code => y.code)
    BY <1>0, ArriveIsFine DEF Guarded
  <2>2. Navigate(t, y, token) /\ UNCHANGED <<token, record, shown>>
    BY <1>9 DEF Follow
  <2> HIDE DEF y
  <2> QED BY <1>0, <2>1, <2>2, NavigateStep
<1> QED BY <1>1, <1>2, <1>3, <1>4, <1>5, <1>6, <1>7, <1>8, <1>9 DEF Student

\* An attempt goes on to another phase.
LEMMA PhaseIsTyped ==
  ASSUME AppInv, NEW w \in Attempts, NEW p \in Phase
  PROVE  \A a \in {Rests(w, p), Sends(w, p)} :
           a \in Attempt /\ a.phase = p /\ a.action = attempt[w].action
<1>1. attempt[w] \in Attempt /\ token \in BOOLEAN /\ 0 \in 0 .. MaxRetries
  BY DEF AppInv, TypeOK
<1>2. \A k \in BOOLEAN :
        LET a == [attempt[w] EXCEPT !.phase = p, !.signed = k, !.tries = 0]
        IN a \in Attempt /\ a.phase = p /\ a.action = attempt[w].action
  BY <1>1 DEF Attempt
<1> QED BY <1>1, <1>2 DEF Rests, Sends

\* A phase that says nothing of the record, or only what is true.
LEMMA PhaseStep ==
  ASSUME AppInv, NEW w \in Attempts, Runs(attempt[w]),
         NEW p \in Phase, NEW a \in {Rests(w, p), Sends(w, p)}, Becomes(w, a),
         p \in {"current", "done"} => Told(attempt[w].action, record),
         UNCHANGED <<tab, token, record>>, shown' \in BOOLEAN, shown => shown',
         MayBeServed({w}) \/ UNCHANGED orphans
  PROVE  AppInv' /\ CodeStep
<1>1. Honest(attempt[w], record, shown) /\ record \in {"absent", "in", "out"}
        /\ (w \in Strays => TabOf(w) # NoTab)
  BY DEF AppInv, TypeOK, TabOf
<1>2. a \in Attempt /\ a.phase = p /\ a.action = attempt[w].action
  BY PhaseIsTyped
<1>3. Honest(a, record', shown')
  BY <1>1, <1>2 DEF Honest
<1>4. orphans' \subseteq {"in", "out"} /\ NoBlindCheckOut'
  BY MayBeServedKeeps
<1> QED BY <1>1, <1>2, <1>3, <1>4, AttemptStep DEF Grows

LEMMA AnswerStep ==
  ASSUME AppInv, NEW w \in Attempts, Answer(w) \/ TooMany(w)
  PROVE  AppInv' /\ CodeStep
<1>0. /\ attempt[w] \in Attempt /\ Honest(attempt[w], record, shown) /\ token \in BOOLEAN
      /\ shown \in BOOLEAN /\ record \in {"absent", "in", "out"}
      /\ orphans \subseteq {"in", "out"} /\ NoBlindCheckOut
      /\ attempt[w].action \in {"in", "out"} /\ attempt[w].signed \in BOOLEAN
      /\ attempt[w].tries \in 0 .. MaxRetries
  BY TypesOfAttempt DEF AppInv, TypeOK
<1>a. {"done", "ready", "locating", "location", "venue", "post", "current", "error"} \subseteq Phase
  BY DEF Phase, Sending
<1>b. Runs(attempt[w])
  BY DEF Answer, Loaded, Located, LocationVerified, VenueVerified, Recorded,
         AlreadyRecorded, Fails, Unauthorized, TooMany, Runs, Sending
<1>c. w \in Strays => TabOf(w) # NoTab
  BY <1>b DEF AppInv, TypeOK, TabOf
<1>1. CASE Loaded(w)
  <2> DEFINE p == IF record = "out" THEN "done" ELSE "ready"
             op == IF record = "absent" THEN "in" ELSE "out"
             z == Rests(w, p)
             a == [z EXCEPT !.action = op]
  <2>1. p \in Phase
    BY <1>a
  <2>2. z \in Attempt /\ z.phase = p
    BY <2>1, PhaseIsTyped
  <2>3. /\ Becomes(w, a) /\ UNCHANGED <<tab, token, record, orphans>>
        /\ attempt[w].phase = "loading" /\ Tells(w, record # "absent")
    BY <1>1 DEF Loaded
  <2> HIDE DEF z
  <2>4. a \in Attempt /\ a.phase = p /\ a.action = op
    BY <2>2 DEF Attempt
  <2> HIDE DEF a
  <2>5. shown' \in BOOLEAN /\ (shown => shown')
    BY <1>0, <2>3 DEF Tells
  <2>6. CASE w \in Tabs
    <3>1. record # "absent" => shown'
      BY <2>3, <2>6 DEF Tells
    <3>2. Honest(a, record', shown')
      BY <1>0, <2>3, <2>4, <3>1 DEF Honest, Told
    <3> QED BY <1>0, <1>c, <2>3, <2>4, <2>5, <3>2, AttemptStep DEF NoBlindCheckOut, Grows
  <2>7. CASE w \notin Tabs
    <3>1. w \in Strays /\ ~Runs(a) /\ ~Runs(Idle)
      BY <2>4, <2>7, IdleIsHonest DEF Attempts, Runs, Sending
    <3>2. Becomes(w, Idle)
      BY <2>3, <3>1 DEF Becomes
    <3> QED BY <1>0, <1>c, <2>3, <2>5, <3>2, IdleIsHonest, AttemptStep
            DEF NoBlindCheckOut, Grows
  <2> QED BY <2>6, <2>7
<1>2. CASE Located(w)
  <2>1. \/ Becomes(w, Rests(w, "error"))
        \/ Becomes(w, Sends(w, "location"))
    BY <1>2 DEF Located
  <2> QED BY <1>0, <1>a, <1>b, <1>2, <2>1, PhaseStep DEF Located
<1>3. CASE LocationVerified(w)
  BY <1>0, <1>a, <1>b, <1>3, PhaseStep DEF LocationVerified
<1>4. CASE VenueVerified(w)
  BY <1>0, <1>a, <1>b, <1>4, PhaseStep DEF VenueVerified
<1>5. CASE Recorded(w)
  <2> DEFINE a == Rests(w, "done")
  <2>1. a \in Attempt /\ a.phase = "done" /\ a.action = attempt[w].action
    BY <1>a, PhaseIsTyped
  <2>2. /\ Becomes(w, a) /\ ClearCode(w) /\ Serve(attempt[w].action)
        /\ Tells(w, TRUE) /\ attempt[w].phase = "post" /\ UNCHANGED token
    BY <1>5 DEF Recorded
  <2> HIDE DEF a
  <2>3. /\ Grows /\ record' = attempt[w].action /\ record # record'
        /\ orphans' \subseteq orphans
    BY <2>2 DEF Serve, Follows, Grows
  <2>4. shown' \in BOOLEAN /\ (shown => shown')
    BY <1>0, <2>2 DEF Tells
  <2>5. attempt[w].action = "out" => shown'
    BY <1>0, <2>4 DEF Honest
  <2>6. Honest(a, record', shown')
    BY <1>0, <2>1, <2>3, <2>5 DEF Honest, Told
  <2>7. NoBlindCheckOut' /\ orphans' \subseteq {"in", "out"}
    BY <1>0, <2>3, <2>4, <2>5 DEF NoBlindCheckOut
  <2>8. Records(TabOf(w))
    BY <2>2, <2>3 DEF Records
  <2> QED BY <1>0, <1>c, <2>1, <2>2, <2>3, <2>4, <2>6, <2>7, <2>8, AttemptStep
<1>6. CASE AlreadyRecorded(w)
  <2>1. Told(attempt[w].action, record)
    BY <1>0, <1>6 DEF AlreadyRecorded, Already, Told
  <2> QED BY <1>0, <1>a, <1>b, <1>6, <2>1, PhaseStep DEF AlreadyRecorded
<1>7. CASE Fails(w)
  <2> DEFINE p == IF attempt[w].phase = "current" THEN "done" ELSE "error"
  <2>1. p \in Phase /\ (p \in {"current", "done"} => Told(attempt[w].action, record))
    BY <1>0, <1>a DEF Honest
  <2>2. /\ Becomes(w, Rests(w, p)) /\ UNCHANGED <<tab, token, record>>
        /\ MayBeServed({w}) /\ shown' \in BOOLEAN /\ (shown => shown')
    BY <1>0, <1>7 DEF Fails, Tells
  <2> HIDE DEF p
  <2> QED BY <1>b, <2>1, <2>2, PhaseStep
<1>8. CASE Unauthorized(w)
  <2> DEFINE t == TabOf(w)
  <2>1. t \in Tabs
    BY <1>c DEF AppInv, TypeOK, TabOf, Attempts
  <2>2. /\ Load(t, ToLogin(tab[t]), FALSE) /\ token' \in BOOLEAN
        /\ UNCHANGED <<record, shown>>
    BY <1>8 DEF Unauthorized
  <2>3. tab[t] \in Tab
    BY <2>1 DEF AppInv, TypeOK
  <2> HIDE DEF t
  <2> QED BY <2>1, <2>2, <2>3, ToLoginIsFine, LoadStep
<1>9. CASE TooMany(w)
  <2> DEFINE n == attempt[w].tries + 1
             k == attempt[w].signed \/ token
             a == [attempt[w] EXCEPT !.tries = n, !.signed = k]
  <2>1. n \in 0 .. MaxRetries /\ k \in BOOLEAN
    BY <1>0, <1>9 DEF TooMany
  <2>2. attempt' = [attempt EXCEPT ![w] = a] /\ UNCHANGED home
          /\ UNCHANGED <<tab, token, record, orphans, shown>>
    BY <1>0, <1>9 DEF TooMany, AppInv, TypeOK, Attempt
  <2> HIDE DEF n, k
  <2>3. /\ a \in Attempt /\ a.phase = attempt[w].phase
        /\ Honest(a, record, shown)
    BY <1>0, <2>1 DEF Attempt, Honest
  <2> HIDE DEF a
  <2>4. Becomes(w, a)
    BY <1>b, <2>2, <2>3 DEF Becomes, Runs
  <2> QED BY <1>0, <1>c, <2>2, <2>3, <2>4, AttemptStep DEF NoBlindCheckOut, Grows
<1> QED BY <1>1, <1>2, <1>3, <1>4, <1>5, <1>6, <1>7, <1>8, <1>9 DEF Answer

LEMMA OrphanStep ==
  ASSUME AppInv, NEW op \in {"in", "out"}, OrphanServed(op)
  PROVE  AppInv' /\ CodeStep
<1>1. /\ Grows /\ record' \in {"absent", "in", "out"} /\ orphans' \subseteq {"in", "out"}
      /\ UNCHANGED <<tab, attempt, home, token, shown>>
  BY DEF OrphanServed, Serve, Follows, Grows, AppInv, TypeOK
<1>2. NoBlindCheckOut'
  BY DEF OrphanServed, Serve, AppInv, NoBlindCheckOut
<1>3. \A w \in Attempts : Honest(attempt'[w], record', shown')
  BY <1>1, HonestStays DEF AppInv
<1>4. TypeOK' /\ \A t \in Tabs : Fine(tab'[t])
  BY <1>1 DEF AppInv, TypeOK
<1> QED BY <1>1, <1>2, <1>3, <1>4 DEF AppInv, CodeStep

LEMMA AppStep == AppInv /\ [Next]_vars => AppInv' /\ (CodeStep \/ UNCHANGED vars)
<1> SUFFICES ASSUME AppInv, [Next]_vars PROVE AppInv' /\ (CodeStep \/ UNCHANGED vars)
  OBVIOUS
<1>1. CASE UNCHANGED vars
  BY <1>1 DEF vars, AppInv, TypeOK, NoBlindCheckOut, Fine, Honest, Told
<1> QED BY <1>1, StudentStep, AnswerStep, OrphanStep DEF Next

-----------------------------------------------------------------------------
\* The inductive invariant: each tab is fine, each attempt honest, and a check-out
\* that is recorded or may still be was asked for by a student who had been told
\* of the check-in.
THEOREM AppInvariant == Spec => []AppInv
<1>1. Init => AppInv
  <2> SUFFICES ASSUME Init PROVE AppInv
    OBVIOUS
  <2>1. /\ tab \in [Tabs -> Tab] /\ attempt \in [Attempts -> Attempt]
        /\ \A t \in Tabs : Fine(tab[t])
        /\ \A w \in Attempts : Honest(attempt[w], record, shown)
    BY ClosedIsFine, IdleIsHonest DEF Init
  <2>2. /\ home \in [Strays -> Tabs \cup {NoTab}]
        /\ \A s \in Strays : Runs(attempt[s]) <=> home[s] # NoTab
    BY IdleIsHonest DEF Init, Attempts
  <2>3. TypeOK
    BY <2>1, <2>2 DEF Init, TypeOK
  <2> QED BY <2>1, <2>3 DEF Init, AppInv, NoBlindCheckOut
<1> QED BY <1>1, AppStep, PTL DEF Spec

\* Every variable keeps its type, and a slot of a left attempt is free when it
\* is through.
THEOREM TypeCorrect == Spec => []TypeOK
<1>1. AppInv => TypeOK
  BY DEF AppInv
<1> QED BY <1>1, AppInvariant, PTL

\* venueCheckin.ts:1: a tab with a pending code is never on the Face ID page.
THEOREM QrGoesToCheckIn == Spec => []QrNeverFaceId
<1>1. AppInv => QrNeverFaceId
  BY DEF AppInv, Fine, QrNeverFaceId
<1> QED BY <1>1, AppInvariant, PTL

\* AutoCheckInPage: what the page says is done has been recorded.
THEOREM DoneIsRecorded == Spec => []DoneIsTrue
<1>1. AppInv => DoneIsTrue
  BY DEF AppInv, Attempts, Honest, Told, Already, DoneIsTrue
<1> QED BY <1>1, AppInvariant, PTL

\* App: every page behind the Guard has its inactivity timer.
THEOREM PagesTimeOut == Spec => []EveryPageTimesOut
<1>1. AppInv => EveryPageTimesOut
  BY DEF AppInv, Fine, EveryPageTimesOut
<1> QED BY <1>1, AppInvariant, PTL

\* AutoCheckInPage: "Try again" after a lost answer never checks out a student
\* who has not been told of the check-in.
THEOREM NoCheckOutUntold == Spec => []NoBlindCheckOut
<1>1. AppInv => NoBlindCheckOut
  BY DEF AppInv
<1> QED BY <1>1, AppInvariant, PTL

\* venueCheckin.ts, AutoCheckInPage.tsx:166: the code of a scan is given up only
\* when an attempt of its tab has just recorded an attendance, also one whose page
\* was left.
THEOREM CodesSurvive == Spec => CodeSurvives
<1>1. AppInv /\ [Next]_vars =>
        [\A t \in Tabs :
           tab[t].code /\ ~tab'[t].code =>
             \/ tab'[t].route = "closed"
             \/ \E w \in Attempts :
                  /\ TabOf(w) = t /\ attempt[w].phase = "post"
                  /\ record' = attempt[w].action /\ record # record']_vars
  BY AppStep DEF CodeStep, Records
<1> QED BY <1>1, AppInvariant, PTL DEF Spec, CodeSurvives
=============================================================================
