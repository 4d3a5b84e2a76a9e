----------------------------- MODULE StudentApp -----------------------------
(***************************************************************************)
(* The student's application around the room QR: App.tsx (Login, Signup,   *)
(* CheckInEntry, Guard, the inactivity timer and the routes), the axios    *)
(* interceptors of services/api.ts, lib/auth.ts, lib/venueCheckin.ts and   *)
(* pages/student/AutoCheckInPage.tsx.                                      *)
(*                                                                         *)
(* Every QR scan of the phone's camera opens a tab.  Tabs share the token  *)
(* in localStorage; the code of the room is in the sessionStorage of its   *)
(* tab and in the URL of the check-in page.  A request takes the token     *)
(* that is stored when it is sent, and a 401 clears the one that is stored *)
(* when it arrives, whichever it is.  A token may expire, or a password be *)
(* changed, at any time: a request sent with one may be accepted or meet a *)
(* 401, a request sent without one meets a 401.                            *)
(*                                                                         *)
(* The check-in page works by asynchronous functions that no navigation    *)
(* stops: who follows a link leaves an attempt behind that goes on to      *)
(* locate, to verify and to post, and clears the code of its tab when it   *)
(* is through.  Only a new document ends it.                               *)
(*                                                                         *)
(* One phone has one student, which the device binding sees to; the room   *)
(* has one code; what the server does about a request is module Attendance *)
(* and here only its outcome.                                              *)
(***************************************************************************)
EXTENDS Naturals, FiniteSets

CONSTANTS Tabs,
          Strays,     \* bound: attempts whose page was left
          MaxRetries  \* repetitions of a request answered with 429

ASSUME StudentAppAssumption ==
  /\ MaxRetries \in Nat
  /\ Tabs \cap Strays = {}
  /\ "none" \notin Tabs

\* "other": home, courses, messages and profile.
Guarded == {"checkin", "attendance", "other"}
Route == {"closed", "login"} \cup Guarded

\* code: a venue code in sessionStorage.  timer: the inactivity timer runs.
Tab == [route: Route, code: BOOLEAN, timer: BOOLEAN]
Closed == [route |-> "closed", code |-> FALSE, timer |-> FALSE]

\* The check-in page.  Each of Sending has one request on its way; signed: it was
\* sent with a token.
Sending == {"loading", "location", "venue", "post", "current"}
Phase == {"none", "ready", "locating", "done", "error"} \cup Sending
Attempt == [phase: Phase, action: {"in", "out"}, signed: BOOLEAN,
            tries: 0 .. MaxRetries]
Idle == [phase |-> "none", action |-> "in", signed |-> FALSE, tries |-> 0]

\* Each tab has the attempt of the page it shows, if it shows the check-in page.
Attempts == Tabs \cup Strays
NoTab == "none"

VARIABLES
  tab,
  attempt,
  home,     \* the tab of a stray attempt
  token,    \* localStorage has ccd.access
  record,   \* the student's attendance at the server
  orphans,  \* check-ins and check-outs nobody waits for, that may be served
  shown     \* a page has told the student of a recorded check-in (history)

vars == <<tab, attempt, home, token, record, orphans, shown>>

TabOf(w) == IF w \in Tabs THEN w ELSE home[w]
Runs(a) == a.phase \in Sending \cup {"locating"}

-----------------------------------------------------------------------------
(* Where a navigation ends.                                                *)

\* studentPostAuthPath and studentPostSignupPath; /student/face-enrollment is
\* a redirect to the courses.
PostAuth(code) == IF code THEN "checkin" ELSE "attendance"
PostSignup(code) == IF code THEN "checkin" ELSE "other"

\* Mutant: the attendance page does not look for a pending code.
WithoutRedirect(code, dest) == dest

\* The redirect of AttendancePage.
Redirected(code, dest) == IF dest = "attendance" /\ code THEN "checkin" ELSE dest

\* Guard and the inactivity effect of App.  A student without a token comes to
\* the login, with the code of the URL that was asked for.
Arrive(x, dest, k) ==
  LET to == Redirected(x.code, dest)
  IN [route |-> IF k THEN to ELSE "login",
      code |-> x.code \/ to = "checkin",
      timer |-> k]

\* On the check-in page, the requests of its first effect.
Opened(x, k) ==
  IF x.route = "checkin" THEN [Idle EXCEPT !.phase = "loading", !.signed = k] ELSE Idle

\* Mutant: signing out empties the sessionStorage.
ToLoginForgetting(x) == [Closed EXCEPT !.route = "login"]

\* window.location to loginPathPreservingVenue, with the code of the URL or of
\* the sessionStorage.
ToLogin(x) == [Closed EXCEPT !.route = "login", !.code = x.code \/ x.route = "checkin"]

\* The server's answers to a check-in or check-out.
Follows(op) == (op = "in" /\ record = "absent") \/ (op = "out" /\ record = "in")
Already(op) == record = "out" \/ (record = "in" /\ op = "in")

\* Requests nobody waits for any more: a check-in or check-out among them may
\* still be served, if that is not refused by now.
MayBeServed(ws) ==
  LET sent == {v \in ws : attempt[v].phase = "post" /\ attempt[v].signed}
  IN \E ops \in SUBSET {attempt[v].action : v \in sent} :
       orphans' = orphans \cup {op \in ops : ~Already(op)}

\* Another request for the same is refused from now on.
Serve(op) ==
  /\ Follows(op)
  /\ record' = op
  /\ orphans' = orphans \ {op}

\* A document is loaded, or closed: no function of the one before runs on.
Load(t, x, k) ==
  LET gone == {w \in Attempts : TabOf(w) = t}
  IN /\ tab' = [tab EXCEPT ![t] = x]
     /\ attempt' = [w \in Attempts |-> IF w = t THEN Opened(x, k)
                                       ELSE IF w \in gone THEN Idle ELSE attempt[w]]
     /\ home' = [s \in Strays |-> IF s \in gone THEN NoTab ELSE home[s]]
     /\ MayBeServed(gone)

\* Another page in the same document; what the page before awaits goes on.
Navigate(t, x, k) ==
  /\ tab' = [tab EXCEPT ![t] = x]
  /\ IF Runs(attempt[t])
       THEN \E s \in Strays :
              /\ home[s] = NoTab
              /\ home' = [home EXCEPT ![s] = t]
              /\ attempt' = [attempt EXCEPT ![s] = attempt[t], ![t] = Opened(x, k)]
       ELSE attempt' = [attempt EXCEPT ![t] = Opened(x, k)] /\ UNCHANGED home
  /\ UNCHANGED orphans

-----------------------------------------------------------------------------
(* The student.                                                            *)

\* CheckInEntry in a new tab.
ScanQr(t) ==
  /\ tab[t].route = "closed"
  /\ Load(t, Arrive([Closed EXCEPT !.code = TRUE], "checkin", token), token)
  /\ UNCHANGED <<token, record, shown>>

OpenApp(t) ==
  /\ tab[t].route = "closed"
  /\ Load(t, Arrive(Closed, "attendance", token), token)
  /\ UNCHANGED <<token, record, shown>>

CloseTab(t) ==
  /\ tab[t].route # "closed"
  /\ Load(t, Closed, FALSE)
  /\ UNCHANGED <<token, record, shown>>

\* "Try again" and the browser's reload; the login page goes on if another
\* tab has signed in.
Reload(t) ==
  LET x == tab[t]
      dest == IF x.route = "login" THEN PostAuth(x.code) ELSE x.route
  IN /\ x.route # "closed"
     /\ Load(t, IF x.route = "login" /\ ~token THEN x ELSE Arrive(x, dest, token), token)
     /\ UNCHANGED <<token, record, shown>>

\* The student signs in, or signs up.
Login(t) ==
  /\ tab[t].route = "login"
  /\ token' = TRUE
  /\ \E dest \in {PostAuth(tab[t].code), PostSignup(tab[t].code)} :
       Navigate(t, Arrive(tab[t], dest, TRUE), TRUE)
  /\ UNCHANGED <<record, shown>>

\* A link of StudentLayout.
Follow(t, dest) ==
  /\ tab[t].route \in Guarded
  /\ tab[t].route # dest
  /\ Navigate(t, Arrive(tab[t], dest, token), token)
  /\ UNCHANGED <<token, record, shown>>

SignOut(t) ==
  /\ tab[t].route \in Guarded
  /\ token' = FALSE
  /\ Navigate(t, [Closed EXCEPT !.route = "login", !.code = tab[t].code], FALSE)
  /\ UNCHANGED <<record, shown>>

\* Two minutes without activity in this tab, whatever happens in the others.
Inactive(t) ==
  /\ tab[t].timer
  /\ token' = FALSE
  /\ Load(t, ToLogin(tab[t]), FALSE)
  /\ UNCHANGED <<record, shown>>

-----------------------------------------------------------------------------
(* The check-in page, shown or left.                                       *)

Rests(w, phase) == [attempt[w] EXCEPT !.phase = phase, !.signed = FALSE, !.tries = 0]
Sends(w, phase) == [attempt[w] EXCEPT !.phase = phase, !.signed = token, !.tries = 0]
\* A stray attempt that has come to rest is gone.
Becomes(w, a) ==
  IF w \in Strays /\ ~Runs(a)
  THEN attempt' = [attempt EXCEPT ![w] = Idle] /\ home' = [home EXCEPT ![w] = NoTab]
  ELSE attempt' = [attempt EXCEPT ![w] = a] /\ UNCHANGED home

\* Only a page that is shown tells.
Tells(w, what) == shown' = (shown \/ (w \in Tabs /\ what))

\* The record decides between check-in and check-out.
Loaded(w) ==
  /\ attempt[w].phase = "loading"
  /\ attempt[w].signed
  /\ Becomes(w, [Rests(w, IF record = "out" THEN "done" ELSE "ready")
                   EXCEPT !.action = IF record = "absent" THEN "in" ELSE "out"])
  /\ Tells(w, record # "absent")
  /\ UNCHANGED <<tab, token, record, orphans>>

\* "Allow location & check in".
Tap(t) ==
  /\ attempt[t].phase = "ready"
  /\ Becomes(t, Rests(t, "locating"))
  /\ UNCHANGED <<tab, token, record, orphans, shown>>

\* getLocation, verify-location, verify-venue.
Located(w) ==
  /\ attempt[w].phase = "locating"
  /\ Becomes(w, Rests(w, "error")) \/ Becomes(w, Sends(w, "location"))
  /\ UNCHANGED <<tab, token, record, orphans, shown>>

LocationVerified(w) ==
  /\ attempt[w].phase = "location"
  /\ attempt[w].signed
  /\ Becomes(w, Sends(w, "venue"))
  /\ UNCHANGED <<tab, token, record, orphans, shown>>

VenueVerified(w) ==
  /\ attempt[w].phase = "venue"
  /\ attempt[w].signed
  /\ Becomes(w, Sends(w, "post"))
  /\ UNCHANGED <<tab, token, record, orphans, shown>>

\* clearStoredVenueCode, of the tab the attempt runs in, whatever it shows.
ClearCode(w) == tab' = [tab EXCEPT ![TabOf(w)].code = FALSE]

\* Mutant: check-in and check-out is decided by the server when it is sent.
RecordedBlindly(w) ==
  /\ attempt[w].phase = "post"
  /\ attempt[w].signed
  /\ \E op \in {"in", "out"} : Serve(op)
  /\ Becomes(w, [Rests(w, "done") EXCEPT !.action = record'])
  /\ ClearCode(w)
  /\ Tells(w, record' = "in")
  /\ UNCHANGED token

Recorded(w) ==
  /\ attempt[w].phase = "post"
  /\ attempt[w].signed
  /\ Serve(attempt[w].action)
  /\ Becomes(w, Rests(w, "done"))
  /\ ClearCode(w)
  /\ Tells(w, TRUE)
  /\ UNCHANGED token

\* "already checked in": the record is read again for its times.
AlreadyRecorded(w) ==
  /\ attempt[w].phase = "post"
  /\ attempt[w].signed
  /\ Already(attempt[w].action)
  /\ Becomes(w, Sends(w, "current"))
  /\ UNCHANGED <<tab, token, record, orphans, shown>>

\* Mutant: a request that failed counts as done when the server has heard it.
FailsDone(w) ==
  /\ attempt[w].phase \in Sending
  /\ Becomes(w, Rests(w, IF attempt[w].phase \in {"post", "current"} THEN "done" ELSE "error"))
  /\ Tells(w, attempt[w].phase = "current")
  /\ MayBeServed({w})
  /\ UNCHANGED <<tab, token, record>>

\* Mutant: a 401 without a stored token is neither followed nor rejected.
FailsAuthorized(w) ==
  /\ attempt[w].phase \in Sending
  /\ attempt[w].signed
  /\ Becomes(w, Rests(w, IF attempt[w].phase = "current" THEN "done" ELSE "error"))
  /\ Tells(w, attempt[w].phase = "current")
  /\ MayBeServed({w})
  /\ UNCHANGED <<tab, token, record>>

\* Another refusal, or no answer.  After "already checked in" the page is done
\* whatever the second request brings.
Fails(w) ==
  /\ attempt[w].phase \in Sending
  /\ Becomes(w, Rests(w, IF attempt[w].phase = "current" THEN "done" ELSE "error"))
  /\ Tells(w, attempt[w].phase = "current")
  /\ MayBeServed({w})
  /\ UNCHANGED <<tab, token, record>>

\* 429: sent again, with the token there is now.
TooMany(w) ==
  /\ attempt[w].phase \in Sending
  /\ attempt[w].tries < MaxRetries
  /\ attempt' = [attempt EXCEPT ![w].tries = @ + 1,
                                ![w].signed = @ \/ token]
  /\ UNCHANGED <<tab, home, token, record, orphans, shown>>

\* 401: with a token stored, whichever, it is cleared and the tab goes to the
\* login; without one it is a failure like others.
Unauthorized(w) ==
  /\ attempt[w].phase \in Sending
  /\ token
  /\ token' = FALSE
  /\ Load(TabOf(w), ToLogin(tab[TabOf(w)]), FALSE)
  /\ UNCHANGED <<record, shown>>

OrphanServed(op) ==
  /\ op \in orphans
  /\ Serve(op)
  /\ UNCHANGED <<tab, attempt, home, token, shown>>

-----------------------------------------------------------------------------
Init ==
  /\ tab = [t \in Tabs |-> Closed]
  /\ attempt = [w \in Attempts |-> Idle]
  /\ home = [s \in Strays |-> NoTab]
  /\ token = FALSE
  /\ record = "absent"
  /\ orphans = {}
  /\ shown = FALSE

Student(t) ==
  \/ ScanQr(t) \/ OpenApp(t) \/ CloseTab(t) \/ Reload(t) \/ Login(t)
  \/ SignOut(t) \/ Inactive(t) \/ Tap(t)
  \/ \E dest \in {"attendance", "other"} : Follow(t, dest)

\* What comes back to an attempt without anybody's help.
Answer(w) ==
  \/ Loaded(w) \/ Located(w) \/ LocationVerified(w) \/ VenueVerified(w)
  \/ Recorded(w) \/ AlreadyRecorded(w)
  \/ Fails(w) \/ Unauthorized(w)

Next ==
  \/ \E t \in Tabs : Student(t)
  \/ \E w \in Attempts : Answer(w) \/ TooMany(w)
  \/ \E op \in {"in", "out"} : OrphanServed(op)

Spec == Init /\ [][Next]_vars

\* Requests are answered or time out after 15 s, and getLocation ends.
FairSpec == Spec /\ \A w \in Attempts : WF_vars(Answer(w))

-----------------------------------------------------------------------------
TypeOK ==
  /\ tab \in [Tabs -> Tab]
  /\ attempt \in [Attempts -> Attempt]
  /\ home \in [Strays -> Tabs \cup {NoTab}]
  /\ \A s \in Strays : Runs(attempt[s]) <=> home[s] # NoTab
  /\ token \in BOOLEAN
  /\ record \in {"absent", "in", "out"}
  /\ orphans \subseteq {"in", "out"}
  /\ shown \in BOOLEAN

\* "Never send a QR scan to the Face ID page" (venueCheckin.ts:1): a tab with a
\* pending code is never on the attendance page, whatever logins, expired
\* sessions, links and reloads came between.
QrNeverFaceId == \A t \in Tabs : tab[t].code => tab[t].route # "attendance"

\* What the page says has been recorded has been, by this attempt or another.
DoneIsTrue ==
  \A t \in Tabs :
    attempt[t].phase = "done" => Already(attempt[t].action)

\* Every page behind the Guard has its inactivity timer, also the one the
\* student came to through a login in this or another tab.
EveryPageTimesOut == \A t \in Tabs : tab[t].route \in Guarded => tab[t].timer

\* A student whose check-in was recorded without an answer is told of it before
\* anything checks out: "Try again" does not turn a check-in into a check-out.
NoBlindCheckOut == record = "out" \/ "out" \in orphans => shown

\* The code of a scan is given up for a recorded attendance only, not for a
\* sign-out, an expired session or a retry: an attempt begun in this tab has just
\* recorded what it asked for, be its page shown or left long ago.
CodeSurvives ==
  [][\A t \in Tabs :
       tab[t].code /\ ~tab'[t].code =>
         \/ tab'[t].route = "closed"
         \/ \E w \in Attempts :
              /\ TabOf(w) = t /\ attempt[w].phase = "post"
              /\ record' = attempt[w].action /\ record # record']_vars

\* No attempt, shown or left, goes on for good, and no page waits for good.
EveryAttemptEnds == \A w \in Attempts : Runs(attempt[w]) ~> ~Runs(attempt[w])
=============================================================================
