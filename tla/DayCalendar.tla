---------------------------- MODULE DayCalendar -----------------------------
(***************************************************************************)
(* What session_service.py promises, without locks, indexes and flushes:   *)
(* the session of a day is made by the first that asks for it, found by    *)
(* all others, and changed by staff column by column.  DailySession        *)
(* implements it.                                                          *)
(***************************************************************************)
EXTENDS Naturals

CONSTANTS Requests, Earlier, Windows, Columns, HoursChoices, DefaultHours,
          None

VARIABLES today,
          sessions,  \* the automatic sessions
          phase,     \* "idle", "asking", "editing" or "done", by request
          asked,     \* the day a request asks about
          wish,      \* the hours a request submits
          answer

calendar == <<today, sessions, phase, asked, wish, answer>>

Valid(h) == \A w \in Windows : h[w, "opens"] < h[w, "closes"]

Becomes(s, t) == sessions' = (sessions \ {s}) \cup {t}

Answer(r, a) ==
  /\ phase' = [phase EXCEPT ![r] = "done"]
  /\ answer' = [answer EXCEPT ![r] = a]
  /\ UNCHANGED <<today, asked, wish>>

-----------------------------------------------------------------------------
Midnight ==
  /\ today' = today + 1
  /\ UNCHANGED <<sessions, phase, asked, wish, answer>>

Ask(r) ==
  /\ phase[r] = "idle"
  /\ phase' = [phase EXCEPT ![r] = "asking"]
  /\ asked' = [asked EXCEPT ![r] = today]
  /\ UNCHANGED <<today, sessions, wish, answer>>

Submit(r) ==
  /\ phase[r] = "idle"
  /\ phase' = [phase EXCEPT ![r] = "editing"]
  /\ \E h \in HoursChoices : wish' = [wish EXCEPT ![r] = h]
  /\ UNCHANGED <<today, sessions, asked, answer>>

\* The day asked about may be over by now.
Create(r) ==
  /\ phase[r] = "asking"
  /\ \A s \in sessions : s.day # asked[r]
  /\ sessions' = sessions \cup
       {[id |-> r, day |-> asked[r], current |-> TRUE, hours |-> DefaultHours]}
  /\ Answer(r, r)

Resolve(r) ==
  /\ phase[r] = "asking"
  /\ \E s \in sessions :
       /\ s.day = asked[r]
       /\ Becomes(s, [s EXCEPT !.current = TRUE])
       /\ Answer(r, s.id)

\* Staff meet in a session: of each column the wish is written or what is there kept.
Edit(r) ==
  /\ phase[r] = "editing"
  /\ Valid(wish[r])
  /\ \E s \in sessions, C \in SUBSET Columns :
       Becomes(s, [s EXCEPT !.hours = [c \in Columns |-> IF c \in C THEN wish[r][c] ELSE @[c]]])
  /\ Answer(r, "OK")

Refuse(r) ==
  /\ phase[r] = "editing"
  /\ sessions = {} \/ ~Valid(wish[r])
  /\ Answer(r, "REFUSED")
  /\ UNCHANGED sessions

Lose(r) ==
  /\ phase[r] \in {"asking", "editing"}
  /\ Answer(r, "LOST")
  /\ UNCHANGED sessions

-----------------------------------------------------------------------------
Init ==
  /\ today = 0
  /\ sessions \in
       {{}, {[id |-> Earlier, day |-> 0, current |-> FALSE, hours |-> DefaultHours]}}
  /\ phase = [r \in Requests |-> "idle"]
  /\ asked = [r \in Requests |-> 0]
  /\ wish = [r \in Requests |-> None]
  /\ answer = [r \in Requests |-> "none"]

Next ==
  \/ Midnight
  \/ \E r \in Requests :
       Ask(r) \/ Submit(r) \/ Create(r) \/ Resolve(r) \/ Edit(r) \/ Refuse(r) \/ Lose(r)

Spec == Init /\ [][Next]_calendar

=============================================================================
