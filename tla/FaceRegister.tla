---------------------------- MODULE FaceRegister ----------------------------
(***************************************************************************)
(* What the face services promise a student, without scans, tokens, locks  *)
(* and indexes: one face at a time, that a new one replaces, and           *)
(* challenges that are answered, pass and back one attendance each, in     *)
(* time.  FaceVerification implements it.                                  *)
(***************************************************************************)
EXTENDS Naturals

CONSTANTS Challenges, Enrolments, Uses, ChallengeTTL, TokenTTL, None

VARIABLES now,
          face,      \* the face that is enrolled, or None
          enrolled,  \* every face that has been
          stage,     \* "new", "open", "failed", "passed" or "spent", by challenge
          closes,    \* when a challenge expires
          backed     \* attendance: the challenge behind it and when it was shown

register == <<now, face, enrolled, stage, closes, backed>>

-----------------------------------------------------------------------------
Tick ==
  /\ now' = now + 1
  /\ UNCHANGED <<face, enrolled, stage, closes, backed>>

\* A student with a face may replace it and is never without one again.
Enrol(f) ==
  /\ f \notin enrolled
  /\ face' = f
  /\ enrolled' = enrolled \cup {f}
  /\ UNCHANGED <<now, stage, closes, backed>>

Move(c, from, to) ==
  /\ stage[c] \in from
  /\ stage' = [stage EXCEPT ![c] = to]
  /\ UNCHANGED <<now, face, enrolled>>

Issue(c) ==
  /\ face # None
  /\ Move(c, {"new"}, "open")
  /\ closes' = [closes EXCEPT ![c] = now + ChallengeTTL]
  /\ UNCHANGED backed

Fail(c) == Move(c, {"open"}, "failed") /\ UNCHANGED <<closes, backed>>

\* Also after a scan that failed meanwhile.
Pass(c) ==
  /\ face # None
  /\ Move(c, {"open", "failed"}, "passed")
  /\ UNCHANGED <<closes, backed>>

Spend(c, u) ==
  /\ Move(c, {"passed"}, "spent")
  /\ \A x \in backed : x.use # u
  /\ \E t \in 0 .. now :
       /\ t < closes[c] + TokenTTL
       /\ backed' = backed \cup {[use |-> u, challenge |-> c, at |-> t]}
  /\ UNCHANGED closes

-----------------------------------------------------------------------------
Init ==
  /\ now = 0
  /\ face = None
  /\ enrolled = {}
  /\ stage = [c \in Challenges |-> "new"]
  /\ closes = [c \in Challenges |-> 0]
  /\ backed = {}

Next ==
  \/ Tick
  \/ \E f \in Enrolments : Enrol(f)
  \/ \E c \in Challenges : Issue(c) \/ Fail(c) \/ Pass(c) \/ \E u \in Uses : Spend(c, u)

Spec == Init /\ [][Next]_register

=============================================================================
