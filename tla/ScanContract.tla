---------------------------- MODULE ScanContract ----------------------------
(***************************************************************************)
(* What the attendance pages of a phone promise, without cameras, models,  *)
(* positions, dialogs and deadlines: a page decides once it has loaded     *)
(* what it will ask for, asks when it has captured that, and shows what    *)
(* was answered.  Leaving takes back a scan that is still collecting.      *)
(* FaceScan implements it.                                                 *)
(***************************************************************************)
CONSTANTS Pages, None

VARIABLES record,  \* the student's attendance at the server
          view,    \* "closed", "loading", or the record a page shows
          phase,   \* "none", "collecting", "captured" or "asking", by page
          op,      \* what a page that collects will ask for
          asked    \* requests on their way; None has forgotten its own

contract == <<record, view, phase, op, asked>>

\* The record a check-in or a check-out follows, and those a record has been.
Before == [in |-> "absent", out |-> "in"]
Past == [absent |-> {"absent"}, in |-> {"absent", "in"}, out |-> {"absent", "in", "out"}]

End(S) ==
  /\ phase' = [v \in Pages |-> IF v \in S THEN "none" ELSE phase[v]]
  /\ op' = [v \in Pages |-> IF v \in S THEN "in" ELSE op[v]]

-----------------------------------------------------------------------------
\* One page is in view at a time, and it is a new one.
Open(v) ==
  /\ \A w \in Pages : view[w] = "closed"
  /\ phase[v] = "none"
  /\ view' = [view EXCEPT ![v] = "loading"]
  /\ UNCHANGED <<record, phase, op, asked>>

\* What is still collected is given up; what was captured goes on its way.
Leave(v) ==
  /\ view[v] # "closed"
  /\ view' = [view EXCEPT ![v] = "closed"]
  /\ End({v} \cap {w \in Pages : phase[w] = "collecting"})
  /\ UNCHANGED <<record, asked>>

\* The answer of the load may be old.
Learn(v) ==
  /\ view[v] = "loading"
  /\ \E r \in Past[record] : view' = [view EXCEPT ![v] = r]
  /\ UNCHANGED <<record, phase, op, asked>>

Begin(v) ==
  /\ view[v] \in DOMAIN Past
  /\ phase[v] = "none"
  /\ phase' = [phase EXCEPT ![v] = "collecting"]
  /\ op' = [op EXCEPT ![v] = IF view[v] = "in" THEN "out" ELSE "in"]
  /\ UNCHANGED <<record, view, asked>>

Capture(v) ==
  /\ phase[v] = "collecting"
  /\ phase' = [phase EXCEPT ![v] = "captured"]
  /\ UNCHANGED <<record, view, op, asked>>

Ask(v) ==
  /\ phase[v] = "captured"
  /\ asked' = asked \cup {[from |-> v, op |-> op[v]]}
  /\ phase' = [phase EXCEPT ![v] = "asking"]
  /\ op' = [op EXCEPT ![v] = "in"]
  /\ UNCHANGED <<record, view>>

\* Any failure before the submission; that of the model takes all that wait.
GiveUp(S) ==
  /\ \A v \in S : phase[v] \in {"collecting", "captured"}
  /\ End(S)
  /\ UNCHANGED <<record, view, asked>>

-----------------------------------------------------------------------------
Waits(p) == p.from \in Pages /\ phase[p.from] = "asking"

Succeed(p) ==
  /\ Waits(p)
  /\ record = Before[p.op]
  /\ record' = p.op
  /\ asked' = asked \ {p}
  /\ view' = [view EXCEPT ![p.from] = IF @ = "closed" THEN @ ELSE p.op]
  /\ End({p.from})

Refuse(p) ==
  /\ Waits(p)
  /\ asked' = asked \ {p}
  /\ End({p.from})
  /\ UNCHANGED <<record, view>>

Lose(p) ==
  /\ Waits(p)
  /\ asked' = (asked \ {p}) \cup {[p EXCEPT !.from = None]}
  /\ End({p.from})
  /\ UNCHANGED <<record, view>>

\* Nobody is told.
ServeLate(p) ==
  /\ p.from = None
  /\ asked' = asked \ {p}
  /\ \/ record = Before[p.op] /\ record' = p.op
     \/ UNCHANGED record
  /\ UNCHANGED <<view, phase, op>>

-----------------------------------------------------------------------------
Init ==
  /\ record = "absent"
  /\ view = [v \in Pages |-> "closed"]
  /\ phase = [v \in Pages |-> "none"]
  /\ op = [v \in Pages |-> "in"]
  /\ asked = {}

Next ==
  \/ \E v \in Pages : Open(v) \/ Leave(v) \/ Learn(v) \/ Begin(v) \/ Capture(v) \/ Ask(v)
  \/ \E S \in SUBSET Pages : GiveUp(S)
  \/ \E p \in asked : Succeed(p) \/ Refuse(p) \/ Lose(p) \/ ServeLate(p)

Spec == Init /\ [][Next]_contract

=============================================================================
