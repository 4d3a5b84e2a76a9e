-------------------------- MODULE FaceVerification --------------------------
(***************************************************************************)
(* services/verification_service.py and services/enrollment_service.py:    *)
(* the face evidence of one student in one active session.                 *)
(*                                                                         *)
(* A liveness challenge and the one-time token it may yield are one row.   *)
(* verify_face SELECTs the pending row without a lock, analyses frames in  *)
(* a thread pool, and writes the row back: the ORM updates the columns     *)
(* whose value differs from the one it loaded, so scans of one challenge   *)
(* that run at the same time are merged column by column.  Check-in and    *)
(* check-out consume the token by a conditional UPDATE of a transaction    *)
(* that may still roll back.  Enrolment replaces the active face behind a  *)
(* partial unique index.                                                   *)
(*                                                                         *)
(* An enrolment request is also the name of the face it inserts, and a     *)
(* scan the name of the token it mints.                                    *)
(***************************************************************************)
EXTENDS Naturals, FiniteSets

CONSTANTS Challenges,
          Scans,         \* requests of verify_face
          Enrolments,    \* requests of enroll_face
          Uses,          \* transactions of check_in and check_out
          ChallengeTTL,
          TokenTTL,
          MaxTime,       \* bound on the clock
          None

ASSUME FaceAssumption ==
  /\ ChallengeTTL \in Nat
  /\ TokenTTL \in Nat
  /\ MaxTime \in Nat
  /\ None \notin Challenges \cup Scans \cup Enrolments \cup Uses

Times == 0 .. MaxTime
Face == Enrolments \cup {None}

\* face_verifications.  token is the scan that minted it last; holder is the
\* transaction that has set used and has not ended.
Row == [issued: BOOLEAN, exp: Nat, done: BOOLEAN, verified: BOOLEAN,
        token: Scans \cup {None}, texp: Nat, face: Face, used: BOOLEAN,
        holder: Uses \cup {None}]
Scan == [pc: {"idle", "analyse", "match", "write", "done"},
         challenge: Challenges \cup {None}, at: Nat, face: Face, passed: BOOLEAN]
Enrolment == [pc: {"idle", "revoke", "insert", "commit", "done"}, target: Face]
Use == [pc: {"idle", "consume", "commit", "done"}, token: Scans \cup {None}, at: Nat]
Evidence == [use: Uses, challenge: Challenges, token: Scans, face: Face, at: Nat]

VARIABLES
  now,
  rows,
  faces,     \* is_active of each face: "absent" until its INSERT commits
  faceLock,  \* the transaction that has revoked a face and has not ended
  scans, enrols, uses,
  spent      \* evidence of committed check-ins and check-outs

vars == <<now, rows, faces, faceLock, scans, enrols, uses, spent>>

Active == {f \in Enrolments : faces[f] = "active"}

-----------------------------------------------------------------------------
Tick ==
  /\ now < MaxTime
  /\ now' = now + 1
  /\ UNCHANGED <<rows, faces, faceLock, scans, enrols, uses, spent>>

IssueChallenge(c) ==
  /\ ~rows[c].issued
  /\ Active # {}
  /\ rows' = [rows EXCEPT ![c].issued = TRUE, ![c].exp = now + ChallengeTTL]
  /\ UNCHANGED <<now, faces, faceLock, scans, enrols, uses, spent>>

-----------------------------------------------------------------------------
\* Mutant: the expiry of the challenge is not looked at.
LoadAnyPending(s, c) ==
  /\ scans[s].pc = "idle"
  /\ rows[c].issued
  /\ ~rows[c].done
  /\ scans' = [scans EXCEPT ![s].pc = "analyse", ![s].challenge = c, ![s].at = now]
  /\ UNCHANGED <<now, rows, faces, faceLock, enrols, uses, spent>>

\* The pending row is read without a lock and the clock right after it.  A
\* challenge that has expired is closed by the scan that finds it so.  A scan
\* of a challenge that is not pending is refused and changes nothing.
LoadChallenge(s, c) ==
  /\ scans[s].pc = "idle"
  /\ rows[c].issued
  /\ ~rows[c].done
  /\ scans' = [scans EXCEPT ![s].pc = IF rows[c].exp < now THEN "write" ELSE "analyse",
                            ![s].challenge = c, ![s].at = now]
  /\ UNCHANGED <<now, rows, faces, faceLock, enrols, uses, spent>>

\* A frame that is no image, an error in the analysis and a lost request end
\* the transaction with nothing written; the challenge stays pending.
AbandonScan(s) ==
  /\ scans[s].pc \in {"analyse", "match", "write"}
  /\ scans' = [scans EXCEPT ![s].pc = "done", ![s].passed = FALSE]
  /\ UNCHANGED <<now, rows, faces, faceLock, enrols, uses, spent>>

\* Liveness and the quality of the frames decide.
Analyse(s) ==
  /\ scans[s].pc = "analyse"
  /\ \E live \in BOOLEAN :
       scans' = [scans EXCEPT ![s].pc = IF live THEN "match" ELSE "write"]
  /\ UNCHANGED <<now, rows, faces, faceLock, enrols, uses, spent>>

\* load_active_enrollment, the embeddings and the comparison.  A failure
\* before the scores exist (no enrolment, another provider, too few faces)
\* leaves the row's face alone; a mismatch names the face it was matched to.
MatchFace(s) ==
  /\ scans[s].pc = "match"
  /\ \/ scans' = [scans EXCEPT ![s].pc = "write"]
     \/ \E f \in Active, robust \in BOOLEAN :
          scans' = [scans EXCEPT ![s].pc = "write", ![s].face = f, ![s].passed = robust]
  /\ UNCHANGED <<now, rows, faces, faceLock, enrols, uses, spent>>

\* The columns the unit of work updates when a scan ends.
Answered(row, s) ==
  [row EXCEPT !.done = TRUE,
              !.face = IF scans[s].face = None THEN @ ELSE scans[s].face]

\* Mutant: minting a token makes the row usable again.
CompletedAfresh(row, s) ==
  IF scans[s].passed
  THEN [Answered(row, s) EXCEPT !.verified = TRUE, !.token = s,
                                !.texp = scans[s].at + TokenTTL, !.used = FALSE]
  ELSE Answered(row, s)

\* verified is FALSE in the row that was loaded, so a scan that fails does not
\* write it; used_at is never written.
Completed(row, s) ==
  IF scans[s].passed
  THEN [Answered(row, s) EXCEPT !.verified = TRUE, !.token = s,
                                !.texp = scans[s].at + TokenTTL]
  ELSE Answered(row, s)

WriteResult(s) ==
  LET c == scans[s].challenge IN
    /\ scans[s].pc = "write"
    /\ rows[c].holder = None
    /\ rows' = [rows EXCEPT ![c] = Completed(@, s)]
    /\ scans' = [scans EXCEPT ![s].pc = "done"]
    /\ UNCHANGED <<now, faces, faceLock, enrols, uses, spent>>

-----------------------------------------------------------------------------
\* The token a client was given, and the clock _consume_token compares with.
PresentToken(u) ==
  /\ uses[u].pc = "idle"
  /\ \E s \in Scans :
       /\ scans[s].pc = "done"
       /\ scans[s].passed
       /\ uses' = [uses EXCEPT ![u] = [pc |-> "consume", token |-> s, at |-> now]]
  /\ UNCHANGED <<now, rows, faces, faceLock, scans, enrols, spent>>

Usable(c, u) ==
  /\ rows[c].token = uses[u].token
  /\ rows[c].verified
  /\ ~rows[c].used
  /\ rows[c].texp > uses[u].at

\* The UPDATE waits for an open transaction that has used a matching row; if no
\* row matches, the request is refused.
Consume(u) ==
  /\ uses[u].pc = "consume"
  /\ \A c \in Challenges :
       rows[c].token = uses[u].token /\ rows[c].texp > uses[u].at => rows[c].holder = None
  /\ \/ \E c \in Challenges :
          /\ Usable(c, u)
          /\ rows' = [rows EXCEPT ![c].used = TRUE, ![c].holder = u]
          /\ uses' = [uses EXCEPT ![u].pc = "commit"]
     \/ /\ \A c \in Challenges : ~Usable(c, u)
        /\ uses' = [uses EXCEPT ![u].pc = "done"]
        /\ UNCHANGED rows
  /\ UNCHANGED <<now, faces, faceLock, scans, enrols, spent>>

\* The record names the face that the row of its token names.
CommitUse(u) ==
  /\ uses[u].pc = "commit"
  /\ \E c \in Challenges :
       /\ rows[c].holder = u
       /\ rows' = [rows EXCEPT ![c].holder = None]
       /\ spent' = spent \cup {[use |-> u, challenge |-> c, token |-> uses[u].token,
                                face |-> rows[c].face, at |-> uses[u].at]}
  /\ uses' = [uses EXCEPT ![u].pc = "done"]
  /\ UNCHANGED <<now, faces, faceLock, scans, enrols>>

\* Mutant: a transaction that fails is left open.
RollbackLater(u) ==
  /\ uses[u].pc \in {"consume", "commit"}
  /\ uses' = [uses EXCEPT ![u].pc = "done"]
  /\ UNCHANGED <<now, rows, faces, faceLock, scans, enrols, spent>>

\* Any later check of the request fails, or the process dies.
RollbackUse(u) ==
  /\ uses[u].pc \in {"consume", "commit"}
  /\ rows' = [c \in Challenges |->
                IF rows[c].holder = u
                THEN [rows[c] EXCEPT !.used = FALSE, !.holder = None] ELSE rows[c]]
  /\ uses' = [uses EXCEPT ![u].pc = "done"]
  /\ UNCHANGED <<now, faces, faceLock, scans, enrols, spent>>

-----------------------------------------------------------------------------
Unlocked(e) == [f \in Enrolments |-> IF faceLock[f] = e THEN None ELSE faceLock[f]]

\* The samples have been accepted; the UPDATE takes its snapshot.
StartRevoke(e) ==
  /\ enrols[e].pc = "idle"
  /\ enrols' = [enrols EXCEPT ![e].pc = "revoke",
                              ![e].target = IF Active = {} THEN None ELSE CHOOSE f \in Active : TRUE]
  /\ UNCHANGED <<now, rows, faces, faceLock, scans, uses, spent>>

\* Mutant: the revocation is committed before the audit entry is written.
RevokeAndCommit(e) ==
  LET f == enrols[e].target IN
    /\ enrols[e].pc = "revoke"
    /\ f # None => faceLock[f] = None
    /\ faces' = IF f \in Active THEN [faces EXCEPT ![f] = "revoked"] ELSE faces
    /\ enrols' = [enrols EXCEPT ![e].pc = "insert"]
    /\ UNCHANGED <<now, rows, faceLock, scans, uses, spent>>

\* The UPDATE waits for the row of its snapshot and looks at it again.
Revoke(e) ==
  LET f == enrols[e].target IN
    /\ enrols[e].pc = "revoke"
    /\ f # None => faceLock[f] = None
    /\ faceLock' = IF f \in Active THEN [faceLock EXCEPT ![f] = e] ELSE faceLock
    /\ enrols' = [enrols EXCEPT ![e].pc = "insert"]
    /\ UNCHANGED <<now, rows, faces, scans, uses, spent>>

\* The INSERT meets the partial unique index: it waits for a transaction that
\* has inserted or revoked an active face of the student and has not ended.
IndexBusy(e) ==
  \/ \E o \in Enrolments \ {e} : enrols[o].pc = "commit"
  \/ \E f \in Active : faceLock[f] \notin {None, e}

\* Mutant: no unique index.
NoIndex(e) == FALSE

IndexConflict(e) == \E f \in Active : faceLock[f] # e

InsertFace(e) ==
  /\ enrols[e].pc = "insert"
  /\ ~IndexBusy(e)
  /\ IF IndexConflict(e)
       THEN /\ enrols' = [enrols EXCEPT ![e].pc = "done"]
            /\ faceLock' = Unlocked(e)
       ELSE /\ enrols' = [enrols EXCEPT ![e].pc = "commit"]
            /\ UNCHANGED faceLock
  /\ UNCHANGED <<now, rows, faces, scans, uses, spent>>

CommitEnrolment(e) ==
  /\ enrols[e].pc = "commit"
  /\ faces' = [f \in Enrolments |-> CASE f = e -> "active"
                                     [] f # e /\ faceLock[f] = e -> "revoked"
                                     [] OTHER -> faces[f]]
  /\ faceLock' = Unlocked(e)
  /\ enrols' = [enrols EXCEPT ![e].pc = "done"]
  /\ UNCHANGED <<now, rows, scans, uses, spent>>

AbandonEnrolment(e) ==
  /\ enrols[e].pc \in {"revoke", "insert", "commit"}
  /\ faceLock' = Unlocked(e)
  /\ enrols' = [enrols EXCEPT ![e].pc = "done"]
  /\ UNCHANGED <<now, rows, faces, scans, uses, spent>>

-----------------------------------------------------------------------------
Init ==
  /\ now = 0
  /\ rows = [c \in Challenges |->
               [issued |-> FALSE, exp |-> 0, done |-> FALSE, verified |-> FALSE, token |-> None,
                texp |-> 0, face |-> None, used |-> FALSE, holder |-> None]]
  /\ faces = [f \in Enrolments |-> "absent"]
  /\ faceLock = [f \in Enrolments |-> None]
  /\ scans = [s \in Scans |-> [pc |-> "idle", challenge |-> None, at |-> 0,
                               face |-> None, passed |-> FALSE]]
  /\ enrols = [e \in Enrolments |-> [pc |-> "idle", target |-> None]]
  /\ uses = [u \in Uses |-> [pc |-> "idle", token |-> None, at |-> 0]]
  /\ spent = {}

ScanStep(s) == Analyse(s) \/ MatchFace(s) \/ WriteResult(s)
UseStep(u) == Consume(u) \/ CommitUse(u)
EnrolStep(e) == Revoke(e) \/ InsertFace(e) \/ CommitEnrolment(e)

Next ==
  \/ Tick
  \/ \E c \in Challenges : IssueChallenge(c)
  \/ \E s \in Scans : (\E c \in Challenges : LoadChallenge(s, c)) \/ ScanStep(s) \/ AbandonScan(s)
  \/ \E u \in Uses : PresentToken(u) \/ UseStep(u) \/ RollbackUse(u)
  \/ \E e \in Enrolments : StartRevoke(e) \/ EnrolStep(e) \/ AbandonEnrolment(e)

Spec == Init /\ [][Next]_vars

\* The event loop resumes every coroutine and the database answers it, so a
\* request that has begun takes its next step if nothing blocks it for ever.
FairSpec ==
  /\ Spec
  /\ \A s \in Scans : WF_vars(ScanStep(s))
  /\ \A u \in Uses : WF_vars(UseStep(u))
  /\ \A e \in Enrolments : WF_vars(EnrolStep(e))

-----------------------------------------------------------------------------
TypeOK ==
  /\ now \in Times
  /\ rows \in [Challenges -> Row]
  /\ faces \in [Enrolments -> {"absent", "active", "revoked"}]
  /\ faceLock \in [Enrolments -> Enrolments \cup {None}]
  /\ scans \in [Scans -> Scan]
  /\ enrols \in [Enrolments -> Enrolment]
  /\ uses \in [Uses -> Use]
  /\ spent \subseteq Evidence

\* The inductive invariant of the evidence.
RowsConsistent ==
  \A c \in Challenges :
    /\ rows[c].token # None =>
         /\ scans[rows[c].token].pc = "done"
         /\ scans[rows[c].token].passed
         /\ scans[rows[c].token].challenge = c
         /\ rows[c].texp = scans[rows[c].token].at + TokenTTL
    /\ rows[c].holder # None =>
         /\ rows[c].used
         /\ uses[rows[c].holder].pc = "commit"
         /\ uses[rows[c].holder].token = rows[c].token
         /\ uses[rows[c].holder].at < rows[c].texp

ScansConsistent ==
  \A s \in Scans :
    /\ scans[s].pc # "idle" =>
         /\ scans[s].challenge \in Challenges
         /\ rows[scans[s].challenge].issued
    /\ scans[s].pc \in {"analyse", "match"} \/ scans[s].passed =>
         /\ scans[s].pc # "idle"
         /\ scans[s].at <= rows[scans[s].challenge].exp

UsesConsistent ==
  \A u \in Uses : uses[u].pc \in {"consume", "commit"} => uses[u].token \in Scans

SpentConsistent ==
  \A x \in spent :
    /\ rows[x.challenge].used
    /\ rows[x.challenge].holder = None
    /\ scans[x.token].pc = "done"

EvidenceInv == RowsConsistent /\ ScansConsistent /\ UsesConsistent /\ SpentConsistent

\* The inductive invariant of the enrolments: whoever has inserted a face has
\* passed the index alone and holds every face that is still active.
EnrolInv ==
  /\ \A f \in Enrolments : faceLock[f] # None =>
       f \in Active /\ enrols[faceLock[f]].pc \in {"insert", "commit"}
  /\ \A e \in Enrolments : enrols[e].pc = "commit" =>
       /\ \A f \in Active : faceLock[f] = e
       /\ \A o \in Enrolments : enrols[o].pc = "commit" => o = e

FaceInv == TypeOK /\ EvidenceInv /\ EnrolInv

\* One liveness challenge backs at most one check-in or check-out, however
\* many scans answered it at the same time and whichever tokens they minted.
ChallengeSpentOnce == \A x, y \in spent : x.challenge = y.challenge => x = y

\* Attendance is backed by a scan that matched a face and began while its
\* challenge was open: the evidence is younger than the two lifetimes.
EvidenceIsFresh ==
  \A x \in spent : /\ scans[x.token].passed
                   /\ scans[x.token].challenge = x.challenge
                   /\ x.at < rows[x.challenge].exp + TokenTTL

\* "Only ONE active face enrolment may exist per student."
OneActiveEnrolment == \A f, g \in Active : f = g

\* A re-enrolment that fails or races another never leaves a student who had
\* an active face without one.
EnrolmentStays == [][Active # {} => Active' # {}]_vars

\* What a row has been through, and that a challenge is issued to a face only.
StagesOrdered ==
  \A c \in Challenges :
    /\ rows[c].verified => rows[c].done
    /\ rows[c].done => rows[c].issued
    /\ rows[c].issued => Active # {}
    /\ rows[c].token # None => rows[c].verified

\* A use is shown its token before it spends it, and spends it once.
UsesInOrder ==
  \A u \in Uses : /\ uses[u].at <= now
                  /\ uses[u].pc # "done" => \A x \in spent : x.use # u

\* A face appears when its enrolment ends.
FacesInOrder == \A e \in Enrolments : enrols[e].pc # "done" => faces[e] = "absent"

\* The inductive invariant, beside FaceInv, by which FaceRegister sees no step back.
RegisterInv == StagesOrdered /\ UsesInOrder /\ FacesInOrder

\* What FaceRegister sees.
FaceOf == IF Active = {} THEN None ELSE CHOOSE f \in Active : TRUE
StageOf(c) ==
  IF \E x \in spent : x.challenge = c THEN "spent" ELSE IF rows[c].verified THEN "passed"
  ELSE IF rows[c].done THEN "failed" ELSE IF rows[c].issued THEN "open" ELSE "new"

Register == INSTANCE FaceRegister WITH
  face <- FaceOf, enrolled <- {f \in Enrolments : faces[f] # "absent"},
  stage <- [c \in Challenges |-> StageOf(c)],
  closes <- [c \in Challenges |-> rows[c].exp],
  backed <- {[use |-> x.use, challenge |-> x.challenge, at |-> x.at] : x \in spent}

\* verification_service.py and enrollment_service.py together: columns that are
\* merged, tokens that are replaced and transactions that roll back never take a challenge
\* back a stage, and no enrolment that fails takes the student's face.
ImplementsRegister == Register!Spec

\* The face an attendance record names is the one its scan matched.
EvidenceNamesMatchedFace == \A x \in spent : x.face = scans[x.token].face

\* Every scan, every use of a token and every enrolment that has begun ends.
EveryRequestEnds ==
  /\ \A s \in Scans : scans[s].pc # "idle" ~> scans[s].pc = "done"
  /\ \A u \in Uses : uses[u].pc # "idle" ~> uses[u].pc = "done"
  /\ \A e \in Enrolments : enrols[e].pc # "idle" ~> enrols[e].pc = "done"
=============================================================================
