----------------------- MODULE FaceVerificationProofs -----------------------
(***************************************************************************)
(* Safety of FaceVerification for every number of challenges, scans, uses  *)
(* and enrolments and for all lifetimes.                                   *)
(***************************************************************************)
EXTENDS FaceVerification, TLAPS

USE FaceAssumption

\* Rewriting some columns of a row, or some fields of a request, keeps its type.
LEMMA RowType ==
  ASSUME NEW row \in Row
  PROVE  /\ \A n \in Nat : [row EXCEPT !.issued = TRUE, !.exp = n] \in Row
         /\ \A b \in BOOLEAN, u \in Uses \cup {None} : [row EXCEPT !.used = b, !.holder = u] \in Row
         /\ \A u \in Uses \cup {None} : [row EXCEPT !.holder = u] \in Row
  BY DEF Row

LEMMA CompletedType ==
  ASSUME NEW row \in Row, NEW s \in Scans, scans[s] \in Scan
  PROVE  Completed(row, s) \in Row
<1>1. Answered(row, s) \in Row
  <2> DEFINE face == IF scans[s].face = None THEN row.face ELSE scans[s].face
  <2>1. face \in Face
    BY DEF Row, Scan
  <2>2. Answered(row, s) = [row EXCEPT !.done = TRUE, !.face = face]
    BY DEF Answered
  <2> HIDE DEF face
  <2> QED BY <2>1, <2>2 DEF Row
<1>2. \A seen \in Row, n \in Nat :
        [seen EXCEPT !.verified = TRUE, !.token = s, !.texp = n] \in Row
  BY DEF Row
<1>3. scans[s].at + TokenTTL \in Nat
  BY DEF Scan
<1> QED BY <1>1, <1>2, <1>3 DEF Completed

\* Every variable keeps its type, and a transaction that presents a token
\* presents one that was minted.
LEMMA TypesKept == TypeOK /\ UsesConsistent /\ [Next]_vars => TypeOK' /\ UsesConsistent'
  <1> SUFFICES ASSUME TypeOK, UsesConsistent, [Next]_vars PROVE TypeOK' /\ UsesConsistent'
    OBVIOUS
  <1> USE DEF TypeOK, UsesConsistent
  <1>1. CASE Tick
    BY <1>1 DEF Tick, Times
  <1>2. ASSUME NEW c \in Challenges, IssueChallenge(c) PROVE TypeOK' /\ UsesConsistent'
    <2>1. [rows[c] EXCEPT !.issued = TRUE, !.exp = now + ChallengeTTL] \in Row
      <3>1. rows[c] \in Row /\ now + ChallengeTTL \in Nat
        BY DEF Times
      <3> QED BY <3>1, RowType
    <2> QED BY <1>2, <2>1 DEF IssueChallenge
  <1>3. ASSUME NEW s \in Scans, NEW c \in Challenges, LoadChallenge(s, c)
        PROVE  TypeOK' /\ UsesConsistent'
    <2>1. \A step \in {"write", "analyse"} :
            [scans[s] EXCEPT !.pc = step, !.challenge = c, !.at = now] \in Scan
      <3>1. scans[s] \in Scan /\ now \in Nat
        BY DEF Times
      <3> QED BY <3>1 DEF Scan
    <2> QED BY <1>3, <2>1 DEF LoadChallenge
  <1>4. ASSUME NEW s \in Scans, Analyse(s) PROVE TypeOK' /\ UsesConsistent'
    BY <1>4 DEF Analyse, Scan
  <1>5. ASSUME NEW s \in Scans, MatchFace(s) PROVE TypeOK' /\ UsesConsistent'
    <2>1. /\ [scans[s] EXCEPT !.pc = "write"] \in Scan
          /\ \A f \in Active, robust \in BOOLEAN :
               [scans[s] EXCEPT !.pc = "write", !.face = f, !.passed = robust] \in Scan
      <3>1. scans[s] \in Scan /\ Active \subseteq Face
        BY DEF Face, Active
      <3> QED BY <3>1 DEF Scan
    <2>2. CASE scans' = [scans EXCEPT ![s].pc = "write"]
      BY <1>5, <2>1, <2>2 DEF MatchFace
    <2>3. ASSUME NEW f \in Active, NEW robust \in BOOLEAN,
                 scans' = [scans EXCEPT ![s].pc = "write", ![s].face = f, ![s].passed = robust]
          PROVE  TypeOK' /\ UsesConsistent'
      BY <1>5, <2>1, <2>3 DEF MatchFace
    <2> QED BY <1>5, <2>2, <2>3 DEF MatchFace
  <1>6. ASSUME NEW s \in Scans, WriteResult(s) PROVE TypeOK' /\ UsesConsistent'
    <2>1. scans' \in [Scans -> Scan]
      BY <1>6 DEF WriteResult, Scan
    <2>2. rows' \in [Challenges -> Row]
      BY <1>6, CompletedType DEF WriteResult
    <2> QED BY <1>6, <2>1, <2>2 DEF WriteResult
  <1>7. ASSUME NEW s \in Scans, AbandonScan(s) PROVE TypeOK' /\ UsesConsistent'
    BY <1>7 DEF AbandonScan, Scan
  <1>8. ASSUME NEW u \in Uses, PresentToken(u) PROVE TypeOK' /\ UsesConsistent'
    BY <1>8 DEF PresentToken, Use, Times
  <1>9. ASSUME NEW u \in Uses, Consume(u) PROVE TypeOK' /\ UsesConsistent'
    <2>1. /\ uses[u].pc = "consume"
          /\ \E step \in {"commit", "done"} : uses' = [uses EXCEPT ![u].pc = step]
      BY <1>9 DEF Consume
    <2>2. uses' \in [Uses -> Use] /\ UsesConsistent'
      BY <2>1 DEF Use
    <2>3. CASE UNCHANGED rows
      BY <1>9, <2>2, <2>3 DEF Consume
    <2>4. ASSUME NEW c \in Challenges, rows' = [rows EXCEPT ![c].used = TRUE, ![c].holder = u]
          PROVE  rows' \in [Challenges -> Row]
      <3>1. [rows[c] EXCEPT !.used = TRUE, !.holder = u] \in Row
        BY RowType
      <3> QED BY <2>4, <3>1
    <2> QED BY <1>9, <2>2, <2>3, <2>4 DEF Consume
  <1>10. ASSUME NEW u \in Uses, CommitUse(u) PROVE TypeOK' /\ UsesConsistent'
    <2>1. uses' \in [Uses -> Use] /\ UsesConsistent'
      BY <1>10 DEF CommitUse, Use
    <2>2. rows' \in [Challenges -> Row]
      <3>1. PICK c \in Challenges : rows' = [rows EXCEPT ![c].holder = None]
        BY <1>10 DEF CommitUse
      <3> QED BY <3>1, RowType
    <2>3. \A c \in Challenges :
            [use |-> u, challenge |-> c, token |-> uses[u].token,
             face |-> rows[c].face, at |-> uses[u].at] \in Evidence
      BY <1>10 DEF CommitUse, Use, Row, Evidence
    <2> QED BY <1>10, <2>1, <2>2, <2>3 DEF CommitUse
  <1>11. ASSUME NEW u \in Uses, RollbackUse(u) PROVE TypeOK' /\ UsesConsistent'
    <2>1. uses' \in [Uses -> Use] /\ UsesConsistent'
      BY <1>11 DEF RollbackUse, Use
    <2>2. rows' \in [Challenges -> Row]
      BY <1>11, RowType DEF RollbackUse
    <2> QED BY <1>11, <2>1, <2>2 DEF RollbackUse
  <1>12. ASSUME NEW e \in Enrolments, StartRevoke(e) PROVE TypeOK' /\ UsesConsistent'
    BY <1>12 DEF StartRevoke, Enrolment, Face, Active
  <1>13. ASSUME NEW e \in Enrolments, Revoke(e) PROVE TypeOK' /\ UsesConsistent'
    BY <1>13 DEF Revoke, Enrolment, Active
  <1>14. ASSUME NEW e \in Enrolments, InsertFace(e) PROVE TypeOK' /\ UsesConsistent'
    BY <1>14 DEF InsertFace, Enrolment, Unlocked
  <1>15. ASSUME NEW e \in Enrolments, CommitEnrolment(e) PROVE TypeOK' /\ UsesConsistent'
    BY <1>15 DEF CommitEnrolment, Enrolment, Unlocked
  <1>16. ASSUME NEW e \in Enrolments, AbandonEnrolment(e) PROVE TypeOK' /\ UsesConsistent'
    BY <1>16 DEF AbandonEnrolment, Enrolment, Unlocked
  <1>17. CASE UNCHANGED vars
    BY <1>17 DEF vars
  <1> QED BY <1>1, <1>2, <1>3, <1>4, <1>5, <1>6, <1>7, <1>8, <1>9, <1>10, <1>11, <1>12,
             <1>13, <1>14, <1>15, <1>16, <1>17 DEF Next, ScanStep, UseStep, EnrolStep

THEOREM TypeCorrect == Spec => [](TypeOK /\ UsesConsistent)
<1>1. Init => TypeOK /\ UsesConsistent
  BY DEF Init, TypeOK, UsesConsistent, Row, Scan, Enrolment, Use, Evidence, Face, Times
<1> QED BY <1>1, TypesKept, PTL DEF Spec

-----------------------------------------------------------------------------
SpentInv == EvidenceInv /\ EvidenceIsFresh /\ ChallengeSpentOnce

\* Steps that leave challenges, scans, uses and evidence alone.
LEMMA OthersKeepEvidence ==
  ASSUME SpentInv, UNCHANGED <<rows, scans, uses, spent>>
  PROVE  SpentInv'
  BY DEF SpentInv, EvidenceInv, RowsConsistent, ScansConsistent, UsesConsistent,
         SpentConsistent, EvidenceIsFresh, ChallengeSpentOnce

LEMMA IssueKeepsEvidence ==
  ASSUME TypeOK, SpentInv, NEW c \in Challenges, IssueChallenge(c)
  PROVE  SpentInv'
<1>1. /\ \A d \in Challenges : /\ rows'[d].done = rows[d].done
                               /\ rows'[d].token = rows[d].token
                               /\ rows'[d].texp = rows[d].texp
                               /\ rows'[d].used = rows[d].used
                               /\ rows'[d].holder = rows[d].holder
                               /\ rows[d].issued => rows'[d] = rows[d]
      /\ UNCHANGED <<scans, uses, spent>>
  BY DEF IssueChallenge, TypeOK, Row
<1>2. RowsConsistent' /\ ScansConsistent' /\ UsesConsistent' /\ SpentConsistent'
  BY <1>1 DEF SpentInv, EvidenceInv, RowsConsistent, ScansConsistent, UsesConsistent,
              SpentConsistent, TypeOK, Scan, Evidence
<1>3. \A x \in spent : rows[x.challenge].issued
  BY DEF SpentInv, EvidenceInv, SpentConsistent, ScansConsistent, EvidenceIsFresh, TypeOK, Evidence
<1>4. EvidenceIsFresh' /\ ChallengeSpentOnce'
  BY <1>1, <1>3 DEF SpentInv, EvidenceIsFresh, ChallengeSpentOnce, TypeOK, Evidence
<1> QED BY <1>2, <1>4 DEF SpentInv, EvidenceInv

\* A scan that has not ended moves on.
LEMMA ScanMovesOn ==
  ASSUME TypeOK, SpentInv, NEW s \in Scans, scans[s].pc # "done", NEW scan \in Scan,
         scans' = [scans EXCEPT ![s] = scan], UNCHANGED <<rows, uses, spent>>,
         scan.pc # "idle", scan.challenge \in Challenges, rows[scan.challenge].issued,
         scan.pc \in {"analyse", "match"} \/ scan.passed => scan.at <= rows[scan.challenge].exp
  PROVE  SpentInv'
<1>1. RowsConsistent'
  BY DEF SpentInv, EvidenceInv, RowsConsistent, TypeOK, Row
<1>2. ScansConsistent'
  BY DEF SpentInv, EvidenceInv, ScansConsistent, TypeOK
<1>3. UsesConsistent' /\ SpentConsistent' /\ EvidenceIsFresh' /\ ChallengeSpentOnce'
  BY DEF SpentInv, EvidenceInv, UsesConsistent, SpentConsistent, EvidenceIsFresh,
         ChallengeSpentOnce, TypeOK, Evidence
<1> QED BY <1>1, <1>2, <1>3 DEF SpentInv, EvidenceInv

LEMMA ScansKeepEvidence ==
  ASSUME TypeOK, TypeOK', SpentInv, NEW s \in Scans,
         (\E c \in Challenges : LoadChallenge(s, c)) \/ Analyse(s) \/ MatchFace(s) \/ AbandonScan(s)
  PROVE  SpentInv'
<1>1. scans'[s] \in Scan /\ scans[s] \in Scan
  BY DEF TypeOK
<1>2. /\ scans[s].pc # "done"
      /\ scans' = [scans EXCEPT ![s] = scans'[s]]
      /\ UNCHANGED <<rows, uses, spent>>
  BY <1>1 DEF LoadChallenge, Analyse, MatchFace, AbandonScan, TypeOK
<1> DEFINE InTime == /\ scans'[s].pc # "idle"
                     /\ scans'[s].challenge \in Challenges
                     /\ rows[scans'[s].challenge].issued
                     /\ scans'[s].pc \in {"analyse", "match"} \/ scans'[s].passed
                          => scans'[s].at <= rows[scans'[s].challenge].exp
<1>3. InTime
  <2>1. ASSUME NEW c \in Challenges, LoadChallenge(s, c) PROVE InTime
    <3>1. /\ scans'[s].pc = (IF rows[c].exp < now THEN "write" ELSE "analyse")
          /\ scans'[s].challenge = c
          /\ scans'[s].at = now
          /\ scans'[s].passed = scans[s].passed
      BY <2>1, <1>1 DEF LoadChallenge, TypeOK, Scan
    <3>2. ~scans[s].passed /\ rows[c].issued
      BY <2>1 DEF LoadChallenge, SpentInv, EvidenceInv, ScansConsistent
    <3>3. now \in Nat /\ rows[c].exp \in Nat
      BY DEF TypeOK, Times, Row
    <3> QED BY <3>1, <3>2, <3>3
  <2>2. CASE Analyse(s)
    BY <2>2, <1>1 DEF Analyse, TypeOK, Scan, SpentInv, EvidenceInv, ScansConsistent
  <2>3. CASE MatchFace(s)
    <3>1. /\ scans'[s].pc = "write"
          /\ scans'[s].challenge = scans[s].challenge
          /\ scans'[s].at = scans[s].at
      <4>1. CASE scans' = [scans EXCEPT ![s].pc = "write"]
        BY <4>1, <1>1 DEF TypeOK, Scan
      <4>2. ASSUME NEW f \in Active, NEW robust \in BOOLEAN,
                   scans' = [scans EXCEPT ![s].pc = "write", ![s].face = f, ![s].passed = robust]
            PROVE  /\ scans'[s].pc = "write"
                   /\ scans'[s].challenge = scans[s].challenge
                   /\ scans'[s].at = scans[s].at
        BY <4>2, <1>1 DEF TypeOK, Scan
      <4> QED BY <2>3, <4>1, <4>2 DEF MatchFace
    <3>2. scans[s].pc = "match"
      BY <2>3 DEF MatchFace
    <3> QED BY <3>1, <3>2 DEF SpentInv, EvidenceInv, ScansConsistent
  <2>4. CASE AbandonScan(s)
    BY <2>4, <1>1 DEF AbandonScan, TypeOK, Scan, SpentInv, EvidenceInv, ScansConsistent
  <2> QED BY <2>1, <2>2, <2>3, <2>4
<1> HIDE DEF Scan
<1> QED BY <1>1, <1>2, <1>3, ScanMovesOn

LEMMA WriteKeepsEvidence ==
  ASSUME TypeOK, TypeOK', SpentInv, NEW s \in Scans, WriteResult(s)
  PROVE  SpentInv'
<1> DEFINE c == scans[s].challenge
<1>1. /\ c \in Challenges
      /\ scans[s].pc = "write"
      /\ rows[c].holder = None
      /\ rows' = [rows EXCEPT ![c] = Completed(rows[c], s)]
      /\ UNCHANGED <<uses, spent>>
  BY DEF WriteResult, SpentInv, EvidenceInv, ScansConsistent
<1>2. /\ \A t \in Scans : /\ scans'[t].challenge = scans[t].challenge
                          /\ scans'[t].at = scans[t].at
                          /\ scans'[t].passed = scans[t].passed
                          /\ t # s => scans'[t].pc = scans[t].pc
      /\ scans'[s].pc = "done"
  BY DEF WriteResult, TypeOK, Scan
<1>3. LET new == Completed(rows[c], s) IN
        /\ new.issued = rows[c].issued
        /\ new.exp = rows[c].exp
        /\ new.used = rows[c].used
        /\ new.holder = None
        /\ \/ new.token = rows[c].token /\ new.texp = rows[c].texp
           \/ new.token = s /\ scans[s].passed /\ new.texp = scans[s].at + TokenTTL
  <2>1. rows[c] \in Row
    BY <1>1 DEF TypeOK
  <2> QED BY <1>1, <2>1 DEF Completed, Answered, Row
<1>4. \A d \in Challenges : /\ rows'[d].issued = rows[d].issued
                            /\ rows'[d].exp = rows[d].exp
                            /\ rows'[d].used = rows[d].used
                            /\ rows'[d].holder = rows[d].holder
                            /\ d # c => rows'[d] = rows[d]
  BY <1>1, <1>3 DEF TypeOK
<1>5. RowsConsistent'
  <2>1. ASSUME NEW d \in Challenges, d # c PROVE RowsConsistent!(d)'
    BY <1>1, <1>2, <1>4, <2>1 DEF SpentInv, EvidenceInv, RowsConsistent, TypeOK, Row
  <2>2. RowsConsistent!(c)'
    BY <1>1, <1>2, <1>3 DEF SpentInv, EvidenceInv, RowsConsistent, TypeOK, Row
  <2> QED BY <1>2, <2>1, <2>2 DEF RowsConsistent
<1>6. ScansConsistent'
  BY <1>1, <1>2, <1>4 DEF SpentInv, EvidenceInv, ScansConsistent
<1>7. UsesConsistent' /\ SpentConsistent' /\ EvidenceIsFresh' /\ ChallengeSpentOnce'
  BY <1>1, <1>2, <1>4 DEF SpentInv, EvidenceInv, UsesConsistent, SpentConsistent,
     EvidenceIsFresh, ChallengeSpentOnce, TypeOK, Evidence
<1> QED BY <1>5, <1>6, <1>7 DEF SpentInv, EvidenceInv

-----------------------------------------------------------------------------
\* A transaction that holds a row holds one row.
LEMMA HoldsOneRow ==
  ASSUME TypeOK, SpentInv, NEW u \in Uses,
         NEW c \in Challenges, rows[c].holder = u, NEW d \in Challenges, rows[d].holder = u
  PROVE  c = d
<1>1. u # None /\ None \notin Scans
  OBVIOUS
<1>2. uses[u].token \in Scans /\ rows[c].token = uses[u].token /\ rows[d].token = uses[u].token
  BY <1>1 DEF SpentInv, EvidenceInv, RowsConsistent, UsesConsistent
<1> QED BY <1>1, <1>2 DEF SpentInv, EvidenceInv, RowsConsistent

\* A use that holds no row moves on.
LEMMA UseMovesOn ==
  ASSUME TypeOK, SpentInv, NEW u \in Uses, \A c \in Challenges : rows[c].holder # u,
         NEW use \in Use, uses' = [uses EXCEPT ![u] = use],
         use.pc \in {"consume", "commit"} => use.token \in Scans,
         UNCHANGED <<rows, scans, spent>>
  PROVE  SpentInv'
<1>1. RowsConsistent'
  BY DEF SpentInv, EvidenceInv, RowsConsistent, TypeOK, Row
<1> QED BY <1>1 DEF SpentInv, EvidenceInv, ScansConsistent, UsesConsistent, SpentConsistent,
                    EvidenceIsFresh, ChallengeSpentOnce, TypeOK

LEMMA PresentKeepsEvidence ==
  ASSUME TypeOK, TypeOK', SpentInv, NEW u \in Uses, PresentToken(u)
  PROVE  SpentInv'
<1>1. PICK s \in Scans : uses' = [uses EXCEPT ![u] = [pc |-> "consume", token |-> s, at |-> now]]
  BY DEF PresentToken
<1>2. \A c \in Challenges : rows[c].holder # u
  BY DEF PresentToken, SpentInv, EvidenceInv, RowsConsistent
<1>3. [pc |-> "consume", token |-> s, at |-> now] \in Use
  BY DEF Use, TypeOK, Times
<1>4. UNCHANGED <<rows, scans, spent>>
  BY DEF PresentToken
<1> HIDE DEF Use
<1> QED BY <1>1, <1>2, <1>3, <1>4, UseMovesOn

LEMMA ConsumeKeepsEvidence ==
  ASSUME TypeOK, TypeOK', SpentInv, NEW u \in Uses, Consume(u)
  PROVE  SpentInv'
<1>1. \A c \in Challenges : rows[c].holder # u
  BY DEF Consume, SpentInv, EvidenceInv, RowsConsistent
<1>2. uses[u] \in Use /\ uses[u].token \in Scans /\ uses[u].token # None
  BY DEF Consume, TypeOK, SpentInv, EvidenceInv, UsesConsistent
<1>3. CASE uses' = [uses EXCEPT ![u].pc = "done"] /\ UNCHANGED rows
  <2>1. [uses[u] EXCEPT !.pc = "done"] \in Use
    BY <1>2 DEF Use
  <2>2. uses' = [uses EXCEPT ![u] = [uses[u] EXCEPT !.pc = "done"]]
    BY <1>3
  <2>3. UNCHANGED <<scans, spent>>
    BY DEF Consume
  <2>4. [uses[u] EXCEPT !.pc = "done"].pc = "done"
    BY <1>2 DEF Use
  <2> QED BY <1>1, <1>3, <2>1, <2>2, <2>3, <2>4, UseMovesOn
<1>4. ASSUME NEW c \in Challenges, Usable(c, u),
             rows' = [rows EXCEPT ![c].used = TRUE, ![c].holder = u],
             uses' = [uses EXCEPT ![u].pc = "commit"]
      PROVE  SpentInv'
  <2>1. /\ rows[c].holder = None
        /\ ~rows[c].used
        /\ rows[c].token = uses[u].token
        /\ uses[u].at < rows[c].texp
    BY <1>4, <1>2 DEF Consume, Usable, TypeOK, Row, Use
  <2>2. \A d \in Challenges : /\ rows'[d].issued = rows[d].issued
                              /\ rows'[d].exp = rows[d].exp
                              /\ rows'[d].token = rows[d].token
                              /\ rows'[d].texp = rows[d].texp
                              /\ d # c => rows'[d] = rows[d]
    BY <1>4 DEF TypeOK, Row
  <2>3. rows'[c].used /\ rows'[c].holder = u
    BY <1>4 DEF TypeOK, Row
  <2>4. /\ uses'[u].pc = "commit"
        /\ \A v \in Uses : /\ uses'[v].token = uses[v].token
                           /\ uses'[v].at = uses[v].at
                           /\ v # u => uses'[v] = uses[v]
    BY <1>4 DEF TypeOK, Use
  <2>5. UNCHANGED <<scans, spent>>
    BY DEF Consume
  <2>6. RowsConsistent'
    <3>1. ASSUME NEW d \in Challenges, d # c PROVE RowsConsistent!(d)'
      BY <1>1, <2>2, <2>4, <2>5, <3>1 DEF SpentInv, EvidenceInv, RowsConsistent, TypeOK, Row
    <3>2. RowsConsistent!(c)'
      BY <1>2, <2>1, <2>2, <2>3, <2>4, <2>5 DEF SpentInv, EvidenceInv, RowsConsistent, TypeOK, Row
    <3> QED BY <3>1, <3>2 DEF RowsConsistent
  <2>7. ScansConsistent'
    BY <2>2, <2>5 DEF SpentInv, EvidenceInv, ScansConsistent
  <2>8. UsesConsistent'
    BY <1>2, <2>4 DEF SpentInv, EvidenceInv, UsesConsistent
  <2>9. SpentConsistent'
    BY <2>1, <2>2, <2>5 DEF SpentInv, EvidenceInv, SpentConsistent, TypeOK, Evidence
  <2>10. EvidenceIsFresh' /\ ChallengeSpentOnce'
    BY <2>2, <2>5 DEF SpentInv, EvidenceIsFresh, ChallengeSpentOnce, TypeOK, Evidence
  <2> QED BY <2>6, <2>7, <2>8, <2>9, <2>10 DEF SpentInv, EvidenceInv
<1> QED BY <1>3, <1>4 DEF Consume

LEMMA CommitKeepsEvidence ==
  ASSUME TypeOK, TypeOK', SpentInv, NEW u \in Uses, CommitUse(u)
  PROVE  SpentInv'
<1>1. PICK c \in Challenges :
        /\ rows[c].holder = u
        /\ rows' = [rows EXCEPT ![c].holder = None]
        /\ spent' = spent \cup {[use |-> u, challenge |-> c, token |-> uses[u].token,
                                 face |-> rows[c].face, at |-> uses[u].at]}
  BY DEF CommitUse
<1> DEFINE new == [use |-> u, challenge |-> c, token |-> uses[u].token,
                   face |-> rows[c].face, at |-> uses[u].at]
<1>2. /\ rows[c].used
      /\ uses[u].token \in Scans
      /\ rows[c].token = uses[u].token
      /\ uses[u].at < rows[c].texp
      /\ scans[uses[u].token].pc = "done"
      /\ scans[uses[u].token].passed
      /\ scans[uses[u].token].challenge = c
      /\ rows[c].texp = scans[uses[u].token].at + TokenTTL
      /\ scans[uses[u].token].at <= rows[c].exp
  <2>1. uses[u].pc = "commit" /\ uses[u].token \in Scans /\ u # None
    BY DEF CommitUse, SpentInv, EvidenceInv, UsesConsistent
  <2>2. rows[c].used /\ rows[c].token = uses[u].token /\ uses[u].at < rows[c].texp
    BY <1>1, <2>1 DEF SpentInv, EvidenceInv, RowsConsistent
  <2> QED BY <2>1, <2>2 DEF SpentInv, EvidenceInv, RowsConsistent, ScansConsistent
<1>3. /\ \A d \in Challenges : /\ rows'[d].issued = rows[d].issued
                               /\ rows'[d].exp = rows[d].exp
                               /\ rows'[d].token = rows[d].token
                               /\ rows'[d].texp = rows[d].texp
                               /\ rows'[d].used = rows[d].used
                               /\ d # c => rows'[d] = rows[d]
      /\ rows'[c].holder = None
  BY <1>1 DEF TypeOK, Row
<1>4. /\ UNCHANGED scans
      /\ uses'[u].pc = "done"
      /\ \A v \in Uses : v # u => uses'[v] = uses[v]
  BY DEF CommitUse, TypeOK, Use
<1>5. RowsConsistent'
  <2>1. ASSUME NEW d \in Challenges, d # c PROVE RowsConsistent!(d)'
    <3>1. rows[d].holder # u
      BY <1>1, <2>1, HoldsOneRow
    <3> QED BY <1>3, <1>4, <2>1, <3>1 DEF SpentInv, EvidenceInv, RowsConsistent, TypeOK, Row
  <2>2. RowsConsistent!(c)'
    BY <1>3, <1>4 DEF SpentInv, EvidenceInv, RowsConsistent
  <2> QED BY <2>1, <2>2 DEF RowsConsistent
<1>6. ScansConsistent' /\ UsesConsistent'
  BY <1>3, <1>4 DEF SpentInv, EvidenceInv, ScansConsistent, UsesConsistent
<1>7. SpentConsistent'
  BY <1>1, <1>2, <1>3, <1>4 DEF SpentInv, EvidenceInv, SpentConsistent, TypeOK, Evidence
<1>8. EvidenceIsFresh'
  <2>1. ASSUME NEW x \in spent PROVE EvidenceIsFresh!(x)'
    BY <1>3, <1>4 DEF SpentInv, EvidenceIsFresh, TypeOK, Evidence
  <2>2. new.at < rows'[c].exp + TokenTTL
    <3>1. /\ uses[u].at \in Nat /\ rows[c].texp \in Nat /\ rows[c].exp \in Nat
          /\ scans[uses[u].token].at \in Nat
      BY <1>2 DEF TypeOK, Use, Row, Scan
    <3> QED BY <1>2, <1>3, <3>1
  <2> QED BY <1>1, <1>2, <1>4, <2>1, <2>2 DEF EvidenceIsFresh
<1>9. ChallengeSpentOnce'
  <2>1. \A x \in spent : x.challenge # c
    BY <1>1 DEF SpentInv, EvidenceInv, SpentConsistent
  <2> QED BY <1>1, <2>1 DEF SpentInv, ChallengeSpentOnce
<1> QED BY <1>5, <1>6, <1>7, <1>8, <1>9 DEF SpentInv, EvidenceInv

LEMMA RollbackKeepsEvidence ==
  ASSUME TypeOK, TypeOK', SpentInv, NEW u \in Uses, RollbackUse(u)
  PROVE  SpentInv'
<1>1. /\ \A d \in Challenges : /\ rows'[d].issued = rows[d].issued
                               /\ rows'[d].exp = rows[d].exp
                               /\ rows'[d].token = rows[d].token
                               /\ rows'[d].texp = rows[d].texp
                               /\ rows'[d].holder # u
                               /\ rows[d].holder = u => rows'[d].holder = None
                               /\ rows[d].holder # u => rows'[d] = rows[d]
      /\ uses'[u].pc = "done"
      /\ \A v \in Uses : v # u => uses'[v] = uses[v]
      /\ UNCHANGED <<scans, spent>>
  <2>1. ASSUME NEW d \in Challenges, rows[d].holder = u
        PROVE  /\ rows'[d] = [rows[d] EXCEPT !.used = FALSE, !.holder = None]
               /\ rows[d] \in Row /\ u # None
    BY <2>1 DEF RollbackUse, TypeOK
  <2>2. ASSUME NEW d \in Challenges, rows[d].holder # u PROVE rows'[d] = rows[d]
    BY <2>2 DEF RollbackUse
  <2>3. /\ uses'[u].pc = "done"
        /\ \A v \in Uses : v # u => uses'[v] = uses[v]
        /\ UNCHANGED <<scans, spent>>
    BY DEF RollbackUse, TypeOK, Use
  <2> QED BY <2>1, <2>2, <2>3 DEF Row
<1>2. RowsConsistent'
  <2>1. ASSUME NEW d \in Challenges, rows[d].holder # u PROVE RowsConsistent!(d)'
    BY <1>1, <2>1 DEF SpentInv, EvidenceInv, RowsConsistent, TypeOK, Row
  <2>2. ASSUME NEW d \in Challenges, rows[d].holder = u PROVE RowsConsistent!(d)'
    BY <1>1, <2>2 DEF SpentInv, EvidenceInv, RowsConsistent
  <2> QED BY <2>1, <2>2 DEF RowsConsistent
<1>3. ScansConsistent' /\ UsesConsistent'
  BY <1>1 DEF SpentInv, EvidenceInv, ScansConsistent, UsesConsistent
<1>4. SpentConsistent'
  BY <1>1 DEF SpentInv, EvidenceInv, SpentConsistent, TypeOK, Evidence
<1>5. EvidenceIsFresh' /\ ChallengeSpentOnce'
  BY <1>1 DEF SpentInv, EvidenceIsFresh, ChallengeSpentOnce, TypeOK, Evidence
<1> QED BY <1>2, <1>3, <1>4, <1>5 DEF SpentInv, EvidenceInv

LEMMA SpentInvKept == TypeOK /\ TypeOK' /\ SpentInv /\ [Next]_vars => SpentInv'
<1> SUFFICES ASSUME TypeOK, TypeOK', SpentInv, [Next]_vars PROVE SpentInv'
  OBVIOUS
<1>1. CASE Tick \/ \E e \in Enrolments : StartRevoke(e) \/ EnrolStep(e) \/ AbandonEnrolment(e)
  BY <1>1, OthersKeepEvidence
     DEF Tick, StartRevoke, EnrolStep, Revoke, InsertFace, CommitEnrolment, AbandonEnrolment
<1>2. CASE \E c \in Challenges : IssueChallenge(c)
  BY <1>2, IssueKeepsEvidence
<1>3. CASE \E s \in Scans : \/ \E c \in Challenges : LoadChallenge(s, c)
                           \/ ScanStep(s) \/ AbandonScan(s)
  BY <1>3, ScansKeepEvidence, WriteKeepsEvidence DEF ScanStep
<1>4. CASE \E u \in Uses : PresentToken(u) \/ UseStep(u) \/ RollbackUse(u)
  BY <1>4, PresentKeepsEvidence, ConsumeKeepsEvidence, CommitKeepsEvidence,
     RollbackKeepsEvidence DEF UseStep
<1>5. CASE UNCHANGED vars
  BY <1>5, OthersKeepEvidence DEF vars
<1> QED BY <1>1, <1>2, <1>3, <1>4, <1>5 DEF Next

\* The inductive invariant of the evidence: the holder of a row presented the
\* token that is in it, and spent evidence keeps its row used.
THEOREM EvidenceInvariant == Spec => []SpentInv
<1>1. Init => SpentInv
  BY DEF Init, SpentInv, EvidenceInv, RowsConsistent, ScansConsistent, UsesConsistent,
         SpentConsistent, EvidenceIsFresh, ChallengeSpentOnce
<1> QED BY <1>1, SpentInvKept, TypeCorrect, PTL DEF Spec

\* One liveness challenge backs one attendance event, for any number of scans
\* that answer it at the same time and tokens they mint.
THEOREM ChallengesAreSpentOnce == Spec => []ChallengeSpentOnce
<1>1. SpentInv => ChallengeSpentOnce
  BY DEF SpentInv
<1> QED BY <1>1, EvidenceInvariant, PTL

\* Attendance rests on a scan that matched and that began before its challenge
\* expired, for all lifetimes.
THEOREM EvidenceStaysFresh == Spec => []EvidenceIsFresh
<1>1. SpentInv => EvidenceIsFresh
  BY DEF SpentInv
<1> QED BY <1>1, EvidenceInvariant, PTL

-----------------------------------------------------------------------------
\* Steps of the evidence leave the enrolments alone.
LEMMA OthersKeepEnrolments ==
  ASSUME EnrolInv, UNCHANGED <<faces, faceLock, enrols>>
  PROVE  EnrolInv' /\ Active' = Active
  BY DEF EnrolInv, Active

LEMMA EnrolInvKept ==
  ASSUME TypeOK, EnrolInv, OneActiveEnrolment, [Next]_vars
  PROVE  EnrolInv' /\ OneActiveEnrolment' /\ (Active # {} => Active' # {})
<1>1. ASSUME NEW e \in Enrolments, StartRevoke(e)
      PROVE  EnrolInv' /\ OneActiveEnrolment' /\ (Active # {} => Active' # {})
  BY <1>1 DEF StartRevoke, EnrolInv, OneActiveEnrolment, Active, TypeOK, Enrolment
<1>2. ASSUME NEW e \in Enrolments, Revoke(e)
      PROVE  EnrolInv' /\ OneActiveEnrolment' /\ (Active # {} => Active' # {})
  BY <1>2 DEF Revoke, EnrolInv, OneActiveEnrolment, Active, TypeOK, Enrolment
<1>3. ASSUME NEW e \in Enrolments, InsertFace(e)
      PROVE  EnrolInv' /\ OneActiveEnrolment' /\ (Active # {} => Active' # {})
  BY <1>3 DEF InsertFace, IndexBusy, IndexConflict, Unlocked, EnrolInv, OneActiveEnrolment,
              Active, TypeOK, Enrolment
<1>4. ASSUME NEW e \in Enrolments, CommitEnrolment(e)
      PROVE  EnrolInv' /\ OneActiveEnrolment' /\ (Active # {} => Active' # {})
  BY <1>4 DEF CommitEnrolment, Unlocked, EnrolInv, OneActiveEnrolment, Active, TypeOK, Enrolment
<1>5. ASSUME NEW e \in Enrolments, AbandonEnrolment(e)
      PROVE  EnrolInv' /\ OneActiveEnrolment' /\ (Active # {} => Active' # {})
  BY <1>5 DEF AbandonEnrolment, Unlocked, EnrolInv, OneActiveEnrolment, Active, TypeOK, Enrolment
<1>6. CASE UNCHANGED <<faces, faceLock, enrols>>
  BY <1>6, OthersKeepEnrolments DEF OneActiveEnrolment
<1> QED BY <1>1, <1>2, <1>3, <1>4, <1>5, <1>6
       DEF Next, vars, Tick, IssueChallenge, LoadChallenge, ScanStep, Analyse, MatchFace,
           WriteResult, AbandonScan, PresentToken, UseStep, Consume, CommitUse, RollbackUse,
           EnrolStep

\* The inductive invariant of the enrolments with the index it serves.
THEOREM EnrolmentInvariant == Spec => [](EnrolInv /\ OneActiveEnrolment)
<1>1. Init => EnrolInv /\ OneActiveEnrolment
  BY DEF Init, EnrolInv, OneActiveEnrolment, Active
<1>2. TypeOK /\ EnrolInv /\ OneActiveEnrolment /\ [Next]_vars
        => EnrolInv' /\ OneActiveEnrolment'
  BY EnrolInvKept
<1> QED BY <1>1, <1>2, TypeCorrect, PTL DEF Spec

\* The three invariants of the runs at once: types, evidence and enrolments.
THEOREM FaceInvariant == Spec => []FaceInv
<1>1. TypeOK /\ SpentInv /\ EnrolInv => FaceInv
  BY DEF SpentInv, FaceInv
<1> QED BY <1>1, TypeCorrect, EvidenceInvariant, EnrolmentInvariant, PTL

\* A student never has two active faces, for any number of enrolments that race.
THEOREM OneFaceIsActive == Spec => []OneActiveEnrolment
  BY EnrolmentInvariant, PTL

\* A student who has an active face never loses it.
THEOREM EnrolmentsStay == Spec => EnrolmentStays
<1>1. TypeOK /\ EnrolInv /\ OneActiveEnrolment /\ [Next]_vars
        => [Active # {} => Active' # {}]_vars
  BY EnrolInvKept
<1> QED BY <1>1, TypeCorrect, EnrolmentInvariant, PTL DEF Spec, EnrolmentStays

-----------------------------------------------------------------------------
(* FaceVerification implements FaceRegister.                               *)

Stages == [c \in Challenges |-> StageOf(c)]
Closes == [c \in Challenges |-> rows[c].exp]
Enrolled == {f \in Enrolments : faces[f] # "absent"}
Backed == {[use |-> x.use, challenge |-> x.challenge, at |-> x.at] : x \in spent}

\* The columns of a row a stage depends on.
Keeps(c) ==
  /\ rows'[c].issued = rows[c].issued /\ rows'[c].done = rows[c].done
  /\ rows'[c].verified = rows[c].verified /\ rows'[c].token = rows[c].token
  /\ rows'[c].exp = rows[c].exp

\* What using a token does to a row, or undoing it, is no stage.
LEMMA UsesKeepRows ==
  ASSUME TypeOK, NEW u \in Uses, Consume(u) \/ CommitUse(u) \/ RollbackUse(u)
  PROVE  \A c \in Challenges : Keeps(c)
<1>1. CASE Consume(u)
  <2>1. CASE UNCHANGED rows
    BY <2>1 DEF Keeps
  <2>2. ASSUME NEW d \in Challenges, rows' = [rows EXCEPT ![d].used = TRUE, ![d].holder = u]
        PROVE  \A c \in Challenges : Keeps(c)
    BY <2>2 DEF TypeOK, Row, Keeps
  <2>3. \/ UNCHANGED rows
        \/ \E d \in Challenges : rows' = [rows EXCEPT ![d].used = TRUE, ![d].holder = u]
    BY <1>1 DEF Consume
  <2> QED BY <2>1, <2>2, <2>3
<1>2. CASE CommitUse(u)
  BY <1>2 DEF CommitUse, TypeOK, Row, Keeps
<1>3. CASE RollbackUse(u)
  <2> SUFFICES ASSUME NEW c \in Challenges
               PROVE  Keeps(c)
    OBVIOUS
  <2>1. CASE rows[c].holder = u
    <3>1. rows'[c] = [rows[c] EXCEPT !.used = FALSE, !.holder = None]
      BY <1>3, <2>1 DEF RollbackUse
    <3>2. rows[c] \in Row
      BY DEF TypeOK
    <3> QED BY <3>1, <3>2 DEF Row, Keeps
  <2>2. CASE rows[c].holder # u
    BY <1>3, <2>2 DEF RollbackUse, Keeps
  <2> QED BY <2>1, <2>2
<1> QED BY <1>1, <1>2, <1>3

\* What a scan writes into the row of its challenge.
LEMMA ScanWrites ==
  ASSUME TypeOK, SpentInv, NEW s \in Scans, WriteResult(s)
  PROVE  LET c == scans[s].challenge IN
           /\ c \in Challenges /\ rows[c].issued
           /\ \A d \in Challenges \ {c} : rows'[d] = rows[d]
           /\ rows'[c].done /\ rows'[c].issued /\ rows'[c].exp = rows[c].exp
           /\ IF scans[s].passed THEN rows'[c].verified
              ELSE rows'[c].verified = rows[c].verified /\ rows'[c].token = rows[c].token
<1> DEFINE c == scans[s].challenge
<1>1. c \in Challenges /\ rows[c].issued
  BY DEF WriteResult, SpentInv, EvidenceInv, ScansConsistent
<1>2. rows' = [rows EXCEPT ![c] = Completed(rows[c], s)] /\ rows[c] \in Row
  BY <1>1 DEF WriteResult, TypeOK
<1>3. LET new == Completed(rows[c], s) IN
        /\ new.done /\ new.issued = rows[c].issued /\ new.exp = rows[c].exp
        /\ IF scans[s].passed THEN new.verified
           ELSE new.verified = rows[c].verified /\ new.token = rows[c].token
  BY <1>2 DEF Completed, Answered, Row
<1> QED BY <1>1, <1>2, <1>3 DEF TypeOK

\* Any step but the four that write what StagesOrdered, UsesInOrder and
\* FacesInOrder speak of.
LEMMA StagesKept ==
  ASSUME StagesOrdered, \A c \in Challenges : Keeps(c), Active # {} => Active' # {}
  PROVE  StagesOrdered'
  BY DEF StagesOrdered, Keeps

LEMMA StagesOrderedStep ==
  ASSUME TypeOK, SpentInv, EnrolInv, OneActiveEnrolment, StagesOrdered, [Next]_vars
  PROVE  StagesOrdered'
<1>0. Active # {} => Active' # {}
  BY EnrolInvKept
<1>1. ASSUME NEW c \in Challenges, IssueChallenge(c)
      PROVE  StagesOrdered'
  <2>1. \A d \in Challenges : /\ rows'[d].done = rows[d].done
                              /\ rows'[d].verified = rows[d].verified
                              /\ rows'[d].token = rows[d].token
                              /\ d # c => rows'[d] = rows[d]
    BY <1>1 DEF IssueChallenge, TypeOK, Row
  <2>2. rows'[c].issued /\ Active # {}
    BY <1>1 DEF IssueChallenge, TypeOK, Row
  <2> QED BY <1>0, <2>1, <2>2 DEF StagesOrdered
<1>2. ASSUME NEW s \in Scans, WriteResult(s)
      PROVE  StagesOrdered'
  <2> DEFINE c == scans[s].challenge
  <2>1. /\ c \in Challenges /\ rows[c].issued
        /\ \A d \in Challenges \ {c} : rows'[d] = rows[d]
        /\ rows'[c].done /\ rows'[c].issued
        /\ IF scans[s].passed THEN rows'[c].verified
           ELSE rows'[c].verified = rows[c].verified /\ rows'[c].token = rows[c].token
    BY <1>2, ScanWrites
  <2> HIDE DEF c
  <2> QED BY <1>0, <2>1 DEF StagesOrdered
<1>3. ASSUME NEW u \in Uses, Consume(u) \/ CommitUse(u) \/ RollbackUse(u)
      PROVE  StagesOrdered'
  BY <1>0, <1>3, UsesKeepRows, StagesKept
<1>4. CASE UNCHANGED rows
  BY <1>0, <1>4, StagesKept DEF Keeps
<1> QED BY <1>1, <1>2, <1>3, <1>4
       DEF Next, vars, Tick, LoadChallenge, ScanStep, Analyse, MatchFace, AbandonScan,
           PresentToken, UseStep, StartRevoke, EnrolStep, Revoke, InsertFace, CommitEnrolment,
           AbandonEnrolment

\* Steps of the scans and of the enrolments leave the uses alone.
LEMMA UsesInOrderStep ==
  ASSUME TypeOK, UsesInOrder, [Next]_vars
  PROVE  UsesInOrder'
<1>1. CASE Tick
  BY <1>1 DEF Tick, UsesInOrder, TypeOK, Times, Use
<1>2. ASSUME NEW u \in Uses, PresentToken(u) \/ Consume(u) \/ CommitUse(u) \/ RollbackUse(u)
      PROVE  UsesInOrder'
  <2>1. /\ \A v \in Uses \ {u} : uses'[v] = uses[v]
        /\ uses'[u].at \in {uses[u].at, now}
        /\ uses[u].pc # "done" /\ UNCHANGED now
    <3>1. CASE PresentToken(u)
      BY <3>1 DEF PresentToken, TypeOK, Use
    <3>2. CASE Consume(u)
      <4>1. PICK step \in {"commit", "done"} : uses' = [uses EXCEPT ![u].pc = step]
        BY <3>2 DEF Consume
      <4>2. uses[u].pc = "consume" /\ UNCHANGED now
        BY <3>2 DEF Consume
      <4> QED BY <4>1, <4>2 DEF TypeOK, Use
    <3>3. CASE CommitUse(u)
      BY <3>3 DEF CommitUse, TypeOK, Use
    <3>4. CASE RollbackUse(u)
      BY <3>4 DEF RollbackUse, TypeOK, Use
    <3> QED BY <1>2, <3>1, <3>2, <3>3, <3>4
  <2>2. CASE UNCHANGED spent
    BY <2>1, <2>2 DEF UsesInOrder, TypeOK, Times, Use
  <2>3. CASE CommitUse(u)
    <3>1. uses'[u].pc = "done" /\ \A x \in spent' \ spent : x.use = u
      BY <2>3 DEF CommitUse, TypeOK, Use
    <3> QED BY <2>1, <3>1 DEF UsesInOrder, TypeOK, Times, Use
  <2> QED BY <1>2, <2>2, <2>3 DEF PresentToken, Consume, RollbackUse
<1>3. CASE UNCHANGED <<now, uses, spent>>
  BY <1>3 DEF UsesInOrder
<1> QED BY <1>1, <1>2, <1>3
       DEF Next, vars, IssueChallenge, LoadChallenge, ScanStep, Analyse, MatchFace, WriteResult,
           AbandonScan, UseStep, StartRevoke, EnrolStep, Revoke, InsertFace, CommitEnrolment,
           AbandonEnrolment

LEMMA FacesInOrderStep ==
  ASSUME TypeOK, EnrolInv, FacesInOrder, [Next]_vars
  PROVE  FacesInOrder'
<1>1. ASSUME NEW e \in Enrolments,
             StartRevoke(e) \/ Revoke(e) \/ InsertFace(e) \/ AbandonEnrolment(e)
      PROVE  FacesInOrder'
  BY <1>1 DEF StartRevoke, Revoke, InsertFace, AbandonEnrolment, FacesInOrder, TypeOK, Enrolment
<1>2. ASSUME NEW e \in Enrolments, CommitEnrolment(e)
      PROVE  FacesInOrder'
  <2>1. /\ \A f \in Enrolments \ {e} : enrols'[f] = enrols[f]
        /\ enrols'[e].pc = "done"
        /\ \A f \in Enrolments \ {e} : faceLock[f] # e => faces'[f] = faces[f]
    BY <1>2 DEF CommitEnrolment, TypeOK, Enrolment
  <2>2. \A f \in Enrolments : faceLock[f] = e => faces[f] = "active"
    BY DEF EnrolInv, Active
  <2> QED BY <2>1, <2>2 DEF FacesInOrder
<1>3. CASE UNCHANGED <<faces, enrols>>
  BY <1>3 DEF FacesInOrder
<1> QED BY <1>1, <1>2, <1>3
       DEF Next, vars, Tick, IssueChallenge, LoadChallenge, ScanStep, Analyse, MatchFace,
           WriteResult, AbandonScan, PresentToken, UseStep, Consume, CommitUse, RollbackUse,
           EnrolStep

LEMMA RegisterInvariant == Spec => []RegisterInv
<1>1. Init => RegisterInv
  BY DEF Init, RegisterInv, StagesOrdered, UsesInOrder, FacesInOrder
<1>2. TypeOK /\ SpentInv /\ EnrolInv /\ OneActiveEnrolment /\ RegisterInv /\ [Next]_vars
        => RegisterInv'
  BY StagesOrderedStep, UsesInOrderStep, FacesInOrderStep DEF RegisterInv
<1> QED BY <1>1, <1>2, TypeCorrect, EvidenceInvariant, EnrolmentInvariant, PTL DEF Spec

\* A step that changes no stage, no face and no evidence.
LEMMA RegisterSame ==
  ASSUME \A c \in Challenges : Keeps(c), UNCHANGED <<now, faces, spent>>
  PROVE  UNCHANGED Register!register
<1>1. Stages' = Stages /\ Closes' = Closes
  BY DEF Stages, Closes, StageOf, Keeps
<1>2. FaceOf' = FaceOf /\ Enrolled' = Enrolled /\ Backed' = Backed
  BY DEF FaceOf, Active, Enrolled, Backed
<1> QED BY <1>1, <1>2 DEF Register!register, Stages, Closes, Enrolled, Backed

\* What a step at the row of one challenge may change there.
LEMMA OneStage ==
  ASSUME NEW c \in Challenges, \A d \in Challenges \ {c} : Keeps(d),
         UNCHANGED <<now, faces, spent>>
  PROVE  /\ Stages' = [Stages EXCEPT ![c] = StageOf(c)']
         /\ Closes' = [Closes EXCEPT ![c] = rows'[c].exp]
         /\ FaceOf' = FaceOf /\ Enrolled' = Enrolled /\ Backed' = Backed /\ now' = now
<1>1. \A d \in Challenges \ {c} : StageOf(d)' = StageOf(d) /\ rows'[d].exp = rows[d].exp
  BY DEF StageOf, Keeps
<1>2. FaceOf' = FaceOf /\ Enrolled' = Enrolled /\ Backed' = Backed
  BY DEF FaceOf, Active, Enrolled, Backed
<1> QED BY <1>1, <1>2 DEF Stages, Closes

LEMMA IssueImplements ==
  ASSUME TypeOK, SpentInv, RegisterInv, NEW c \in Challenges, IssueChallenge(c)
  PROVE  Register!Issue(c)
<1>1. /\ rows'[c].issued /\ ~rows'[c].done /\ ~rows'[c].verified
      /\ rows'[c].exp = now + ChallengeTTL
      /\ \A d \in Challenges \ {c} : Keeps(d)
      /\ UNCHANGED <<now, faces, spent>>
  BY DEF IssueChallenge, TypeOK, Row, RegisterInv, StagesOrdered, Keeps
<1>2. \A x \in spent : x.challenge # c
  <2>1. rows[c].token = None /\ ~rows[c].issued
    BY DEF IssueChallenge, RegisterInv, StagesOrdered
  <2>2. \A x \in spent : rows[x.challenge].issued
    BY DEF SpentInv, EvidenceInv, ScansConsistent, EvidenceIsFresh, TypeOK, Evidence
  <2> QED BY <2>1, <2>2
<1>3. StageOf(c) = "new" /\ StageOf(c)' = "open"
  BY <1>1, <1>2 DEF StageOf, IssueChallenge, RegisterInv, StagesOrdered
<1>4. FaceOf # None
  BY DEF IssueChallenge, FaceOf, Active
<1>5. /\ Stages' = [Stages EXCEPT ![c] = "open"]
      /\ Closes' = [Closes EXCEPT ![c] = now + ChallengeTTL]
      /\ FaceOf' = FaceOf /\ Enrolled' = Enrolled /\ Backed' = Backed /\ now' = now
  BY <1>1, <1>3, OneStage
<1> QED BY <1>3, <1>4, <1>5 DEF Register!Issue, Register!Move, Stages, Closes, Enrolled, Backed

\* A scan that ends answers the challenge, or passes it, or comes too late to matter.
LEMMA ResultImplements ==
  ASSUME TypeOK, SpentInv, RegisterInv, NEW s \in Scans, WriteResult(s)
  PROVE  \/ UNCHANGED Register!register
         \/ \E c \in Challenges : Register!Fail(c) \/ Register!Pass(c)
<1>1. PICK c \in Challenges :
      /\ c = scans[s].challenge /\ rows[c].issued
      /\ \A d \in Challenges \ {c} : rows'[d] = rows[d]
      /\ rows'[c].done /\ rows'[c].issued /\ rows'[c].exp = rows[c].exp
      /\ IF scans[s].passed THEN rows'[c].verified
         ELSE rows'[c].verified = rows[c].verified /\ rows'[c].token = rows[c].token
  BY ScanWrites
<1>2. UNCHANGED <<now, faces, spent>>
  BY DEF WriteResult
<1>3. /\ Stages' = [Stages EXCEPT ![c] = StageOf(c)']
      /\ Closes' = [Closes EXCEPT ![c] = rows[c].exp]
      /\ FaceOf' = FaceOf /\ Enrolled' = Enrolled /\ Backed' = Backed /\ now' = now
  <2>1. \A d \in Challenges \ {c} : Keeps(d)
    BY <1>1 DEF Keeps
  <2> QED BY <1>1, <1>2, <2>1, OneStage
<1>4. Closes' = Closes
  BY <1>1, <1>3 DEF Closes
<1>5. CASE StageOf(c)' = StageOf(c)
  <2>1. Stages' = Stages
    BY <1>1, <1>3, <1>5 DEF Stages
  <2> QED BY <1>3, <1>4, <2>1 DEF Register!register, Stages, Closes, Enrolled, Backed
<1>6. CASE StageOf(c)' # StageOf(c)
  <2>1. /\ \A x \in spent : x.challenge # c
        /\ ~rows[c].verified
    BY <1>1, <1>2, <1>6 DEF StageOf, RegisterInv, StagesOrdered
  <2>2. CASE scans[s].passed
    <3>1. StageOf(c) \in {"open", "failed"} /\ StageOf(c)' = "passed"
      BY <1>1, <1>2, <2>1, <2>2 DEF StageOf
    <3>2. FaceOf # None
      BY <1>1 DEF RegisterInv, StagesOrdered, FaceOf, Active
    <3>3. Register!Pass(c)
      BY <1>1, <1>3, <1>4, <3>1, <3>2
      DEF Register!Pass, Register!Move, Stages, Closes, Enrolled, Backed
    <3> QED BY <1>1, <3>3
  <2>3. CASE ~scans[s].passed
    <3>1. StageOf(c) = "open" /\ StageOf(c)' = "failed"
      BY <1>1, <1>2, <1>6, <2>1, <2>3 DEF StageOf
    <3>2. Register!Fail(c)
      BY <1>1, <1>3, <1>4, <3>1
      DEF Register!Fail, Register!Move, Stages, Closes, Enrolled, Backed
    <3> QED BY <1>1, <3>2
  <2> QED BY <2>2, <2>3
<1> QED BY <1>5, <1>6

\* The commit of a transaction that has used a token spends the challenge.
LEMMA UseImplements ==
  ASSUME TypeOK, SpentInv, RegisterInv, NEW u \in Uses, CommitUse(u)
  PROVE  \E c \in Challenges : Register!Spend(c, u)
<1>1. PICK c \in Challenges :
        /\ rows[c].holder = u
        /\ spent' = spent \cup {[use |-> u, challenge |-> c, token |-> uses[u].token,
                                 face |-> rows[c].face, at |-> uses[u].at]}
  BY DEF CommitUse
<1> DEFINE t == uses[u].at
<1>2. /\ uses[u].token \in Scans /\ rows[c].token = uses[u].token
      /\ t < rows[c].texp
  <2>1. uses[u].pc = "commit" /\ uses[u].token \in Scans /\ u # None
    BY DEF CommitUse, SpentInv, EvidenceInv, UsesConsistent
  <2> QED BY <1>1, <2>1 DEF SpentInv, EvidenceInv, RowsConsistent
<1>3. t \in 0 .. now /\ t < rows[c].exp + TokenTTL
  <2>1. /\ rows[c].texp = scans[uses[u].token].at + TokenTTL
        /\ scans[uses[u].token].at <= rows[c].exp
    BY <1>2 DEF SpentInv, EvidenceInv, RowsConsistent, ScansConsistent
  <2>2. /\ t \in Nat /\ rows[c].texp \in Nat /\ rows[c].exp \in Nat /\ now \in Nat
        /\ scans[uses[u].token].at \in Nat
    BY <1>2 DEF TypeOK, Use, Row, Scan, Times
  <2> QED BY <1>2, <2>1, <2>2 DEF RegisterInv, UsesInOrder
<1>4. /\ \A x \in spent : x.use # u /\ x.challenge # c
      /\ rows[c].verified
  BY <1>1, <1>2 DEF CommitUse, RegisterInv, UsesInOrder, StagesOrdered, SpentInv, EvidenceInv,
     SpentConsistent, TypeOK, Evidence
<1>5. /\ \A d \in Challenges : Keeps(d)
      /\ UNCHANGED <<now, faces>>
  BY UsesKeepRows DEF CommitUse
<1>6. StageOf(c) = "passed" /\ StageOf(c)' = "spent"
      /\ \A d \in Challenges \ {c} : StageOf(d)' = StageOf(d)
  <2>1. \A d \in Challenges : (\E x \in spent' : x.challenge = d)
                                <=> d = c \/ \E x \in spent : x.challenge = d
    <3> DEFINE new == [use |-> u, challenge |-> c, token |-> uses[u].token,
                       face |-> rows[c].face, at |-> uses[u].at]
    <3>1. spent' = spent \cup {new} /\ new.challenge = c
      BY <1>1
    <3> HIDE DEF new
    <3> QED BY <3>1
  <2> QED BY <1>4, <1>5, <2>1 DEF StageOf, Keeps
<1>7. Stages' = [Stages EXCEPT ![c] = "spent"]
  BY <1>6 DEF Stages
<1>8. Closes' = Closes /\ FaceOf' = FaceOf /\ Enrolled' = Enrolled
  BY <1>5 DEF Closes, Keeps, FaceOf, Active, Enrolled
<1>9. Backed' = Backed \cup {[use |-> u, challenge |-> c, at |-> t]}
  <2> DEFINE Seen(x) == [use |-> x.use, challenge |-> x.challenge, at |-> x.at]
             new == [use |-> u, challenge |-> c, token |-> uses[u].token,
                     face |-> rows[c].face, at |-> uses[u].at]
  <2>1. Seen(new) = [use |-> u, challenge |-> c, at |-> t]
    OBVIOUS
  <2>2. Backed' = {Seen(x) : x \in spent'} /\ Backed = {Seen(x) : x \in spent}
    BY DEF Backed
  <2>3. spent' = spent \cup {new}
    BY <1>1
  <2> HIDE DEF Seen, new
  <2> QED BY <2>1, <2>2, <2>3
<1>10. \A x \in Backed : x.use # u
  BY <1>4 DEF Backed
<1>11. Stages[c] \in {"passed"} /\ Closes[c] = rows[c].exp
  BY <1>6 DEF Stages, Closes
<1> HIDE DEF t
<1>12. Register!Spend(c, u)
  BY <1>3, <1>5, <1>7, <1>8, <1>9, <1>10, <1>11
  DEF Register!Spend, Register!Move, Stages, Closes, Enrolled, Backed
<1> QED BY <1>12

\* The commit of an enrolment replaces the face.
LEMMA EnrolImplements ==
  ASSUME TypeOK, EnrolInv, FacesInOrder, NEW e \in Enrolments, CommitEnrolment(e)
  PROVE  Register!Enrol(e)
<1>1. /\ faces[e] = "absent" /\ \A f \in Active : faceLock[f] = e
      /\ \A f \in Enrolments : faceLock[f] = e => f \in Active
      /\ UNCHANGED <<now, rows, spent>>
  BY DEF CommitEnrolment, FacesInOrder, EnrolInv
<1>2. \A f \in Enrolments : faces'[f] = CASE f = e -> "active"
                                          [] f # e /\ faceLock[f] = e -> "revoked"
                                          [] OTHER -> faces[f]
  BY DEF CommitEnrolment
<1>3. Active' = {e}
  BY <1>1, <1>2 DEF Active
<1>4. FaceOf' = e
  BY <1>3 DEF FaceOf
<1>5. e \notin Enrolled /\ Enrolled' = Enrolled \cup {e}
  BY <1>1, <1>2 DEF Enrolled, Active
<1>6. Stages' = Stages /\ Closes' = Closes /\ Backed' = Backed
  BY <1>1 DEF Stages, StageOf, Closes, Backed
<1> QED BY <1>1, <1>4, <1>5, <1>6 DEF Register!Enrol, Stages, Closes, Enrolled, Backed

LEMMA RegisterStep ==
  ASSUME TypeOK, SpentInv, EnrolInv, RegisterInv, [Next]_vars
  PROVE  [Register!Next]_(Register!register)
<1>1. CASE Tick
  <2>1. /\ now' = now + 1 /\ Stages' = Stages /\ Closes' = Closes /\ FaceOf' = FaceOf
        /\ Enrolled' = Enrolled /\ Backed' = Backed
    BY <1>1 DEF Tick, Stages, StageOf, Closes, FaceOf, Active, Enrolled, Backed
  <2> QED BY <2>1 DEF Register!Next, Register!Tick, Stages, Closes, Enrolled, Backed
<1>2. ASSUME NEW c \in Challenges, IssueChallenge(c)
      PROVE  Register!Next
  BY <1>2, IssueImplements DEF Register!Next
<1>3. ASSUME NEW s \in Scans, WriteResult(s)
      PROVE  [Register!Next]_(Register!register)
  BY <1>3, ResultImplements DEF Register!Next
<1>4. ASSUME NEW u \in Uses, CommitUse(u)
      PROVE  Register!Next
  BY <1>4, UseImplements DEF Register!Next
<1>5. ASSUME NEW e \in Enrolments, CommitEnrolment(e)
      PROVE  Register!Next
  BY <1>5, EnrolImplements DEF Register!Next, RegisterInv
<1>6. ASSUME NEW u \in Uses, Consume(u) \/ RollbackUse(u)
      PROVE  UNCHANGED Register!register
  BY <1>6, UsesKeepRows, RegisterSame DEF Consume, RollbackUse
<1>7. CASE UNCHANGED <<now, rows, faces, spent>>
  BY <1>7, RegisterSame DEF Keeps
<1> QED BY <1>1, <1>2, <1>3, <1>4, <1>5, <1>6, <1>7
       DEF Next, vars, LoadChallenge, ScanStep, Analyse, MatchFace, AbandonScan, PresentToken,
           UseStep, StartRevoke, EnrolStep, Revoke, InsertFace, AbandonEnrolment

\* Every behaviour of scans, uses and enrolments, however many overlap, is one of
\* the register: a challenge never goes back a stage, backs one attendance, in time, and the
\* student's face is replaced at one commit.
THEOREM ServicesImplementRegister == Spec => ImplementsRegister
<1>1. Init => Register!Init
  BY DEF Init, Register!Init, FaceOf, Active, StageOf
<1>2. TypeOK /\ SpentInv /\ EnrolInv /\ RegisterInv /\ [Next]_vars
        => [Register!Next]_(Register!register)
  BY RegisterStep
<1> QED BY <1>1, <1>2, TypeCorrect, EvidenceInvariant, EnrolmentInvariant, RegisterInvariant, PTL
       DEF Spec, ImplementsRegister, Register!Spec

=============================================================================
