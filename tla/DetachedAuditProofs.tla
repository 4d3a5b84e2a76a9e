------------------------- MODULE DetachedAuditProofs -------------------------
(***************************************************************************)
(* Safety of DetachedAudit for every number of requests and connections.   *)
(***************************************************************************)
EXTENDS DetachedAudit, TLAPS

USE DEF Courses, Attends, Profiles, AfterAudit, Waiting, Steps, Goto, locks, outcome

\* Releasing all the connections of a request keeps every connection accounted for.
LEMMA ReleaseAllAccounted ==
  ASSUME TypeOK, ConnectionsOwned, NEW r \in Requests, ReleaseAll(r)
  PROVE  /\ ConnectionsOwned'
         /\ idle' \subseteq Connections
         /\ conns' \in [Requests -> SUBSET Connections]
  BY DEF TypeOK, ConnectionsOwned, ReleaseAll

\* So does releasing one of them.
LEMMA ReleaseOneAccounted ==
  ASSUME TypeOK, ConnectionsOwned, NEW r \in Requests, ReleaseOne(r)
  PROVE  /\ ConnectionsOwned'
         /\ idle' \subseteq Connections
         /\ conns' \in [Requests -> SUBSET Connections]
<1>1. PICK c \in conns[r] : /\ idle' = idle \cup {c}
                            /\ conns' = [conns EXCEPT ![r] = @ \ {c}]
  BY DEF ReleaseOne
<1>2. \A q \in Requests : conns'[q] = IF q = r THEN conns[r] \ {c} ELSE conns[q]
  BY <1>1 DEF TypeOK
<1>3. /\ idle' \subseteq Connections
      /\ conns' \in [Requests -> SUBSET Connections]
  BY <1>1 DEF TypeOK
<1>4. ConnectionsOwned'
  <2>1. idle' \cup UNION {conns'[q] : q \in Requests} = Connections
    BY <1>1, <1>2, <1>3 DEF TypeOK, ConnectionsOwned
  <2>2. \A q \in Requests : idle' \cap conns'[q] = {}
    BY <1>1, <1>2 DEF TypeOK, ConnectionsOwned
  <2>3. \A p, q \in Requests : p # q => conns'[p] \cap conns'[q] = {}
    BY <1>2 DEF TypeOK, ConnectionsOwned
  <2> QED BY <2>1, <2>2, <2>3 DEF ConnectionsOwned
<1> QED BY <1>3, <1>4

\* So does checking one out of the pool.
LEMMA ConnectAccounted ==
  ASSUME TypeOK, ConnectionsOwned, NEW r \in Requests, Connect(r)
  PROVE  /\ ConnectionsOwned'
         /\ idle' \subseteq Connections
         /\ conns' \in [Requests -> SUBSET Connections]
<1>1. PICK c \in idle : /\ idle' = idle \ {c}
                        /\ conns' = [conns EXCEPT ![r] = @ \cup {c}]
  BY DEF Connect
<1>2. \A q \in Requests : conns'[q] = IF q = r THEN conns[r] \cup {c} ELSE conns[q]
  BY <1>1 DEF TypeOK
<1>3. /\ idle' \subseteq Connections
      /\ conns' \in [Requests -> SUBSET Connections]
  BY <1>1 DEF TypeOK
<1>4. ConnectionsOwned'
  <2>1. idle' \cup UNION {conns'[q] : q \in Requests} = Connections
    BY <1>1, <1>2, <1>3 DEF TypeOK, ConnectionsOwned
  <2>2. \A q \in Requests : idle' \cap conns'[q] = {}
    BY <1>1, <1>2 DEF TypeOK, ConnectionsOwned
  <2>3. \A p, q \in Requests : p # q => conns'[p] \cap conns'[q] = {}
    BY <1>1, <1>2 DEF TypeOK, ConnectionsOwned
  <2> QED BY <2>1, <2>2, <2>3 DEF ConnectionsOwned
<1> QED BY <1>3, <1>4

\* The locks keep their type when a request drops them.
LEMMA UnlockTyped ==
  ASSUME TypeOK, NEW r \in Requests, Unlock(r)
  PROVE  /\ sessLock' \in Requests \cup {None}
         /\ dailyLock' \in Requests \cup {None}
         /\ userLock' \in [Users -> Requests \cup {None}]
  BY DEF TypeOK, Unlock

\* Every step preserves the invariant.
LEMMA PoolStep == PoolInv /\ [Next]_vars => PoolInv'
<1> SUFFICES ASSUME PoolInv, [Next]_vars
             PROVE  PoolInv'
  OBVIOUS
<1> USE DEF PoolInv
<1>1. ASSUME NEW r \in Requests, NEW k \in Kinds, NEW u \in Users, Arrive(r, k, u)
      PROVE  PoolInv'
  BY <1>1, PoolAssumption DEF Arrive, TypeOK, ConnectionsOwned, RejectionsAreRecorded,
    PastFailure, CommittedIsNotReportedFailed
<1>2. ASSUME NEW r \in Requests, Connect(r)
      PROVE  PoolInv'
  <2>1. pc[r] \in Waiting /\ NextStep(pc[r]) \in {"authenticated", "lock", "insert", "advisory", "end"}
    BY <1>2 DEF Connect, NextStep
  <2>2. /\ pc[r] = "audit" => NextStep(pc[r]) = "insert"
        /\ NextStep(pc[r]) = "advisory" => pc[r] = "second"
        /\ NextStep(pc[r]) = "end" <=> pc[r] = "refresh"
        /\ NextStep(pc[r]) = "lock" => pc[r] = "begin"
    BY <2>1 DEF NextStep
  <2>3. ConnectionsOwned' /\ TypeOK'
    BY <1>2, <2>1, ConnectAccounted DEF Connect, TypeOK
  <2>4. PastFailure'
    BY <1>2, <2>1, <2>2 DEF Connect, TypeOK, PastFailure
  <2> QED
    BY <1>2, <2>3, <2>4 DEF Connect, RejectionsAreRecorded, CommittedIsNotReportedFailed
<1>3. ASSUME NEW r \in Requests, PoolTimeout(r)
      PROVE  PoolInv'
  <2>1. CASE pc[r] = "audit"
    BY <1>3, <2>1 DEF PoolTimeout, TypeOK, ConnectionsOwned, RejectionsAreRecorded,
      PastFailure, CommittedIsNotReportedFailed
  <2>2. CASE pc[r] # "audit"
    <3>1. r \in committed => kind[r] # "accepted"
      BY <1>3, <2>2 DEF PoolTimeout, PastFailure
    <3>2. Answer(r, "ERROR") /\ UNCHANGED <<kind, actor, committed, trail, dropped>>
      BY <1>3, <2>2 DEF PoolTimeout
    <3>3. ConnectionsOwned' /\ TypeOK'
      BY <3>2, ReleaseAllAccounted, UnlockTyped DEF Answer, TypeOK
    <3> QED
      BY <3>1, <3>2, <3>3 DEF Answer, TypeOK, RejectionsAreRecorded, PastFailure,
        CommittedIsNotReportedFailed
  <2> QED BY <2>1, <2>2
<1>4. ASSUME NEW r \in Requests, Authenticated(r)
      PROVE  PoolInv'
  <2>1. ConnectionsOwned' /\ TypeOK'
    <3>1. CASE ReleaseAll(r)
      BY <1>4, <3>1, ReleaseAllAccounted DEF Authenticated, TypeOK
    <3>2. CASE UNCHANGED <<idle, conns>>
      BY <1>4, <3>2 DEF Authenticated, TypeOK, ConnectionsOwned
    <3> QED BY <1>4, <3>1, <3>2 DEF Authenticated
  <2>2. PastFailure'
    BY <1>4 DEF Authenticated, TypeOK, PastFailure
  <2> QED
    BY <1>4, <2>1, <2>2 DEF Authenticated, RejectionsAreRecorded, CommittedIsNotReportedFailed
<1>5. ASSUME NEW r \in Requests, LockSession(r)
      PROVE  PoolInv'
  <2>1. actor' \in [Requests -> Users \cup {None}]
    <3>1. actor' = actor \/ actor' = [actor EXCEPT ![r] = None]
      BY <1>5 DEF LockSession
    <3> QED BY <3>1 DEF TypeOK
  <2>2. TypeOK'
    BY <1>5, <2>1 DEF LockSession, TypeOK, PastFailure
  <2>3. PastFailure'
    BY <1>5 DEF LockSession, TypeOK, PastFailure
  <2> QED
    BY <1>5, <2>2, <2>3 DEF LockSession, ConnectionsOwned, RejectionsAreRecorded,
      CommittedIsNotReportedFailed
<1>6. ASSUME NEW r \in Requests, CommitAttendance(r)
      PROVE  PoolInv'
  <2>1. ConnectionsOwned' /\ TypeOK'
    BY <1>6, ReleaseAllAccounted, UnlockTyped DEF CommitAttendance, TypeOK
  <2>2. PastFailure'
    BY <1>6 DEF CommitAttendance, TypeOK, PastFailure
  <2>3. resp[r] # "ERROR"
    BY <1>6 DEF CommitAttendance, PastFailure
  <2> QED
    BY <1>6, <2>1, <2>2, <2>3 DEF CommitAttendance, RejectionsAreRecorded,
      CommittedIsNotReportedFailed
<1>7. ASSUME NEW r \in Requests, FlushProfile(r)
      PROVE  PoolInv'
  <2>1. userLock' \in [Users -> Requests \cup {None}]
    BY <1>7 DEF FlushProfile, TypeOK
  <2>2. TypeOK'
    BY <1>7, <2>1 DEF FlushProfile, TypeOK
  <2>3. PastFailure'
    BY <1>7 DEF FlushProfile, TypeOK, PastFailure
  <2> QED
    BY <1>7, <2>2, <2>3 DEF FlushProfile, ConnectionsOwned, RejectionsAreRecorded,
      CommittedIsNotReportedFailed
<1>8. ASSUME NEW r \in Requests, InsertAudit(r)
      PROVE  PoolInv'
  <2>1. ConnectionsOwned' /\ TypeOK'
    BY <1>8, ReleaseOneAccounted DEF InsertAudit, TypeOK
  <2>2. PastFailure'
    BY <1>8 DEF InsertAudit, TypeOK, PastFailure
  <2> QED
    BY <1>8, <2>1, <2>2 DEF InsertAudit, RejectionsAreRecorded, CommittedIsNotReportedFailed
<1>9. ASSUME NEW r \in Requests, LockDaily(r)
      PROVE  PoolInv'
  BY <1>9 DEF LockDaily, TypeOK, ConnectionsOwned, RejectionsAreRecorded,
    PastFailure, CommittedIsNotReportedFailed
<1>10. ASSUME NEW r \in Requests, CommitDaily(r)
       PROVE  PoolInv'
  <2>1. ConnectionsOwned' /\ TypeOK'
    BY <1>10, ReleaseOneAccounted DEF CommitDaily, TypeOK
  <2>2. PastFailure'
    BY <1>10 DEF CommitDaily, TypeOK, PastFailure
  <2> QED
    BY <1>10, <2>1, <2>2 DEF CommitDaily, RejectionsAreRecorded, CommittedIsNotReportedFailed
<1>11. ASSUME NEW r \in Requests, End(r)
       PROVE  PoolInv'
  <2>1. ConnectionsOwned' /\ TypeOK'
    BY <1>11, ReleaseAllAccounted, UnlockTyped DEF End, Answer, TypeOK
  <2>2. PastFailure' /\ RejectionsAreRecorded'
    BY <1>11 DEF End, Answer, TypeOK, PastFailure, RejectionsAreRecorded
  <2>3. CommittedIsNotReportedFailed'
    BY <1>11 DEF End, Answer, TypeOK, CommittedIsNotReportedFailed
  <2> QED BY <2>1, <2>2, <2>3
<1>12. ASSUME NEW r \in Requests, RefuseProfile(r)
       PROVE  PoolInv'
  <2>1. ConnectionsOwned' /\ TypeOK'
    BY <1>12, ReleaseAllAccounted, UnlockTyped DEF RefuseProfile, Answer, TypeOK
  <2>2. PastFailure' /\ RejectionsAreRecorded'
    BY <1>12 DEF RefuseProfile, Answer, TypeOK, PastFailure, RejectionsAreRecorded
  <2>3. CommittedIsNotReportedFailed'
    BY <1>12 DEF RefuseProfile, Answer, TypeOK, CommittedIsNotReportedFailed
  <2> QED BY <2>1, <2>2, <2>3
<1>13. ASSUME NEW r \in Requests, Save(r)
       PROVE  PoolInv'
  <2>1. ConnectionsOwned' /\ TypeOK'
    BY <1>13, ReleaseAllAccounted, UnlockTyped DEF Save, TypeOK
  <2>2. PastFailure'
    BY <1>13 DEF Save, TypeOK, PastFailure
  <2>3. resp[r] # "ERROR"
    BY <1>13 DEF Save, PastFailure
  <2> QED
    BY <1>13, <2>1, <2>2, <2>3 DEF Save, RejectionsAreRecorded, CommittedIsNotReportedFailed
<1>14. CASE UNCHANGED vars
  BY <1>14 DEF vars, TypeOK, ConnectionsOwned, RejectionsAreRecorded,
    PastFailure, CommittedIsNotReportedFailed
<1> QED
  BY <1>1, <1>2, <1>3, <1>4, <1>5, <1>6, <1>7, <1>8, <1>9, <1>10, <1>11, <1>12,
    <1>13, <1>14
  DEF Next, Step

\* The invariant holds of the specification.
THEOREM PoolInvariant == Spec => []PoolInv
<1>1. Init => PoolInv
  BY DEF Init, PoolInv, TypeOK, ConnectionsOwned, RejectionsAreRecorded, PastFailure,
    CommittedIsNotReportedFailed
<1> QED BY <1>1, PoolStep, PTL DEF Spec

-----------------------------------------------------------------------------
\* A step of one request leaves what the others hold.
LEMMA OthersHold ==
  ASSUME HeldInv, NEW r \in Requests, HeldByStep(r)',
         \A q \in Requests \ {r} :
           /\ pc'[q] = pc[q] /\ conns'[q] = conns[q] /\ kind'[q] = kind[q]
           /\ sessLock' = q => sessLock = q
           /\ dailyLock' = q => dailyLock = q
           /\ \A u \in Users : userLock'[u] = q => userLock[u] = q
  PROVE  HeldInv'
<1>1. ASSUME NEW q \in Requests \ {r}
      PROVE  HeldByStep(q)'
  BY DEF HeldInv, HeldByStep, Two
<1> QED BY <1>1 DEF HeldInv

\* The end of a request, whatever it held.
LEMMA AnswerHolds ==
  ASSUME TypeOK, HeldInv, NEW r \in Requests, NEW a, Answer(r, a), UNCHANGED kind
  PROVE  HeldInv'
<1>1. /\ pc'[r] = "done" /\ conns'[r] = {}
      /\ sessLock' # r /\ dailyLock' # r /\ \A u \in Users : userLock'[u] # r
  BY PoolAssumption DEF Answer, ReleaseAll, Unlock, TypeOK
<1>2. HeldByStep(r)'
  BY <1>1 DEF HeldByStep, Two
<1>3. \A q \in Requests \ {r} :
        /\ pc'[q] = pc[q] /\ conns'[q] = conns[q]
        /\ sessLock' = q => sessLock = q
        /\ dailyLock' = q => dailyLock = q
        /\ \A u \in Users : userLock'[u] = q => userLock[u] = q
  BY PoolAssumption DEF Answer, ReleaseAll, Unlock, TypeOK
<1> QED BY <1>2, <1>3, OthersHold

\* Of two connections one is left.
LEMMA OneIsLeft ==
  ASSUME TypeOK, NEW r \in Requests, ReleaseOne(r)
  PROVE  /\ Two(r) => conns'[r] # {}
         /\ \A q \in Requests \ {r} : conns'[q] = conns[q]
  BY DEF TypeOK, ReleaseOne, Two

LEMMA HeldStep == PoolInv /\ HeldInv /\ [Next]_vars => HeldInv'
<1> SUFFICES ASSUME PoolInv, HeldInv, [Next]_vars
             PROVE  HeldInv'
  OBVIOUS
<1>0. TypeOK /\ ConnectionsOwned /\ PastFailure /\ \A r \in Requests : HeldByStep(r)
  BY DEF PoolInv, HeldInv
<1>1. ASSUME NEW r \in Requests, NEW k \in Kinds, NEW u \in Users, Arrive(r, k, u)
      PROVE  HeldInv'
  <2>1. HeldByStep(r)'
    BY <1>0, <1>1 DEF Arrive, TypeOK, HeldByStep
  <2> QED BY <1>0, <1>1, <2>1, OthersHold DEF Arrive, TypeOK
<1>2. ASSUME NEW r \in Requests, Connect(r)
      PROVE  HeldInv'
  <2>1. PICK c \in idle : conns' = [conns EXCEPT ![r] = @ \cup {c}]
    BY <1>2 DEF Connect
  <2>2. /\ conns'[r] = conns[r] \cup {c} /\ c \notin conns[r]
        /\ \A q \in Requests \ {r} : conns'[q] = conns[q]
    BY <1>0, <2>1 DEF TypeOK, ConnectionsOwned
  <2>3. /\ pc[r] \in Waiting /\ pc'[r] = NextStep(pc[r])
        /\ \A q \in Requests \ {r} : pc'[q] = pc[q]
        /\ UNCHANGED <<locks, kind>>
    BY <1>0, <1>2 DEF Connect, TypeOK, NextStep
  <2>4. /\ pc[r] = "auth" => pc'[r] = "authenticated"
        /\ pc[r] = "begin" => pc'[r] = "lock"
        /\ pc[r] = "audit" => pc'[r] = "insert"
        /\ pc[r] = "second" => pc'[r] = "advisory"
        /\ pc[r] = "refresh" => pc'[r] = "end"
    BY <2>3 DEF NextStep
  <2>5. conns'[r] # {} /\ (conns[r] # {} => Two(r)')
    BY <2>2 DEF Two
  <2>6. HeldByStep(r)'
    BY <1>0, <2>3, <2>4, <2>5 DEF HeldByStep
  <2> QED BY <2>2, <2>3, <2>6, OthersHold
<1>3. ASSUME NEW r \in Requests, PoolTimeout(r)
      PROVE  HeldInv'
  <2>1. CASE pc[r] = "audit"
    <3>1. HeldByStep(r)'
      BY <1>0, <1>3, <2>1 DEF PoolTimeout, TypeOK, HeldByStep
    <3> QED BY <1>0, <1>3, <2>1, <3>1, OthersHold DEF PoolTimeout, TypeOK
  <2>2. CASE pc[r] # "audit"
    BY <1>0, <1>3, <2>2, AnswerHolds DEF PoolTimeout
  <2> QED BY <2>1, <2>2
<1>4. ASSUME NEW r \in Requests, Authenticated(r)
      PROVE  HeldInv'
  <2>1. CASE ReleaseAll(r) /\ Goto(r, "begin")
    <3>1. /\ conns'[r] = {} /\ pc'[r] = "begin" /\ UNCHANGED <<locks, kind>>
          /\ \A q \in Requests \ {r} : pc'[q] = pc[q] /\ conns'[q] = conns[q]
      BY <1>0, <1>4, <2>1 DEF Authenticated, ReleaseAll, TypeOK
    <3>2. HeldByStep(r)'
      BY <1>0, <1>4, <2>1, <3>1 DEF Authenticated, HeldByStep, Two
    <3> QED BY <3>1, <3>2, OthersHold
  <2>2. CASE /\ UNCHANGED <<idle, conns>>
             /\ \E step \in {"end", "second", "update", "save", "audit"} : Goto(r, step)
    <3>1. /\ pc[r] = "authenticated" /\ pc'[r] \in {"end", "second", "update", "save", "audit"}
          /\ \A q \in Requests \ {r} : pc'[q] = pc[q]
          /\ UNCHANGED <<conns, locks, kind>>
      BY <1>0, <1>4, <2>2 DEF Authenticated, TypeOK
    <3>2. HeldByStep(r)'
      BY <1>0, <3>1 DEF HeldByStep
    <3> QED BY <3>1, <3>2, OthersHold
  <2> QED BY <1>4, <2>1, <2>2 DEF Authenticated
<1>5. ASSUME NEW r \in Requests, LockSession(r)
      PROVE  HeldInv'
  <2>1. HeldByStep(r)'
    BY <1>0, <1>5 DEF LockSession, TypeOK, PastFailure, HeldByStep, Two
  <2> QED BY <1>0, <1>5, <2>1, OthersHold DEF LockSession, TypeOK
<1>6. ASSUME NEW r \in Requests, CommitAttendance(r)
      PROVE  HeldInv'
  <2>1. /\ pc[r] = "commit" /\ pc'[r] = "audit" /\ conns'[r] = {} /\ UNCHANGED kind
        /\ sessLock' # r /\ dailyLock' # r /\ \A u \in Users : userLock'[u] # r
    BY <1>0, <1>6, PoolAssumption DEF CommitAttendance, ReleaseAll, Unlock, TypeOK
  <2>2. HeldByStep(r)'
    BY <1>0, <2>1 DEF PastFailure, HeldByStep, Two
  <2>3. \A q \in Requests \ {r} :
          /\ pc'[q] = pc[q] /\ conns'[q] = conns[q]
          /\ sessLock' = q => sessLock = q
          /\ dailyLock' = q => dailyLock = q
          /\ \A u \in Users : userLock'[u] = q => userLock[u] = q
    BY <1>0, <1>6, PoolAssumption DEF CommitAttendance, ReleaseAll, Unlock, TypeOK
  <2> QED BY <2>1, <2>2, <2>3, OthersHold
<1>7. ASSUME NEW r \in Requests, FlushProfile(r)
      PROVE  HeldInv'
  <2>1. kind[r] \in Profiles
    BY <1>0, <1>7 DEF FlushProfile, PastFailure
  <2>2. HeldByStep(r)'
    BY <1>0, <1>7, <2>1 DEF FlushProfile, TypeOK, HeldByStep, Two
  <2> QED BY <1>0, <1>7, <2>2, OthersHold DEF FlushProfile, TypeOK
<1>8. ASSUME NEW r \in Requests, InsertAudit(r)
      PROVE  HeldInv'
  <2>1. HeldByStep(r)'
    BY <1>0, <1>8, OneIsLeft DEF InsertAudit, TypeOK, HeldByStep
  <2> QED BY <1>0, <1>8, <2>1, OneIsLeft, OthersHold DEF InsertAudit, TypeOK
<1>9. ASSUME NEW r \in Requests, LockDaily(r)
      PROVE  HeldInv'
  <2>1. HeldByStep(r)'
    BY <1>0, <1>9 DEF LockDaily, TypeOK, HeldByStep, Two
  <2> QED BY <1>0, <1>9, <2>1, OthersHold DEF LockDaily, TypeOK
<1>10. ASSUME NEW r \in Requests, CommitDaily(r)
       PROVE  HeldInv'
  <2>1. HeldByStep(r)'
    BY <1>0, <1>10, OneIsLeft, PoolAssumption DEF CommitDaily, TypeOK, HeldByStep
  <2> QED BY <1>0, <1>10, <2>1, OneIsLeft, OthersHold, PoolAssumption DEF CommitDaily, TypeOK
<1>11. ASSUME NEW r \in Requests, End(r)
       PROVE  HeldInv'
  BY <1>0, <1>11, AnswerHolds DEF End
<1>12. ASSUME NEW r \in Requests, RefuseProfile(r)
       PROVE  HeldInv'
  BY <1>0, <1>12, AnswerHolds DEF RefuseProfile
<1>13. ASSUME NEW r \in Requests, Save(r)
       PROVE  HeldInv'
  <2>1. /\ pc[r] = "save" /\ pc'[r] = "refresh" /\ conns'[r] = {} /\ UNCHANGED kind
        /\ sessLock' # r /\ dailyLock' # r /\ \A u \in Users : userLock'[u] # r
    BY <1>0, <1>13, PoolAssumption DEF Save, ReleaseAll, Unlock, TypeOK
  <2>2. HeldByStep(r)'
    BY <1>0, <2>1 DEF HeldByStep, Two
  <2>3. \A q \in Requests \ {r} :
          /\ pc'[q] = pc[q] /\ conns'[q] = conns[q]
          /\ sessLock' = q => sessLock = q
          /\ dailyLock' = q => dailyLock = q
          /\ \A u \in Users : userLock'[u] = q => userLock[u] = q
    BY <1>0, <1>13, PoolAssumption DEF Save, ReleaseAll, Unlock, TypeOK
  <2> QED BY <2>1, <2>2, <2>3, OthersHold
<1>14. CASE UNCHANGED vars
  BY <1>0, <1>14 DEF vars, HeldInv, HeldByStep, Two
<1> QED
  BY <1>1, <1>2, <1>3, <1>4, <1>5, <1>6, <1>7, <1>8, <1>9, <1>10, <1>11, <1>12,
    <1>13, <1>14
  DEF Next, Step

\* What a request holds is what its step holds.
THEOREM HeldInvariant == Spec => []HeldInv
<1>1. Init => HeldInv
  BY PoolAssumption DEF Init, HeldInv, HeldByStep
<1> QED BY <1>1, PoolInvariant, HeldStep, PTL DEF Spec

\* session.py: no connection leaks and none serves two requests, on every path
\* including the failed checkout, and no lock outlives its transaction.
THEOREM NoConnectionLeaks == Spec => []ConnectionsAccounted
<1>1. PoolInv /\ HeldInv => ConnectionsAccounted
  BY DEF PoolInv, HeldInv, HeldByStep, Two, ConnectionsAccounted, NothingKept, Holds
<1> QED BY <1>1, PoolInvariant, HeldInvariant, PTL

\* audit_service.py:4-5: a duplicate, a used token and a failed verification have
\* their audit row when they are answered, although their transaction was rolled
\* back, unless the pool gave it up.
THEOREM RejectionsRecorded == Spec => []RejectionsAreRecorded
BY PoolInvariant, PTL DEF PoolInv

\* audit_service.py:67: an attendance operation that has committed is never answered
\* as an error, whatever the pool does to its audit row.
THEOREM AuditsDoNotFailCommits == Spec => []CommittedIsNotReportedFailed
BY PoolInvariant, PTL DEF PoolInv
=============================================================================
