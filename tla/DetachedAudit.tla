--------------------------- MODULE DetachedAudit ---------------------------
(***************************************************************************)
(* The connection pool of db/session.py under requests that need a second  *)
(* connection while they hold a first one: services/audit_service.py       *)
(* writes an audit row in a transaction of its own, and                    *)
(* session_service.py opens the day's session in one.                      *)
(*                                                                         *)
(* A request takes one of eight courses through the pool:                  *)
(*   rejected      an attendance operation refused as a duplicate or for a *)
(*                 used token: the audit row is written while the session  *)
(*                 row is locked and the first connection is in use;       *)
(*   refused       one that ends in its transaction without an audit row:  *)
(*                 for the session, its window, a token that is missing or *)
(*                 expired, a check-out out of turn or a race for the      *)
(*                 unique key, or the replay of one that was recorded;     *)
(*                 or a place verification outside its window;             *)
(*   accepted      an attendance operation: the row is written after the   *)
(*                 commit has given the first connection back;             *)
(*   verify_failed a failed place verification, or a device that is not    *)
(*                 the student's: the row is written while the read        *)
(*                 transaction is still open;                              *)
(*   verified      a place verification that succeeds: its token is        *)
(*                 committed and then read again;                          *)
(*   daily         a page that resolves the day's session, which is        *)
(*                 created under an advisory lock on a second connection;  *)
(*   profile       a student changes the name or a number: the row is      *)
(*                 written between the flush and the commit, and the       *)
(*                 account is read again after it;                         *)
(*   email         the same with the e-mail address.                       *)
(* All attendance operations are of one session.                           *)
(***************************************************************************)
EXTENDS FiniteSets

CONSTANTS Requests, Users,
          Kinds,        \* the courses the clients take
          Connections,  \* pool_size + max_overflow
          None

Courses == {"rejected", "refused", "accepted", "verify_failed", "verified", "daily",
            "profile", "email"}
Attends == {"rejected", "refused", "accepted"}
Profiles == {"profile", "email"}

ASSUME PoolAssumption ==
  /\ Kinds \subseteq Courses
  /\ None \notin Requests

VARIABLES
  idle,        \* connections in the pool
  conns,       \* connections a request has checked out
  sessLock, dailyLock, userLock,  \* the session row, the advisory lock, users rows
  pc, kind, actor,
  committed,   \* requests whose own transaction committed
  trail,       \* requests whose audit row is in the table
  dropped,     \* requests whose audit row was given up
  resp

vars == <<idle, conns, sessLock, dailyLock, userLock, pc, kind, actor,
          committed, trail, dropped, resp>>
locks == <<sessLock, dailyLock, userLock>>
outcome == <<committed, trail, dropped, resp>>

\* Steps that wait for the pool, and all others.
Waiting == {"auth", "begin", "audit", "second", "refresh"}
Steps == Waiting \cup {"idle", "authenticated", "lock", "commit", "update", "save",
                       "insert", "advisory", "ensure", "end", "done"}

Goto(r, step) == pc' = [pc EXCEPT ![r] = step]

\* Mutant: the session is not closed.
LeaveOpen(r) == UNCHANGED <<idle, conns>>

\* The session ends: its connections go back to the pool.
ReleaseAll(r) ==
  /\ idle' = idle \cup conns[r]
  /\ conns' = [conns EXCEPT ![r] = {}]

ReleaseOne(r) ==
  \E c \in conns[r] :
    /\ idle' = idle \cup {c}
    /\ conns' = [conns EXCEPT ![r] = @ \ {c}]

Unlock(r) ==
  /\ sessLock' = IF sessLock = r THEN None ELSE sessLock
  /\ dailyLock' = IF dailyLock = r THEN None ELSE dailyLock
  /\ userLock' = [u \in Users |-> IF userLock[u] = r THEN None ELSE userLock[u]]

Answer(r, a) ==
  /\ ReleaseAll(r)
  /\ Unlock(r)
  /\ Goto(r, "done")
  /\ resp' = [resp EXCEPT ![r] = a]

-----------------------------------------------------------------------------
Arrive(r, k, u) ==
  /\ pc[r] = "idle"
  /\ kind' = [kind EXCEPT ![r] = k]
  /\ actor' = [actor EXCEPT ![r] = u]
  /\ Goto(r, "auth")
  /\ UNCHANGED <<idle, conns, locks, outcome>>

NextStep(step) ==
  CASE step = "auth" -> "authenticated"
    [] step = "begin" -> "lock"
    [] step = "audit" -> "insert"
    [] step = "second" -> "advisory"
    [] step = "refresh" -> "end"

\* Where a request goes on after its audit row.
AfterAudit(r) == IF kind[r] \in Profiles THEN "save" ELSE "end"

\* The first statement of a session checks a connection out.
Connect(r) ==
  /\ pc[r] \in Waiting
  /\ \E c \in idle : /\ idle' = idle \ {c}
                     /\ conns' = [conns EXCEPT ![r] = @ \cup {c}]
  /\ Goto(r, NextStep(pc[r]))
  /\ UNCHANGED <<locks, kind, actor, outcome>>

\* Mutants: the pool has no timeout; audit_detached lets the error out.
PoolWaitsForever(r) == FALSE
PoolTimeoutRaised(r) ==
  /\ pc[r] \in Waiting
  /\ idle = {}
  /\ Answer(r, "ERROR")
  /\ UNCHANGED <<kind, actor, committed, trail, dropped>>

\* pool_timeout has passed: audit_detached logs the error and goes on, every
\* other wait fails its request.
PoolTimeout(r) ==
  /\ pc[r] \in Waiting
  /\ idle = {}
  /\ \/ /\ pc[r] = "audit"
        /\ dropped' = dropped \cup {r}
        /\ Goto(r, AfterAudit(r))
        /\ UNCHANGED <<idle, conns, locks, resp>>
     \/ /\ pc[r] # "audit"
        /\ Answer(r, "ERROR")
        /\ UNCHANGED dropped
  /\ UNCHANGED <<kind, actor, committed, trail>>

\* get_current_user and get_current_student have read the account.  An attendance
\* operation closes that read transaction before it begins its own.
Authenticated(r) ==
  /\ pc[r] = "authenticated"
  /\ \/ /\ kind[r] \in Attends
        /\ ReleaseAll(r)
        /\ Goto(r, "begin")
     \/ /\ kind[r] \notin Attends \ {"refused"}
        /\ Goto(r, CASE kind[r] = "refused" -> "end"
                     [] kind[r] = "daily" -> "second"
                     [] kind[r] \in Profiles -> "update"
                     [] kind[r] = "verified" -> "save"
                     [] OTHER -> "audit")
        /\ UNCHANGED <<idle, conns>>
  /\ UNCHANGED <<locks, kind, actor, outcome>>

\* _load_locked_session, and what is decided behind it.  The audit row of a used
\* token names no actor.
LockSession(r) ==
  /\ pc[r] = "lock"
  /\ sessLock = None
  /\ sessLock' = r
  /\ Goto(r, CASE kind[r] = "rejected" -> "audit"
               [] kind[r] = "refused" -> "end"
               [] kind[r] = "accepted" -> "commit")
  /\ actor' \in {actor} \cup (IF kind[r] = "rejected" THEN {[actor EXCEPT ![r] = None]} ELSE {})
  /\ UNCHANGED <<idle, conns, dailyLock, userLock, kind, outcome>>

CommitAttendance(r) ==
  /\ pc[r] = "commit"
  /\ committed' = committed \cup {r}
  /\ ReleaseAll(r)
  /\ Unlock(r)
  /\ Goto(r, "audit")
  /\ UNCHANGED <<kind, actor, trail, dropped, resp>>

\* The flush of a changed profile locks the row; a number that is taken, or an
\* address, is a refusal.
FlushProfile(r) ==
  /\ pc[r] = "update"
  /\ userLock[actor[r]] = None
  /\ userLock' = [userLock EXCEPT ![actor[r]] = r]
  /\ Goto(r, "audit")
  /\ UNCHANGED <<idle, conns, sessLock, dailyLock, kind, actor, outcome>>

RefuseProfile(r) ==
  /\ pc[r] = "update"
  /\ Answer(r, "REJECTED")
  /\ UNCHANGED <<kind, actor, committed, trail, dropped>>

\* The users row that an audit row of r refers to, if it refers to one, grants a
\* key-share lock: only an UPDATE of a unique column, which users.email is, excludes it.
Shares(r) ==
  \A u \in Users : actor[r] = u /\ userLock[u] # None => kind[userLock[u]] = "profile"

\* Mutant: write_audit in the session of the request, whose rollback removes it.
InsertWithCaller(r) ==
  /\ pc[r] = "insert"
  /\ Shares(r)
  /\ trail' = IF kind[r] = "accepted" THEN trail \cup {r} ELSE trail
  /\ ReleaseOne(r)
  /\ Goto(r, AfterAudit(r))
  /\ UNCHANGED <<locks, kind, actor, committed, dropped, resp>>

\* The INSERT into audit_logs takes that lock, whoever holds the row.
InsertAudit(r) ==
  /\ pc[r] = "insert"
  /\ Shares(r)
  /\ trail' = trail \cup {r}
  /\ ReleaseOne(r)
  /\ Goto(r, AfterAudit(r))
  /\ UNCHANGED <<locks, kind, actor, committed, dropped, resp>>

\* _ensure_daily_session: the advisory lock, then creation or refresh, then the
\* commit of the second connection.
LockDaily(r) ==
  /\ pc[r] = "advisory"
  /\ dailyLock = None
  /\ dailyLock' = r
  /\ Goto(r, "ensure")
  /\ UNCHANGED <<idle, conns, sessLock, userLock, kind, actor, outcome>>

CommitDaily(r) ==
  /\ pc[r] = "ensure"
  /\ ReleaseOne(r)
  /\ dailyLock' = None
  /\ Goto(r, "end")
  /\ UNCHANGED <<sessLock, userLock, kind, actor, outcome>>

\* The commit of a profile or of a place token, which gives the connection back;
\* db.refresh then begins another transaction.
Save(r) ==
  /\ pc[r] = "save"
  /\ committed' = committed \cup {r}
  /\ ReleaseAll(r)
  /\ Unlock(r)
  /\ Goto(r, "refresh")
  /\ UNCHANGED <<kind, actor, trail, dropped, resp>>

\* The handler returns or raises.
End(r) ==
  /\ pc[r] = "end"
  /\ \/ kind[r] \in {"rejected", "refused", "verify_failed"} /\ Answer(r, "REJECTED")
     \/ kind[r] \notin {"rejected", "verify_failed"} /\ Answer(r, "OK")
  /\ UNCHANGED <<kind, actor, committed, trail, dropped>>

-----------------------------------------------------------------------------
Init ==
  /\ idle = Connections
  /\ conns = [r \in Requests |-> {}]
  /\ sessLock = None
  /\ dailyLock = None
  /\ userLock = [u \in Users |-> None]
  /\ pc = [r \in Requests |-> "idle"]
  /\ kind = [r \in Requests |-> None]
  /\ actor = [r \in Requests |-> None]
  /\ committed = {}
  /\ trail = {}
  /\ dropped = {}
  /\ resp = [r \in Requests |-> "none"]

Step(r) ==
  \/ Connect(r)
  \/ PoolTimeout(r)
  \/ Authenticated(r)
  \/ LockSession(r)
  \/ CommitAttendance(r)
  \/ FlushProfile(r)
  \/ RefuseProfile(r)
  \/ Save(r)
  \/ InsertAudit(r)
  \/ LockDaily(r)
  \/ CommitDaily(r)
  \/ End(r)

Next ==
  \E r \in Requests :
    \/ \E k \in Kinds, u \in Users : Arrive(r, k, u)
    \/ Step(r)

Spec == Init /\ [][Next]_vars
FairSpec == Spec /\ \A r \in Requests : WF_vars(Step(r))
-----------------------------------------------------------------------------
TypeOK ==
  /\ idle \subseteq Connections
  /\ conns \in [Requests -> SUBSET Connections]
  /\ sessLock \in Requests \cup {None}
  /\ dailyLock \in Requests \cup {None}
  /\ userLock \in [Users -> Requests \cup {None}]
  /\ pc \in [Requests -> Steps]
  /\ kind \in [Requests -> Courses \cup {None}]
  /\ actor \in [Requests -> Users \cup {None}]
  /\ committed \subseteq Requests
  /\ trail \subseteq Requests
  /\ dropped \subseteq Requests
  /\ resp \in [Requests -> {"none", "OK", "REJECTED", "ERROR"}]

ConnectionsOwned ==
  /\ idle \cup UNION {conns[r] : r \in Requests} = Connections
  /\ \A r \in Requests : idle \cap conns[r] = {}
  /\ \A q, r \in Requests : q # r => conns[q] \cap conns[r] = {}

Holds(r) == r \in {sessLock, dailyLock} \/ \E u \in Users : userLock[u] = r

NothingKept ==
  \A r \in Requests : /\ pc[r] = "done" => conns[r] = {}
                      /\ Holds(r) => conns[r] # {}

\* Every connection is in the pool or checked out by exactly one request, none
\* leaks on an error path, and no lock outlives the connection of its transaction: who waits on a
\* lock waits for a request that is still under way.
ConnectionsAccounted == ConnectionsOwned /\ NothingKept

\* audit_service.py:4-5: a duplicate, a used token and a failed verification have
\* their audit row when they are answered, although their own transaction was
\* rolled back, unless the pool stayed empty until the audit was given up.
RejectionsAreRecorded ==
  \A r \in Requests : resp[r] = "REJECTED" /\ kind[r] \in {"rejected", "verify_failed"}
                        => r \in trail \cup dropped

\* audit_service.py:4-5, "failed verification attempts are recorded even when the
\* surrounding transaction is rolled back": no attempt at the attendance or the
\* place is refused without one.
EveryRefusalIsRecorded ==
  \A r \in Requests : resp[r] = "REJECTED" /\ kind[r] \notin Profiles => r \in trail \cup dropped

\* An attendance operation that has committed is past the steps at which the pool
\* can fail it, one that is rejected has tried to write its audit row, and each step
\* is one of the courses that have it.
PastFailure ==
  \A r \in Requests :
    /\ r \in committed => \/ pc[r] \in {"refresh", "end", "done"}
                          \/ pc[r] \in {"audit", "insert"} /\ kind[r] = "accepted"
    /\ pc[r] = "end" /\ kind[r] \in {"rejected", "verify_failed"}
         => r \in trail \cup dropped
    /\ pc[r] \in {"second", "advisory", "ensure"} => kind[r] = "daily"
    /\ pc[r] \in {"begin", "lock"} => kind[r] \in Attends
    /\ pc[r] = "commit" => kind[r] = "accepted"
    /\ pc[r] = "update" => kind[r] \in Profiles
    /\ pc[r] \in {"save", "refresh"} => kind[r] \in Profiles \cup {"verified"}
    /\ resp[r] # "none" => pc[r] = "done"

\* audit_service.py:67, "auditing must never break the request path": an attendance
\* operation that committed before its audit row is not answered with an error.
\* A profile or a place token can be: its refresh needs the pool after the commit.
CommittedIsNotReportedFailed ==
  \A r \in committed : kind[r] = "accepted" => resp[r] # "ERROR"

\* The same of every request, those that refresh after their commit among them.
NoCommitReportedFailed == \A r \in committed : resp[r] # "ERROR"

\* The inductive invariant behind the theorems of this module: types, the ownership
\* of connections, and what the step of a request says of its commit and audit row.
PoolInv ==
  /\ TypeOK
  /\ ConnectionsOwned
  /\ RejectionsAreRecorded
  /\ PastFailure
  /\ CommittedIsNotReportedFailed

Two(r) == \E c, d \in conns[r] : c # d

\* The connections and locks of a request at its step: the first connection is that of
\* its session, the second that of an audit row or of the day's session.
HeldByStep(r) ==
  /\ pc[r] \in {"idle", "auth", "begin", "refresh", "done"} => conns[r] = {}
  /\ pc[r] \in {"authenticated", "lock", "commit", "update", "save", "second", "insert"}
       => conns[r] # {}
  /\ pc[r] \in {"audit", "end"} /\ kind[r] # "accepted" => conns[r] # {}
  /\ pc[r] \in {"advisory", "ensure"} \/ (pc[r] = "insert" /\ kind[r] # "accepted") => Two(r)
  /\ sessLock = r =>
       pc[r] = "commit" \/ (pc[r] \in {"audit", "insert", "end"} /\ kind[r] \in {"rejected", "refused"})
  /\ dailyLock = r => pc[r] = "ensure"
  /\ \A u \in Users : userLock[u] = r =>
       pc[r] \in {"audit", "insert", "save"} /\ kind[r] \in Profiles

\* The inductive invariant behind NothingKept, beside PoolInv.
HeldInv == \A r \in Requests : HeldByStep(r)

\* Every request is answered although each may hold what another waits for:
\* connections, the session row, the advisory lock, a users row.  While nobody
\* changes an e-mail address, that is: ProfileUpdateAnswered tells why.
EveryRequestAnswered ==
  [](\A r \in Requests : kind[r] # "email")
    => \A r \in Requests : pc[r] # "idle" ~> pc[r] = "done"

\* audit_service.py:67, "auditing must never break the request path": a profile
\* update is answered.
ProfileUpdateAnswered ==
  \A r \in Requests : kind[r] \in Profiles ~> pc[r] = "done"
=============================================================================
