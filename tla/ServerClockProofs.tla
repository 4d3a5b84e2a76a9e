-------------------------- MODULE ServerClockProofs --------------------------
(***************************************************************************)
(* How far the clock of the attendance page can be off, for every timeout, *)
(* number of requests, set of windows and setting of the phone's clock.    *)
(***************************************************************************)
EXTENDS ServerClock, TLAPS

USE ServerClockAssumption

\* The page in view has ticked within the last second.
Ticked == tickAt <= now /\ (visible => now <= tickAt + 1)

\* A request is no older than its timeout, and an answer was read meanwhile.
InFlight ==
  \A r \in Requests :
    /\ Pending(r) => req[r].sent <= now /\ now <= req[r].sent + Timeout
    /\ req[r].state = "answered" =>
         req[r].sent <= req[r].serverNow /\ req[r].serverNow <= now

\* The difference in use, freed of the error of the phone's clock it was taken
\* with, is the delay of its answer.
Sampled == synced => -Timeout <= offset + offsetSkew /\ offset + offsetSkew <= 0

ClockInv == TypeOK /\ Ticked /\ InFlight /\ Sampled

-----------------------------------------------------------------------------
\* A poll adds one young request, or none.
LEMMA SyncKeeps ==
  ASSUME ClockInv, Sync, UNCHANGED now
  PROVE  req' \in [Requests -> Request] /\ InFlight'
<1>1. CASE UNCHANGED req
  BY <1>1 DEF ClockInv, TypeOK, InFlight, Pending
<1>2. CASE \E r \in Requests :
             req' = [req EXCEPT ![r] = [state |-> "sent", sent |-> now, serverNow |-> 0]]
  <2>1. PICK r \in Requests :
          req' = [req EXCEPT ![r] = [state |-> "sent", sent |-> now, serverNow |-> 0]]
    BY <1>2
  <2>2. [state |-> "sent", sent |-> now, serverNow |-> 0] \in Request
    BY DEF ClockInv, TypeOK, Request
  <2>3. req' \in [Requests -> Request]
    BY <2>1, <2>2 DEF ClockInv, TypeOK
  <2>4. \A q \in Requests : q # r => req'[q] = req[q]
    BY <2>1 DEF ClockInv, TypeOK
  <2>5. req'[r] = [state |-> "sent", sent |-> now, serverNow |-> 0]
    BY <2>1 DEF ClockInv, TypeOK
  <2>6. now \in Nat
    BY DEF ClockInv, TypeOK
  <2> QED BY <2>3, <2>4, <2>5, <2>6 DEF ClockInv, InFlight, Pending
<1> QED BY <1>1, <1>2 DEF Sync

\* The rest of what a step of the page leaves alone.
LEMMA PageKeeps ==
  ASSUME ClockInv,
         UNCHANGED <<now, skew, offset, synced, offsetSkew>>,
         \/ UNCHANGED <<visible, tick, tickAt, tickSkew>>
         \/ visible' = FALSE /\ UNCHANGED <<tick, tickAt, tickSkew>>
         \/ visible' \in BOOLEAN /\ SetTick,
         checkedIn' \in BOOLEAN, scan' \in {"none", "in", "out"},
         req' \in [Requests -> Request], InFlight'
  PROVE  ClockInv'
<1>1. /\ now \in Nat /\ skew \in Int /\ tick \in Int /\ tickAt \in Nat
      /\ tickSkew \in Skews /\ tick = tickAt + tickSkew
  BY DEF ClockInv, TypeOK
<1>4. tick' \in Int /\ tickAt' \in Nat /\ tickSkew' \in Skews /\ tick' = tickAt' + tickSkew'
  <2>1. CASE UNCHANGED <<tick, tickAt, tickSkew>>
    BY <1>1, <2>1
  <2>2. CASE SetTick
    BY <1>1, <2>2 DEF SetTick, Phone, ClockInv, TypeOK
  <2> QED BY <2>1, <2>2
<1>5. TypeOK'
  BY <1>4 DEF ClockInv, TypeOK
<1>2. Ticked'
  BY DEF ClockInv, TypeOK, Ticked, SetTick
<1>3. Sampled'
  BY DEF ClockInv, Sampled
<1> QED BY <1>5, <1>2, <1>3 DEF ClockInv

\* What happens to the request r.
LEMMA NetworkKeeps ==
  ASSUME ClockInv, NEW r \in Requests, Network(r)
  PROVE  ClockInv'
<1> USE DEF ClockInv
<1>0. now \in Nat /\ req[r] \in Request
  BY DEF TypeOK
<1>1. CASE ServerReads(r)
  <2>1. [req[r] EXCEPT !.state = "answered", !.serverNow = now] \in Request
    BY <1>0 DEF Request
  <2>2. req' = [req EXCEPT ![r] = [req[r] EXCEPT !.state = "answered", !.serverNow = now]]
    BY <1>1, <1>0 DEF ServerReads, Request, TypeOK
  <2>3. req' \in [Requests -> Request]
    BY <2>1, <2>2 DEF TypeOK
  <2>4. \A q \in Requests : q # r => req'[q] = req[q]
    BY <2>2 DEF TypeOK
  <2>5. /\ req'[r].state = "answered" /\ req'[r].serverNow = now
        /\ req'[r].sent = req[r].sent
    BY <2>2, <1>0 DEF TypeOK, Request
  <2>6. req[r].sent <= now /\ now <= req[r].sent + Timeout /\ now' = now
    BY <1>1 DEF ServerReads, InFlight, Pending
  <2>7. \A q \in Requests : q # r =>
          /\ req'[q].state # "idle" => req'[q].sent <= now' /\ now' <= req'[q].sent + Timeout
          /\ req'[q].state = "answered" =>
               req'[q].sent <= req'[q].serverNow /\ req'[q].serverNow <= now'
    BY <2>4, <2>6 DEF InFlight, Pending
  <2>8. InFlight'
    BY <1>0, <2>5, <2>6, <2>7 DEF InFlight, Pending
  <2> QED BY <1>1, <2>3, <2>8, PageKeeps DEF ServerReads, TypeOK
<1>2. CASE Arrives(r) \/ Fails(r)
  <2>1. Idle \in Request /\ req' = [req EXCEPT ![r] = Idle]
    BY <1>2 DEF Arrives, Fails, Idle, Request
  <2>2. req' \in [Requests -> Request]
    BY <2>1 DEF TypeOK
  <2>3. \A q \in Requests : req'[q] = IF q = r THEN Idle ELSE req[q]
    BY <2>1 DEF TypeOK
  <2>4. InFlight'
    BY <1>2, <2>3 DEF InFlight, Pending, Idle, Arrives, Fails
  <2>5. CASE Fails(r)
    BY <2>2, <2>4, <2>5, PageKeeps DEF Fails, TypeOK
  <2>6. CASE Arrives(r)
    <3>1. offset' = req[r].serverNow - (now + skew) /\ offsetSkew' = skew
      BY <2>6 DEF Arrives, Phone
    <3>2. /\ req[r].serverNow \in Nat /\ req[r].sent \in Nat
          /\ req[r].sent <= req[r].serverNow /\ req[r].serverNow <= now
          /\ now <= req[r].sent + Timeout
      BY <1>0, <2>6 DEF Arrives, InFlight, Pending, Request
    <3>3. skew \in Int
      BY DEF TypeOK
    <3>4. -Timeout <= offset' + offsetSkew' /\ offset' + offsetSkew' <= 0
      BY <1>0, <3>1, <3>2, <3>3
    <3>5. offset' \in Int
      BY <1>0, <3>1, <3>2, <3>3
    <3>6. TypeOK' /\ Ticked'
      BY <2>6, <2>2, <3>5 DEF Arrives, TypeOK, Ticked
    <3>7. Sampled'
      BY <3>4 DEF Sampled
    <3> QED BY <2>4, <3>6, <3>7
  <2> QED BY <1>2, <2>5, <2>6
<1> QED BY <1>1, <1>2 DEF Network

-----------------------------------------------------------------------------
LEMMA ClockStep == ClockInv /\ [Next]_vars => ClockInv'
<1> SUFFICES ASSUME ClockInv, [Next]_vars PROVE ClockInv'
  OBVIOUS
<1>0. TypeOK
  BY DEF ClockInv
<1>1. CASE TickInterval
  <2>1. req' \in [Requests -> Request] /\ InFlight'
    BY <1>1 DEF TickInterval, ClockInv, TypeOK, InFlight, Pending
  <2> QED BY <1>0, <1>1, <2>1, PageKeeps DEF TickInterval, TypeOK
<1>2. CASE Poll
  BY <1>0, <1>2, SyncKeeps, PageKeeps DEF Poll, TypeOK
<1>3. CASE Focus
  BY <1>0, <1>3, SyncKeeps, PageKeeps DEF Focus, TypeOK
<1>4. CASE Hide
  <2>1. req' \in [Requests -> Request] /\ InFlight'
    BY <1>4 DEF Hide, ClockInv, TypeOK, InFlight, Pending
  <2> QED BY <1>0, <1>4, <2>1, PageKeeps DEF Hide, TypeOK
<1>5. ASSUME NEW r \in Requests, Network(r) PROVE ClockInv'
  BY <1>5, NetworkKeeps
<1>6. CASE (\E op \in {"in", "out"} : StartScan(op)) \/ EndScan
  <2>1. req' \in [Requests -> Request] /\ InFlight'
    BY <1>6 DEF StartScan, EndScan, ClockInv, TypeOK, InFlight, Pending
  <2>2. checkedIn' \in BOOLEAN /\ scan' \in {"none", "in", "out"}
    BY <1>0, <1>6 DEF StartScan, EndScan, TypeOK
  <2> QED BY <1>6, <2>1, <2>2, PageKeeps DEF StartScan, EndScan
<1>7. CASE TimePasses
  <2>1. now \in Nat /\ now' = now + 1
    BY <1>0, <1>7 DEF TimePasses, TypeOK
  <2>2. TypeOK'
    BY <1>0, <1>7, <2>1 DEF TimePasses, TypeOK
  <2>3. Ticked'
    BY <1>0, <1>7, <2>1 DEF TimePasses, TypeOK, ClockInv, Ticked
  <2>4. \A r \in Requests : req[r].sent \in Nat /\ req[r].serverNow \in Nat
    BY <1>0 DEF TypeOK, Request
  <2>5. InFlight'
    BY <1>7, <2>1, <2>4 DEF TimePasses, ClockInv, InFlight, Pending
  <2>6. Sampled'
    BY <1>7 DEF TimePasses, ClockInv, Sampled
  <2> QED BY <2>2, <2>3, <2>5, <2>6 DEF ClockInv
<1>8. CASE PhoneIsSet
  BY <1>8 DEF PhoneIsSet, ClockInv, TypeOK, Ticked, InFlight, Pending, Sampled
<1>9. CASE UNCHANGED vars
  BY <1>9 DEF vars, ClockInv, TypeOK, Ticked, InFlight, Pending, Sampled
<1> QED BY <1>1, <1>2, <1>3, <1>4, <1>5, <1>6, <1>7, <1>8, <1>9 DEF Next

\* The inductive invariant: a recent tick, requests within their timeout, and a
\* difference that is the delay of one answer.
THEOREM ClockInvariant == Spec => []ClockInv
<1>1. Init => ClockInv
  <2> SUFFICES ASSUME Init PROVE ClockInv
    OBVIOUS
  <2>1. Idle \in Request
    BY DEF Idle, Request
  <2>3. now \in Nat /\ skew \in Int /\ skew \in Skews
    BY DEF Init
  <2>4. tick \in Int /\ tick = tickAt + tickSkew
    BY <2>3 DEF Init, Phone
  <2>5. req \in [Requests -> Request]
    BY <2>1 DEF Init
  <2>6. tickAt \in Nat /\ tickSkew \in Skews /\ offsetSkew \in Skews /\ offset \in Int
    BY <2>3 DEF Init
  <2>7. visible \in BOOLEAN /\ synced \in BOOLEAN /\ checkedIn \in BOOLEAN
    BY DEF Init
  <2>8. scan \in {"none", "in", "out"}
    BY DEF Init
  <2>9. TypeOK
    BY <2>3, <2>4, <2>5, <2>6, <2>7, <2>8 DEF TypeOK
  <2> QED BY <2>9 DEF Init, ClockInv, Ticked, InFlight, Pending, Idle, Sampled
<1> QED BY <1>1, ClockStep, PTL DEF Spec

\* Every variable keeps its type, and a tick shows the phone's time.
THEOREM TypeCorrect == Spec => []TypeOK
<1>1. ClockInv => TypeOK
  BY DEF ClockInv
<1> QED BY <1>1, ClockInvariant, PTL

LEMMA InvGivesBounds == ClockInv => ClockBounds
<1> SUFFICES ASSUME ClockInv, visible, synced, Steady
             PROVE  now - Timeout - 1 <= clock /\ clock <= now
  BY DEF ClockBounds
<1>1. /\ tick = tickAt + skew /\ tickAt <= now /\ now <= tickAt + 1
      /\ -Timeout <= offset + skew /\ offset + skew <= 0
  BY DEF ClockInv, TypeOK, Ticked, Sampled, Steady
<1>2. now \in Nat /\ tickAt \in Nat /\ skew \in Int /\ offset \in Int
  BY DEF ClockInv, TypeOK
<1> QED BY <1>1, <1>2 DEF clock

\* useServerClock: a synced clock in view is never fast and is behind by at most
\* one timeout and one tick, in whatever order answers came.
THEOREM ClockIsBounded == Spec => []ClockBounds
  BY ClockInvariant, InvGivesBounds, PTL

LEMMA BoundsGiveWindows == ClockInv => WindowsBounded
<1> SUFFICES ASSUME ClockInv, visible, synced, Steady
             PROVE  /\ MayScan("out", clock) => CheckoutOpens <= now
                    /\ MayScan("out", clock) => now <= CheckoutCloses + Timeout + 1
                    /\ MayScan("in", clock) => now <= CheckInCloses + Timeout + 1
  BY DEF WindowsBounded
<1>1. now - Timeout - 1 <= clock /\ clock <= now
  BY InvGivesBounds DEF ClockBounds
<1>2. now \in Nat /\ clock \in Int
  BY DEF ClockInv, TypeOK, clock
<1>3. MayScan("out", clock) => CheckoutOpens <= clock /\ clock <= CheckoutCloses
  BY <1>2 DEF MayScan, CheckoutState
<1>4. MayScan("in", clock) => clock <= CheckInCloses
  BY DEF MayScan
<1> QED BY <1>1, <1>2, <1>3, <1>4

\* scanFace: neither window is taken for open more than that delay after it closed,
\* nor that of the check-out before it opens.
THEOREM WindowsAreBounded == Spec => []WindowsBounded
  BY ClockInvariant, BoundsGiveWindows, PTL

\* scanFace: a check-out scan begins in its window, up to the same delay.
THEOREM ScansAreInWindow == Spec => ScanInWindow
<1>1. ClockInv /\ [Next]_vars =>
        [scan = "none" /\ scan' = "out" /\ synced /\ Steady =>
           now \in CheckoutOpens .. CheckoutCloses + Timeout + 1]_vars
  <2> SUFFICES ASSUME ClockInv, Next, scan = "none", scan' = "out", synced, Steady
               PROVE  now \in CheckoutOpens .. CheckoutCloses + Timeout + 1
    BY DEF vars
  <2>1. StartScan("out")
    BY DEF Next, TickInterval, Poll, Focus, Hide, Network, ServerReads, Arrives, Fails,
           StartScan, EndScan, TimePasses, PhoneIsSet
  <2>2. CheckoutOpens <= now /\ now <= CheckoutCloses + Timeout + 1
    BY <2>1, BoundsGiveWindows DEF StartScan, WindowsBounded
  <2>3. now \in Nat
    BY DEF ClockInv, TypeOK
  <2> QED BY <2>2, <2>3
<1> QED BY <1>1, ClockInvariant, PTL DEF Spec, ScanInWindow
=============================================================================
