----------------------------- MODULE ServerClock -----------------------------
(***************************************************************************)
(* The clock the attendance page judges its windows by: hooks/             *)
(* useServerClock.ts, lib/checkout.ts and the guards of AttendancePage.tsx.*)
(* The header above the page, SessionCountdown.tsx, uses the hook a second *)
(* time, with a difference and requests of its own, and is not modelled.   *)
(*                                                                         *)
(* The page asks the server for its time when it is opened, every five     *)
(* minutes and whenever it comes back into view.  An answer sets the       *)
(* difference to the phone's clock; answers overtake each other and carry  *)
(* a time that was right when the server read it.  What is shown is the    *)
(* phone's time of the last second's tick plus that difference.  Timers of *)
(* a page out of view stand still, and the phone's clock can be set.       *)
(*                                                                         *)
(* now is the server's time, in seconds; the phone shows now + skew.       *)
(***************************************************************************)
EXTENDS Integers

CONSTANTS Requests,        \* bound: requests for the time on their way
          Timeout,         \* of a request
          Skews,           \* errors the phone's clock is set to
          Start,           \* the server's time when the page is opened
          CheckInCloses, CheckoutOpens, CheckoutCloses,
          MaxNow           \* bound of now

ASSUME ServerClockAssumption ==
  /\ Timeout \in Nat
  /\ Skews \subseteq Int
  /\ Start \in Nat
  /\ CheckInCloses \in Nat
  /\ CheckoutOpens \in Nat
  /\ CheckoutCloses \in Nat
  /\ CheckoutOpens <= CheckoutCloses
  /\ MaxNow \in Nat

VARIABLES
  now, skew,
  visible,     \* the page is in view
  tick,        \* the phone's time at the last tick
  offset, synced,
  req,         \* the requests for the time
  checkedIn,   \* the page's record: the scan is a check-out
  scan,        \* the scan that is running, "none", "in" or "out"
  tickAt, tickSkew,  \* now and skew at the last tick (history)
  offsetSkew         \* skew when offset was set (history)

vars == <<now, skew, visible, tick, offset, synced, req, checkedIn, scan,
          tickAt, tickSkew, offsetSkew>>

\* A request was sent at a time; answered, it carries the time of the server.
Request == [state: {"idle", "sent", "answered"}, sent: Nat, serverNow: Nat]
Idle == [state |-> "idle", sent |-> 0, serverNow |-> 0]
Pending(r) == req[r].state # "idle"

Phone == now + skew
clock == tick + offset

-----------------------------------------------------------------------------
(* The windows, at a time t.                                               *)

\* checkoutWindow.
CheckoutState(t) ==
  CASE t < CheckoutOpens -> "before"
    [] t > CheckoutCloses -> "closed"
    [] OTHER -> "open"

\* The guards of scanFace.
MayScan(op, t) ==
  IF op = "out" THEN CheckoutState(t) = "open" ELSE t <= CheckInCloses

-----------------------------------------------------------------------------
(* The hook.                                                               *)

SetTick ==
  /\ tick' = Phone
  /\ tickAt' = now
  /\ tickSkew' = skew

\* sync(): a request, if one may be under way.
Sync ==
  \/ \E r \in Requests :
       /\ ~Pending(r)
       /\ req' = [req EXCEPT ![r] = [state |-> "sent", sent |-> now, serverNow |-> 0]]
  \/ UNCHANGED req

\* setInterval of one second.
TickInterval ==
  /\ visible
  /\ SetTick
  /\ UNCHANGED <<now, skew, visible, offset, synced, req, checkedIn, scan, offsetSkew>>

\* Mutant: the time is asked for once, when the page is opened.
PollOnce ==
  /\ ~synced
  /\ Sync
  /\ UNCHANGED <<now, skew, visible, tick, offset, synced, checkedIn, scan,
                 tickAt, tickSkew, offsetSkew>>

Poll ==
  /\ Sync
  /\ UNCHANGED <<now, skew, visible, tick, offset, synced, checkedIn, scan,
                 tickAt, tickSkew, offsetSkew>>

\* Mutant: coming back into view asks for the time but shows the last tick.
FocusUnticked ==
  /\ ~visible
  /\ visible' = TRUE
  /\ Sync
  /\ UNCHANGED <<now, skew, offset, synced, checkedIn, scan, offsetSkew,
                 tick, tickAt, tickSkew>>

\* onFocus.
Focus ==
  /\ ~visible
  /\ visible' = TRUE
  /\ SetTick
  /\ Sync
  /\ UNCHANGED <<now, skew, offset, synced, checkedIn, scan, offsetSkew>>

Hide ==
  /\ visible
  /\ visible' = FALSE
  /\ UNCHANGED <<now, skew, tick, offset, synced, req, checkedIn, scan,
                 tickAt, tickSkew, offsetSkew>>

\* GET /student/attendance/server-time reads the server's clock.
ServerReads(r) ==
  /\ req[r].state = "sent"
  /\ req' = [req EXCEPT ![r].state = "answered", ![r].serverNow = now]
  /\ UNCHANGED <<now, skew, visible, tick, offset, synced, checkedIn, scan,
                 tickAt, tickSkew, offsetSkew>>

\* The last answer to arrive wins.
Arrives(r) ==
  /\ req[r].state = "answered"
  /\ offset' = req[r].serverNow - Phone
  /\ synced' = TRUE
  /\ offsetSkew' = skew
  /\ req' = [req EXCEPT ![r] = Idle]
  /\ UNCHANGED <<now, skew, visible, tick, checkedIn, scan, tickAt, tickSkew>>

\* A failure, or an answer without a readable time, keeps the difference.
Fails(r) ==
  /\ Pending(r)
  /\ req' = [req EXCEPT ![r] = Idle]
  /\ UNCHANGED <<now, skew, visible, tick, offset, synced, checkedIn, scan,
                 tickAt, tickSkew, offsetSkew>>

-----------------------------------------------------------------------------
(* The page.                                                               *)

\* Mutant: the guard takes the phone's time.
StartScanByPhone(op) ==
  /\ visible
  /\ scan = "none"
  /\ checkedIn = (op = "out")
  /\ MayScan(op, Phone)
  /\ scan' = op
  /\ UNCHANGED <<now, skew, visible, tick, offset, synced, req, checkedIn,
                 tickAt, tickSkew, offsetSkew>>

\* scanFace; the button is locked by the same windows.
StartScan(op) ==
  /\ visible
  /\ scan = "none"
  /\ checkedIn = (op = "out")
  /\ MayScan(op, clock)
  /\ scan' = op
  /\ UNCHANGED <<now, skew, visible, tick, offset, synced, req, checkedIn,
                 tickAt, tickSkew, offsetSkew>>

EndScan ==
  /\ scan # "none"
  /\ \E recorded \in BOOLEAN : checkedIn' = IF recorded THEN scan = "in" ELSE checkedIn
  /\ scan' = "none"
  /\ UNCHANGED <<now, skew, visible, tick, offset, synced, req,
                 tickAt, tickSkew, offsetSkew>>

-----------------------------------------------------------------------------
(* Time.                                                                   *)

\* The page in view ticks every second, and no request outlives its timeout: that
\* of a page out of view is taken to end in time as well.
TimePasses ==
  /\ now < MaxNow
  /\ visible => now < tickAt + 1
  /\ \A r \in Requests : Pending(r) => now < req[r].sent + Timeout
  /\ now' = now + 1
  /\ UNCHANGED <<skew, visible, tick, offset, synced, req, checkedIn, scan,
                 tickAt, tickSkew, offsetSkew>>

\* The student, or the network, sets the phone's clock.
PhoneIsSet ==
  /\ skew' \in Skews
  /\ UNCHANGED <<now, visible, tick, offset, synced, req, checkedIn, scan,
                 tickAt, tickSkew, offsetSkew>>

Init ==
  /\ now = Start
  /\ skew \in Skews
  /\ visible = TRUE
  /\ tick = Phone
  /\ offset = 0
  /\ synced = FALSE
  /\ req = [r \in Requests |-> Idle]
  /\ checkedIn \in BOOLEAN
  /\ scan = "none"
  /\ tickAt = now
  /\ tickSkew = skew
  /\ offsetSkew = skew

Network(r) == ServerReads(r) \/ Arrives(r) \/ Fails(r)

Next ==
  \/ TickInterval \/ Poll \/ Focus \/ Hide
  \/ \E r \in Requests : Network(r)
  \/ \E op \in {"in", "out"} : StartScan(op)
  \/ EndScan
  \/ TimePasses \/ PhoneIsSet

Spec == Init /\ [][Next]_vars

\* Timers run while the page is in view.  That every so often an answer comes
\* back in time is an assumption about the network.
FairSpec ==
  /\ Spec
  /\ WF_vars(TickInterval)
  /\ \A r \in Requests :
       /\ WF_vars(Poll /\ ~Pending(r) /\ Pending(r)')
       /\ WF_vars(Network(r))
       /\ SF_vars(ServerReads(r))
       /\ SF_vars(Arrives(r))

-----------------------------------------------------------------------------
TypeOK ==
  /\ now \in Nat
  /\ skew \in Skews
  /\ visible \in BOOLEAN
  /\ tick \in Int
  /\ offset \in Int
  /\ synced \in BOOLEAN
  /\ req \in [Requests -> Request]
  /\ checkedIn \in BOOLEAN
  /\ scan \in {"none", "in", "out"}
  /\ tickAt \in Nat
  /\ tickSkew \in Skews
  /\ offsetSkew \in Skews
  /\ tick = tickAt + tickSkew

\* The phone's clock has not been set since the tick and the answer in use.
Steady == tickSkew = skew /\ offsetSkew = skew

\* The clock of a page in view is never fast, and never behind by more than the
\* delay of one answer and one tick, in whatever order the answers came.
ClockBounds ==
  visible /\ synced /\ Steady => now - Timeout - 1 <= clock /\ clock <= now

\* With a synced clock no scan is begun before its window opens or more than
\* that delay after it closed.
WindowsBounded ==
  visible /\ synced /\ Steady =>
    /\ MayScan("out", clock) => CheckoutOpens <= now
    /\ MayScan("out", clock) => now <= CheckoutCloses + Timeout + 1
    /\ MayScan("in", clock) => now <= CheckInCloses + Timeout + 1

\* A check-out scan that begins does so inside its window.
ScanInWindow ==
  [][scan = "none" /\ scan' = "out" /\ synced /\ Steady =>
       now \in CheckoutOpens .. CheckoutCloses + Timeout + 1]_vars

\* A clock that was set is right again once the page has asked, if it is not
\* set again.
ClockRecovers == <>[][UNCHANGED <<skew, visible>>]_vars => <>[](visible => synced /\ Steady)
=============================================================================
