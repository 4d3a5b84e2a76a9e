------------------------------ MODULE FaceScan ------------------------------
(***************************************************************************)
(* The face scanner of the student's browser: pages/student/               *)
(* AttendancePage.tsx and the enrolment dialog FaceEnrollmentPage.tsx over *)
(* hooks/useCameraFrames.ts, useFaceMonitor.ts and useGeolocation.ts.      *)
(*                                                                         *)
(* A scan is one asynchronous function.  Between any two of its awaits the *)
(* student may leave the page: the component is gone, its cleanup has      *)
(* stopped camera and monitor, but the function runs on until it looks at  *)
(* runId, and what it awaited may still arrive.  A page that is opened     *)
(* again is a new instance with hooks of its own, next to the function the *)
(* old one left behind; both share the landmark model and the server.      *)
(*                                                                         *)
(* Deadlines are the end of a loop that may come at any time.  What the    *)
(* camera sees, the windows of the session (module ServerClock) and the    *)
(* tokens of the requests (module Attendance) are left out.                *)
(***************************************************************************)
EXTENDS Naturals, FiniteSets

CONSTANTS Pages,      \* instances of AttendancePage, one mounted at a time
          Dialogs,    \* instances of FaceEnrollmentPage inside a page
          MinFrames,  \* frames captureChallenge needs
          MaxFrames,  \* MAX_CAPTURE_FRAMES
          Poses,      \* poses of an enrolment
          Overlap,    \* bound: scan functions that run at a time
          None

ASSUME FaceScanAssumption ==
  /\ MinFrames \in Nat \ {0}
  /\ MaxFrames \in Nat
  /\ MinFrames <= MaxFrames
  /\ Poses \in Nat \ {0}
  /\ Overlap \in Nat
  /\ Pages \cap Dialogs = {}
  /\ None \notin Pages \cup Dialogs

Scanners == Pages \cup Dialogs

\* Where the asynchronous function of a scanner waits.
CameraUse == {"preview", "loading", "position", "gps", "location", "challenge",
              "capture", "poses"}
MonitorUse == {"position", "gps", "location", "challenge", "capture", "poses"}
Upload == {"verify", "submit", "enrol"}
Step == {"idle", "opening"} \cup CameraUse \cup Upload

Attendance == {"absent", "in", "out"}
Rank(r) == CASE r = "absent" -> 0 [] r = "in" -> 1 [] r = "out" -> 2

\* load is the page's initial requests: "answered" once the server has read
\* the record (snap), which the page has not got yet.
Page == [mounted: BOOLEAN, stage: {"intro", "scanning", "success", "error"},
         load: {"sent", "answered", "done"}, snap: Attendance,
         record: Attendance, enrolled: BOOLEAN, host: Pages \cup {None}]
\* current: no stop() since the last start().
Monitor == [current: BOOLEAN, running: BOOLEAN]
Search == {"none", "precise", "coarse", "last", "found", "failed"}
\* What a scan decided and collected; live is runId.current === activeRun.
Scan == [live: BOOLEAN, out: BOOLEAN, frames: 0 .. MaxFrames, gesture: BOOLEAN,
         acted: BOOLEAN, actFrame: BOOLEAN, poses: 0 .. Poses]

VARIABLES
  page,
  pc,          \* where the scan function waits
  cam,         \* the tracks of stream.current are live
  mon,
  gps,         \* the search of getLocation
  scan,
  landmarker,  \* the module's landmarkerPromise
  record,      \* the student's attendance at the server
  posts,       \* check-in and check-out requests on their way
  abandoned    \* scans left before they had captured what they send (history)

vars == <<page, pc, cam, mon, gps, scan, landmarker, record, posts, abandoned>>

Post == [from: Pages \cup {None}, op: {"in", "out"}]

Closed == [mounted |-> FALSE, stage |-> "intro", load |-> "sent", snap |-> "absent",
           record |-> "absent", enrolled |-> FALSE, host |-> None]
NoScan == [live |-> FALSE, out |-> FALSE, frames |-> 0, gesture |-> FALSE,
           acted |-> FALSE, actFrame |-> FALSE, poses |-> 0]

-----------------------------------------------------------------------------
(* Hooks.                                                                  *)

\* stop() of useFaceMonitor.
MonitorStopped == [current |-> FALSE, running |-> FALSE]

\* stop() of useCameraFrames.
StopCamera(S) == cam' = [v \in Scanners |-> v \notin S /\ cam[v]]
StopMonitor(S) == mon' = [v \in Scanners |-> IF v \in S THEN MonitorStopped ELSE mon[v]]

Go(v, step) == pc' = [pc EXCEPT ![v] = step]

\* The catch block of the scan functions, but for the camera.
ScanEnds(S, stage) ==
  /\ pc' = [v \in Scanners |-> IF v \in S THEN "idle" ELSE pc[v]]
  /\ page' = [v \in Scanners |-> IF v \in S /\ page[v].mounted
                                 THEN [page[v] EXCEPT !.stage = stage] ELSE page[v]]
  /\ scan' = [v \in Scanners |-> IF v \in S THEN NoScan ELSE scan[v]]
  /\ gps' = [v \in Scanners |-> IF v \in S THEN "none" ELSE gps[v]]
  /\ abandoned' = abandoned \ S

\* The catch block.
Catch(S) ==
  /\ ScanEnds(S, "error")
  /\ StopMonitor(S)
  /\ StopCamera(S)

-----------------------------------------------------------------------------
(* Pages.                                                                  *)

OpenPage(v) ==
  /\ v \in Pages
  /\ pc[v] = "idle"
  /\ \A w \in Pages : ~page[w].mounted
  /\ \E stored \in BOOLEAN :
       page' = [page EXCEPT ![v] = [Closed EXCEPT !.mounted = TRUE, !.enrolled = stored]]
  /\ UNCHANGED <<pc, cam, mon, gps, scan, landmarker, record, posts, abandoned>>

\* GET /student/attendance/current reads the record.
ReadRecord(v) ==
  /\ page[v].mounted
  /\ v \in Pages
  /\ page[v].load = "sent"
  /\ page' = [page EXCEPT ![v].load = "answered", ![v].snap = record]
  /\ UNCHANGED <<pc, cam, mon, gps, scan, landmarker, record, posts, abandoned>>

\* allSettled: any of the four requests may have failed; without the session
\* the page stays what it was before.
LoadSettled(v) ==
  /\ page[v].mounted
  /\ v \in Pages
  /\ page[v].load = "answered"
  /\ \E enrolled \in BOOLEAN,
        seen \in {page[v].record, page[v].snap} :
       page' = [page EXCEPT ![v].load = "done", ![v].enrolled = enrolled,
                            ![v].record = seen, ![v].snap = "absent"]
  /\ UNCHANGED <<pc, cam, mon, gps, scan, landmarker, record, posts, abandoned>>

\* Everything a scanner captures before it sends it.
Captured(v) ==
  \/ pc[v] \in Upload
  \/ pc[v] = "poses" /\ scan[v].poses = Poses

\* Mutant: the cleanup does not count runId up.
UnmountKeepsRun(S) ==
  /\ scan' = [v \in Scanners |->
                IF v \in S /\ ~Captured(v) THEN [NoScan EXCEPT !.live = scan[v].live]
                ELSE scan[v]]
  /\ page' = [v \in Scanners |->
                [(IF v \in S THEN Closed ELSE page[v])
                   EXCEPT !.host = IF page[v].host \in S THEN None ELSE page[v].host]]
  /\ StopMonitor(S)
  /\ StopCamera(S)
  /\ abandoned' = abandoned \cup {v \in S : pc[v] # "idle" /\ ~Captured(v)}
  /\ UNCHANGED <<pc, gps, landmarker, record, posts>>

\* Unmount: runId + 1, monitor.stop(), cam.stop().  What the scan had collected
\* is dropped here unless it is on its way; the function drops it when it looks
\* at runId.
Unmount(S) ==
  /\ scan' = [v \in Scanners |->
                CASE v \in S /\ Captured(v) -> [scan[v] EXCEPT !.live = FALSE]
                  [] v \in S /\ ~Captured(v) -> NoScan
                  [] OTHER -> scan[v]]
  /\ page' = [v \in Scanners |->
                [(IF v \in S THEN Closed ELSE page[v])
                   EXCEPT !.host = IF page[v].host \in S THEN None ELSE page[v].host]]
  /\ StopMonitor(S)
  /\ StopCamera(S)
  /\ abandoned' = abandoned \cup {v \in S : pc[v] # "idle" /\ ~Captured(v)}
  /\ UNCHANGED <<pc, gps, landmarker, record, posts>>

\* Leaving the page takes its dialog with it.
LeavePage(v) ==
  /\ page[v].mounted
  /\ v \in Pages
  /\ Unmount({v} \cup {d \in Dialogs : page[d].mounted})

\* "enrol now"; the dialog covers the page.
OpenDialog(v, d) ==
  /\ page[v].mounted
  /\ v \in Pages
  /\ page[v].stage = "intro"
  /\ ~page[v].enrolled
  /\ d \in Dialogs
  /\ pc[d] = "idle"
  /\ \A e \in Dialogs : ~page[e].mounted
  /\ page' = [page EXCEPT ![d] = [Closed EXCEPT !.mounted = TRUE, !.host = v]]
  /\ UNCHANGED <<pc, cam, mon, gps, scan, landmarker, record, posts, abandoned>>

CloseDialog(d) ==
  /\ page[d].mounted
  /\ d \in Dialogs
  /\ Unmount({d})

\* "Try Again" and "Continue"; reset() also stops what has been stopped.
Reset(v) ==
  /\ page[v].mounted
  /\ page[v].stage \in {"error", "success"}
  /\ page' = [page EXCEPT ![v].stage = "intro"]
  /\ StopMonitor({v})
  /\ StopCamera({v})
  /\ UNCHANGED <<pc, gps, scan, landmarker, record, posts, abandoned>>

-----------------------------------------------------------------------------
(* Starting a scan.                                                        *)

\* scanFace and enroll up to their first await.  cam.start() stops an old
\* stream and asks for a new one.
Begins(v) ==
  /\ page[v].mounted
  /\ page[v].stage = "intro"
  /\ pc[v] = "idle"
  /\ Cardinality({w \in Scanners : pc[w] # "idle"}) < Overlap
  /\ page' = [page EXCEPT ![v].stage = "scanning"]
  /\ Go(v, "opening")
  /\ StopCamera({v})
  /\ UNCHANGED <<mon, landmarker, record, posts, abandoned>>

\* Mutant: a scan may begin before the page has loaded.
StartScanUnloaded(v) ==
  /\ v \in Pages
  /\ page[v].enrolled
  /\ \A d \in Dialogs : ~page[d].mounted
  /\ Begins(v)
  /\ gps' = [gps EXCEPT ![v] = "precise"]
  /\ scan' = [scan EXCEPT ![v] = [NoScan EXCEPT !.live = TRUE, !.out = page[v].record = "in"]]

\* Check-in or check-out is decided by the record the page has; the search
\* for a position starts with the tap.
StartScan(v) ==
  /\ v \in Pages
  /\ page[v].load = "done"
  /\ page[v].enrolled
  /\ \A d \in Dialogs : ~page[d].mounted
  /\ Begins(v)
  /\ gps' = [gps EXCEPT ![v] = "precise"]
  /\ scan' = [scan EXCEPT ![v] = [NoScan EXCEPT !.live = TRUE, !.out = page[v].record = "in"]]

StartEnrolment(d) ==
  /\ d \in Dialogs
  /\ Begins(d)
  /\ scan' = [scan EXCEPT ![d] = [NoScan EXCEPT !.live = TRUE]]
  /\ UNCHANGED gps

\* getUserMedia gives a stream, also to a page that was left.
CameraOpens(v) ==
  /\ pc[v] = "opening"
  /\ Go(v, "preview")
  /\ cam' = [cam EXCEPT ![v] = TRUE]
  /\ UNCHANGED <<page, mon, gps, scan, landmarker, record, posts, abandoned>>

\* A refusal, or no answer in time: the tracks of a stream that comes later
\* are stopped on arrival.
CameraFails(v) ==
  /\ pc[v] = "opening"
  /\ Catch({v})
  /\ UNCHANGED <<landmarker, record, posts>>

\* The video element plays and monitor.start() asks for the model; or there is
\* no video element (the page was left) or no picture.
Preview(v) ==
  /\ pc[v] = "preview"
  /\ \/ /\ page[v].mounted
        /\ Go(v, "loading")
        /\ mon' = [mon EXCEPT ![v].current = TRUE]
        /\ landmarker' = IF landmarker = "none" THEN "loading" ELSE landmarker
        /\ UNCHANGED <<page, cam, gps, scan, abandoned>>
     \/ Catch({v}) /\ UNCHANGED landmarker
  /\ UNCHANGED <<record, posts>>

\* loadLandmarker settles for everybody who waits for it.
LandmarkerLoads ==
  /\ landmarker = "loading"
  /\ landmarker' = "ready"
  /\ UNCHANGED <<page, pc, cam, mon, gps, scan, record, posts, abandoned>>

\* Mutant: the scans that wait for the model are not told.
LandmarkerFailsSilently ==
  /\ landmarker = "loading"
  /\ landmarker' = "none"
  /\ UNCHANGED <<page, pc, cam, mon, gps, scan, record, posts, abandoned>>

\* A failure clears the shared promise, so that the next scan loads again.
LandmarkerFails ==
  /\ landmarker = "loading"
  /\ landmarker' = "none"
  /\ Catch({v \in Scanners : pc[v] = "loading"})
  /\ UNCHANGED <<record, posts>>

\* Mutant: the generation is not compared after the await.
MonitorStartsAnyway(v) ==
  /\ pc[v] = "loading"
  /\ landmarker = "ready"
  /\ mon' = [mon EXCEPT ![v].running = TRUE]
  /\ Go(v, IF v \in Pages THEN "position" ELSE "poses")
  /\ UNCHANGED <<page, cam, gps, scan, landmarker, record, posts, abandoned>>

\* A start() that was overtaken by a stop() returns without a loop, and the
\* scan goes on to notice that it is not wanted.
MonitorStarts(v) ==
  /\ pc[v] = "loading"
  /\ landmarker = "ready"
  /\ mon' = [mon EXCEPT ![v].running = mon[v].current]
  /\ Go(v, IF v \in Pages THEN "position" ELSE "poses")
  /\ UNCHANGED <<page, cam, gps, scan, landmarker, record, posts, abandoned>>

-----------------------------------------------------------------------------
(* getLocation: a precise watch, a coarse one, one last reading.           *)

\* A reading of 150 m or better, or, when the watch times out or has no
\* position, the best one there was.
PositionFix(v) ==
  /\ gps[v] \in {"precise", "coarse"}
  /\ gps' = [gps EXCEPT ![v] = "found"]
  /\ UNCHANGED <<page, pc, cam, mon, scan, landmarker, record, posts, abandoned>>

\* The watch ends without a reading: the next kind of search begins.
PositionGivesUp(v) ==
  /\ gps[v] \in {"precise", "coarse"}
  /\ gps' = [gps EXCEPT ![v] = IF @ = "precise" THEN "coarse" ELSE "last"]
  /\ UNCHANGED <<page, pc, cam, mon, scan, landmarker, record, posts, abandoned>>

\* A denied permission ends the search, whatever has been read.
PositionDenied(v) ==
  /\ gps[v] \in {"precise", "coarse"}
  /\ gps' = [gps EXCEPT ![v] = "failed"]
  /\ UNCHANGED <<page, pc, cam, mon, scan, landmarker, record, posts, abandoned>>

LastPosition(v) ==
  /\ gps[v] = "last"
  /\ \E end \in {"found", "failed"} : gps' = [gps EXCEPT ![v] = end]
  /\ UNCHANGED <<page, pc, cam, mon, scan, landmarker, record, posts, abandoned>>

-----------------------------------------------------------------------------
(* The scan of a page.                                                     *)

\* The loops over the camera's readings go on while this holds.
Watching(v) == scan[v].live /\ mon[v].running /\ cam[v]

\* The deadline of a loop, a broken camera, a frame that is not fresh, a page
\* that was left: every loop ends with an error at any time.
LoopFails(v) ==
  /\ pc[v] \in {"position", "capture", "poses"}
  /\ ~(pc[v] = "poses" /\ scan[v].poses = Poses)
  /\ Catch({v})
  /\ UNCHANGED <<landmarker, record, posts>>

Positioned(v) ==
  /\ pc[v] = "position"
  /\ Watching(v)
  /\ Go(v, "gps")
  /\ UNCHANGED <<page, cam, mon, gps, scan, landmarker, record, posts, abandoned>>

\* await locPromise; nothing asks here whether the page is still there.
Located(v) ==
  /\ pc[v] = "gps"
  /\ \/ /\ gps[v] = "found"
        /\ Go(v, "location")
        /\ UNCHANGED <<page, cam, mon, gps, scan, abandoned>>
     \/ /\ gps[v] = "failed"
        /\ Catch({v})
  /\ UNCHANGED <<landmarker, record, posts>>

\* POST verify-location.
LocationAnswered(v) ==
  /\ pc[v] = "location"
  /\ \/ /\ Go(v, "challenge")
        /\ UNCHANGED <<page, cam, mon, gps, scan, abandoned>>
     \/ Catch({v})
  /\ UNCHANGED <<landmarker, record, posts>>

\* POST liveness/challenge: a gesture, LOOK_STRAIGHT, or an unknown type.
ChallengeAnswered(v) ==
  /\ pc[v] = "challenge"
  /\ \/ /\ Go(v, "capture")
        /\ \E gesture \in BOOLEAN : scan' = [scan EXCEPT ![v].gesture = gesture]
        /\ UNCHANGED <<page, cam, mon, gps, abandoned>>
     \/ Catch({v})
  /\ UNCHANGED <<landmarker, record, posts>>

\* The requested action is seen.  A gesture is captured as it happens, once;
\* a straight pose is completed by time and may be lost again.
Act(v) ==
  /\ pc[v] = "capture"
  /\ Watching(v)
  /\ \/ /\ scan[v].gesture
        /\ ~scan[v].acted
        /\ scan' = [scan EXCEPT ![v].acted = TRUE,
                                ![v].actFrame = scan[v].frames < MaxFrames,
                                ![v].frames = IF @ < MaxFrames THEN @ + 1 ELSE @]
     \/ /\ ~scan[v].gesture
        /\ scan' = [scan EXCEPT ![v].acted = ~@]
  /\ UNCHANGED <<page, pc, cam, mon, gps, landmarker, record, posts, abandoned>>

\* A frame every 280 ms.
Frame(v) ==
  /\ pc[v] = "capture"
  /\ Watching(v)
  /\ scan[v].frames < MaxFrames
  /\ scan' = [scan EXCEPT ![v].frames = @ + 1]
  /\ UNCHANGED <<page, pc, cam, mon, gps, landmarker, record, posts, abandoned>>

\* Mutant: the capture loop does not look at runId.
CompletesUnwatched(v) ==
  /\ pc[v] = "capture"
  /\ scan[v].live => Watching(v) /\ scan[v].acted /\ scan[v].frames >= MinFrames
  /\ Go(v, "verify")
  /\ StopMonitor({v})
  /\ StopCamera({v})
  /\ UNCHANGED <<page, gps, scan, landmarker, record, posts, abandoned>>

\* After the action, 4 s and the least number of frames: camera and monitor
\* are stopped and POST verify-face is sent.
CaptureCompletes(v) ==
  /\ pc[v] = "capture"
  /\ Watching(v)
  /\ scan[v].acted
  /\ scan[v].frames >= MinFrames
  /\ Go(v, "verify")
  /\ StopMonitor({v})
  /\ StopCamera({v})
  /\ UNCHANGED <<page, gps, scan, landmarker, record, posts, abandoned>>

\* Mutant: the page shows the outcome before the server has answered.
FaceAnsweredOptimistically(v) ==
  /\ pc[v] = "verify"
  /\ Go(v, "submit")
  /\ LET op == IF scan[v].out THEN "out" ELSE "in" IN
       /\ posts' = posts \cup {[from |-> v, op |-> op]}
       /\ page' = IF page[v].mounted THEN [page EXCEPT ![v].record = op] ELSE page
  /\ scan' = [scan EXCEPT ![v] = [NoScan EXCEPT !.live = scan[v].live]]
  /\ UNCHANGED <<cam, mon, gps, landmarker, record, abandoned>>

\* The face is refused, or check-in or check-out is posted.
FaceAnswered(v) ==
  /\ pc[v] = "verify"
  /\ \/ /\ Go(v, "submit")
        /\ posts' = posts \cup {[from |-> v, op |-> IF scan[v].out THEN "out" ELSE "in"]}
        /\ scan' = [scan EXCEPT ![v] = [NoScan EXCEPT !.live = scan[v].live]]
        /\ UNCHANGED <<page, cam, mon, gps, abandoned>>
     \/ Catch({v}) /\ UNCHANGED posts
  /\ UNCHANGED <<landmarker, record>>

-----------------------------------------------------------------------------
(* The server, and the requests nobody waits for any more.                 *)

Follows(op) == (op = "in" /\ record = "absent") \/ (op = "out" /\ record = "in")

\* The scan function has the record: setRecord and, 350 ms later, the success
\* stage, if there still is a page to show them.
SubmitSucceeds(v, p) ==
  /\ p.from = v
  /\ Follows(p.op)
  /\ record' = p.op
  /\ posts' = posts \ {p}
  /\ Go(v, "idle")
  /\ page' = IF page[v].mounted
               THEN [page EXCEPT ![v].stage = "success", ![v].record = p.op] ELSE page
  /\ scan' = [scan EXCEPT ![v] = NoScan]
  /\ gps' = [gps EXCEPT ![v] = "none"]
  /\ abandoned' = abandoned \ {v}
  /\ UNCHANGED <<cam, mon, landmarker>>

SubmitFails(v, p) ==
  /\ p.from = v
  /\ posts' = posts \ {p}
  /\ Catch({v})
  /\ UNCHANGED <<landmarker, record>>

\* The answer is lost, before the server has done its work or after it.
SubmitTimesOut(v, p) ==
  /\ p.from = v
  /\ posts' = (posts \ {p}) \cup {[p EXCEPT !.from = None]}
  /\ Catch({v})
  /\ UNCHANGED <<landmarker, record>>

OrphanServed(p) ==
  /\ p.from = None
  /\ posts' = posts \ {p}
  /\ \/ Follows(p.op) /\ record' = p.op
     \/ UNCHANGED record
  /\ UNCHANGED <<page, pc, cam, mon, gps, scan, landmarker, abandoned>>

-----------------------------------------------------------------------------
(* The enrolment of a dialog.                                              *)

PoseHeld(d) ==
  /\ pc[d] = "poses"
  /\ Watching(d)
  /\ scan[d].poses < Poses
  /\ scan' = [scan EXCEPT ![d].poses = @ + 1]
  /\ UNCHANGED <<page, pc, cam, mon, gps, landmarker, record, posts, abandoned>>

\* After the last pose nothing looks at runId: a dialog closed in the half
\* second that follows it still enrols.
PosesComplete(d) ==
  /\ pc[d] = "poses"
  /\ scan[d].poses = Poses
  /\ Go(d, "enrol")
  /\ StopMonitor({d})
  /\ StopCamera({d})
  /\ UNCHANGED <<page, gps, scan, landmarker, record, posts, abandoned>>

\* onEnrolled tells the page and closes the dialog that is open on it, be it
\* this one or one opened since.
EnrolAnswered(d) ==
  /\ pc[d] = "enrol"
  /\ \/ LET h == page[d].host
            gone == {e \in Dialogs : page[e].mounted /\ page[e].host = h}
        IN /\ pc' = [pc EXCEPT ![d] = "idle"]
           /\ page' = [v \in Scanners |->
                         CASE v = h -> [page[v] EXCEPT !.enrolled = TRUE]
                           [] v = d -> Closed
                           [] v \in gone \ {d} -> [Closed EXCEPT !.host = h]
                           [] OTHER -> page[v]]
           /\ scan' = [v \in Scanners |->
                         CASE v \in gone \ {d} /\ Captured(v) -> [scan[v] EXCEPT !.live = FALSE]
                           [] v = d \/ (v \in gone /\ ~Captured(v)) -> NoScan
                           [] OTHER -> scan[v]]
           /\ StopMonitor(gone)
           /\ StopCamera(gone)
           /\ abandoned' = (abandoned \ {d})
                             \cup {e \in gone \ {d} : pc[e] # "idle" /\ ~Captured(e)}
           /\ UNCHANGED gps
     \/ Catch({d})
  /\ UNCHANGED <<landmarker, record, posts>>

-----------------------------------------------------------------------------
Init ==
  /\ page = [v \in Scanners |-> Closed]
  /\ pc = [v \in Scanners |-> "idle"]
  /\ cam = [v \in Scanners |-> FALSE]
  /\ mon = [v \in Scanners |-> MonitorStopped]
  /\ gps = [v \in Scanners |-> "none"]
  /\ scan = [v \in Scanners |-> NoScan]
  /\ landmarker = "none"
  /\ record = "absent"
  /\ posts = {}
  /\ abandoned = {}

Student ==
  \/ \E v \in Pages : OpenPage(v) \/ LeavePage(v) \/ StartScan(v)
  \/ \E v \in Pages, d \in Dialogs : OpenDialog(v, d)
  \/ \E d \in Dialogs : CloseDialog(d) \/ StartEnrolment(d)
  \/ \E v \in Scanners : Reset(v)

\* What the camera sees and the position sensor reads.
Sensors(v) ==
  \/ PositionFix(v) \/ PositionDenied(v)
  \/ Positioned(v) \/ Act(v) \/ Frame(v) \/ CaptureCompletes(v) \/ PoseHeld(v)

\* What timers and answers bring about without anybody's help.
ScanStep(v) ==
  \/ CameraOpens(v) \/ CameraFails(v) \/ Preview(v) \/ MonitorStarts(v)
  \/ LoopFails(v) \/ Located(v) \/ LocationAnswered(v) \/ ChallengeAnswered(v)
  \/ FaceAnswered(v) \/ PosesComplete(v) \/ EnrolAnswered(v)
  \/ \E p \in posts : SubmitSucceeds(v, p) \/ SubmitFails(v, p) \/ SubmitTimesOut(v, p)
SearchStep(v) == PositionGivesUp(v) \/ LastPosition(v)
ModelStep == LandmarkerLoads \/ LandmarkerFails
Server ==
  \/ \E v \in Pages : ReadRecord(v) \/ LoadSettled(v)
  \/ \E p \in posts : OrphanServed(p)

Next ==
  \/ Student
  \/ \E v \in Scanners : Sensors(v) \/ ScanStep(v) \/ SearchStep(v)
  \/ ModelStep
  \/ Server

Spec == Init /\ [][Next]_vars

\* Timers expire and requests are answered or time out.  The loading of the
\* model and the last reading of the position have no deadline in the code:
\* that they end is an assumption about browser and network.
FairSpec ==
  /\ Spec
  /\ \A v \in Scanners : WF_vars(ScanStep(v)) /\ WF_vars(SearchStep(v))
  /\ WF_vars(ModelStep)

-----------------------------------------------------------------------------
TypeOK ==
  /\ page \in [Scanners -> Page]
  /\ pc \in [Scanners -> Step]
  /\ cam \in [Scanners -> BOOLEAN]
  /\ mon \in [Scanners -> Monitor]
  /\ gps \in [Scanners -> Search]
  /\ scan \in [Scanners -> Scan]
  /\ landmarker \in {"none", "loading", "ready"}
  /\ record \in Attendance
  /\ posts \subseteq Post
  /\ abandoned \subseteq Scanners

\* The camera is on only while a scan function uses it.  Once the page was
\* left, only a camera that opened too late is on, and only until the preview
\* fails: LeavePage and the catch blocks race the answers of getUserMedia.
CameraMatchesRun ==
  \A v \in Scanners :
    /\ cam[v] => pc[v] \in CameraUse
    /\ cam[v] /\ ~page[v].mounted => pc[v] = "preview"

\* The analysis loop runs only for the scan that started it: a model that
\* arrives after stop() starts no loop.
MonitorMatchesRun ==
  \A v \in Scanners :
    mon[v].running => pc[v] \in MonitorUse /\ mon[v].current /\ scan[v].live

\* A scan that was left before it had what it sends never sends a face: no
\* verify-face, no check-in, no check-out and no enrolment.
AbandonedSendsNothing == \A v \in abandoned : pc[v] \notin Upload

\* What is sent to verify-face has enough frames, no more than one request
\* takes, and shows the requested gesture, unless there was no room left.
CaptureComplete ==
  \A v \in Scanners :
    pc[v] = "verify" =>
      /\ scan[v].frames \in MinFrames .. MaxFrames
      /\ scan[v].gesture => scan[v].actFrame \/ scan[v].frames = MaxFrames

\* The page never shows more than the server has recorded, and only asks for a
\* check-out when there is a check-in, however late its requests are served.
RecordNotAhead ==
  /\ \A v \in Pages : Rank(page[v].record) <= Rank(record)
  /\ \A p \in posts : p.op = "out" => record # "absent"

\* A page never goes back to an earlier state of the record: the answer of its
\* first load does not overwrite the result of a scan.
RecordNeverRegresses ==
  [][\A v \in Pages : page[v].mounted /\ page'[v].mounted =>
        Rank(page'[v].record) >= Rank(page[v].record)]_vars

\* Camera and analysis belong to the scan that is running.
DevicesFollowScan == CameraMatchesRun /\ MonitorMatchesRun

\* What leaves the phone is whole, and of a scan the student has not left.
UploadsAreSound == AbandonedSendsNothing /\ CaptureComplete

\* What ScanContract sees of a page.
ViewOf(v) ==
  IF ~page[v].mounted THEN "closed" ELSE IF page[v].load # "done" THEN "loading"
  ELSE page[v].record
PhaseOf(v) ==
  IF pc[v] = "submit" THEN "asking" ELSE IF pc[v] = "verify" THEN "captured"
  ELSE IF pc[v] # "idle" /\ scan[v].live THEN "collecting" ELSE "none"
OpOf(v) == IF PhaseOf(v) \in {"collecting", "captured"} /\ scan[v].out THEN "out" ELSE "in"

Contract == INSTANCE ScanContract WITH
  view <- [v \in Pages |-> ViewOf(v)],
  phase <- [v \in Pages |-> PhaseOf(v)],
  op <- [v \in Pages |-> OpOf(v)],
  asked <- posts

\* The asynchronous functions implement the contract: a scan that is left while
\* it still collects never asks, one page asks for one thing at a time, and only
\* a load or an answer changes what a page shows.
ImplementsContract == Contract!Spec

\* Every scan ends, also one that was left, and with it the camera goes off.
EveryScanEnds ==
  \A v \in Scanners : (pc[v] # "idle") ~> (pc[v] = "idle" /\ ~cam[v])
=============================================================================
