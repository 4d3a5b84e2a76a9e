--------------------------- MODULE FaceScanProofs ---------------------------
(***************************************************************************)
(* Safety of the face scanner for every number of pages and dialogs, of    *)
(* frames and poses, and of scan functions that run at a time.             *)
(***************************************************************************)
EXTENDS FaceScan, TLAPS

USE FaceScanAssumption

PageSteps == Step \ {"poses", "enrol"}
DialogSteps == {"idle", "opening", "preview", "loading", "poses", "enrol"}

\* A page has its own steps and a dialog its own.
KindOK(v) ==
  /\ v \in Pages => pc[v] \in PageSteps
  /\ v \in Dialogs => pc[v] \in DialogSteps

CameraOK(v) ==
  /\ cam[v] => pc[v] \in CameraUse
  /\ cam[v] /\ ~page[v].mounted => pc[v] = "preview"

\* A monitor that was started and not stopped is that of a scan that is
\* wanted, and the scan of a page in view is wanted.
MonitorOK(v) ==
  /\ mon[v].current => pc[v] \in {"loading"} \cup MonitorUse /\ scan[v].live
  /\ mon[v].running => pc[v] \in MonitorUse /\ mon[v].current
  /\ page[v].mounted /\ pc[v] # "idle" => scan[v].live

\* A scan that was left has nothing and is not wanted: no loop goes on.
LeftOK(v) ==
  v \in abandoned => /\ pc[v] \notin Upload \cup {"idle"}
                     /\ ~scan[v].live
                     /\ scan[v].poses = 0

\* A capture begins with no action seen, and the frame of a gesture is taken
\* when it is seen if there is room for one.
CaptureOK(v) ==
  /\ pc[v] \notin {"capture", "verify"} => ~scan[v].acted
  /\ scan[v].gesture /\ scan[v].acted => scan[v].actFrame \/ scan[v].frames = MaxFrames
  /\ pc[v] = "verify" => scan[v].acted /\ scan[v].frames >= MinFrames

\* What a page knows of the record was true once, and it is the load that
\* tells it first: no scan runs before.
RecordOK(v) ==
  /\ scan[v].out => record # "absent"
  /\ v \in Pages =>
       /\ Rank(page[v].record) <= Rank(record)
       /\ Rank(page[v].snap) <= Rank(record)
       /\ page[v].load # "done" => page[v].record = "absent"
       /\ page[v].mounted /\ pc[v] # "idle" => page[v].load = "done"

ScannerOK(v) ==
  /\ KindOK(v)
  /\ CameraOK(v)
  /\ MonitorOK(v)
  /\ LeftOK(v)
  /\ CaptureOK(v)
  /\ RecordOK(v)

\* A scan that waits for its submission has one request on its way.
PostsOK ==
  \A p \in posts :
    /\ p.op = "out" => record # "absent"
    /\ p.from # None =>
         /\ pc[p.from] = "submit"
         /\ \A q \in posts : q.from = p.from => q = p

ScanInv ==
  /\ TypeOK
  /\ \A v \in Scanners : ScannerOK(v)
  /\ PostsOK

\* No page in view falls back to an earlier record (RecordNeverRegresses).
NotBack(v) ==
  v \in Pages /\ page[v].mounted /\ page'[v].mounted =>
    Rank(page'[v].record) >= Rank(page[v].record)

\* What a step owes.
StepOK == ScanInv' /\ \A v \in Scanners : NotBack(v)

RecordGrows ==
  /\ record' \in Attendance
  /\ Rank(record) <= Rank(record')
  /\ record # "absent" => record' # "absent"

\* A step leaves what the invariant says of scanner w alone.
Same(w) ==
  /\ page'[w].mounted = page[w].mounted
  /\ page'[w].load = page[w].load
  /\ page'[w].snap = page[w].snap
  /\ page'[w].record = page[w].record
  /\ pc'[w] = pc[w] /\ cam'[w] = cam[w] /\ mon'[w] = mon[w] /\ scan'[w] = scan[w]
  /\ w \in abandoned' => w \in abandoned

-----------------------------------------------------------------------------
(* Lemmas.                                                                 *)

LEMMA Ranks ==
  ASSUME NEW r \in Attendance
  PROVE  /\ Rank(r) \in 0 .. 2
         /\ Rank("absent") = 0 /\ Rank("in") = 1 /\ Rank("out") = 2
         /\ Rank(r) = 0 => r = "absent"
  BY DEF Attendance, Rank

LEMMA TypesOfScanner ==
  ASSUME TypeOK, NEW v \in Scanners
  PROVE  /\ page[v] \in Page
         /\ page[v].mounted \in BOOLEAN /\ page[v].load \in {"sent", "answered", "done"}
         /\ page[v].snap \in Attendance /\ page[v].record \in Attendance
         /\ page[v].host \in Pages \cup {None}
         /\ pc[v] \in Step /\ cam[v] \in BOOLEAN
         /\ mon[v] \in Monitor /\ mon[v].current \in BOOLEAN /\ mon[v].running \in BOOLEAN
         /\ gps[v] \in Search /\ scan[v] \in Scan
         /\ scan[v].live \in BOOLEAN /\ scan[v].out \in BOOLEAN
         /\ scan[v].frames \in 0 .. MaxFrames /\ scan[v].gesture \in BOOLEAN
         /\ scan[v].acted \in BOOLEAN /\ scan[v].actFrame \in BOOLEAN
         /\ scan[v].poses \in 0 .. Poses
  BY DEF TypeOK, Page, Monitor, Scan

LEMMA ClosedType ==
  /\ Closed \in Page /\ MonitorStopped \in Monitor /\ NoScan \in Scan
  /\ ~Closed.mounted /\ Closed.load = "sent"
  /\ Closed.snap = "absent" /\ Closed.record = "absent"
  /\ ~MonitorStopped.current /\ ~MonitorStopped.running
  /\ ~NoScan.live /\ ~NoScan.out /\ ~NoScan.acted /\ ~NoScan.gesture /\ NoScan.poses = 0
  BY DEF Closed, Page, Attendance, MonitorStopped, Monitor, NoScan, Scan

LEMMA RecordStays == TypeOK /\ UNCHANGED record => RecordGrows
  BY Ranks DEF RecordGrows, TypeOK

LEMMA RecordFollows ==
  ASSUME TypeOK, NEW op \in {"in", "out"}, Follows(op), record' = op
  PROVE  RecordGrows
  BY DEF Follows, RecordGrows, TypeOK, Rank, Attendance

LEMMA ScannerStays ==
  ASSUME ScanInv, RecordGrows, NEW w \in Scanners, Same(w)
  PROVE  ScannerOK(w)' /\ NotBack(w)
<1>1. ScannerOK(w)
  BY DEF ScanInv
<1>2. KindOK(w)' /\ CameraOK(w)' /\ MonitorOK(w)' /\ LeftOK(w)' /\ CaptureOK(w)'
  BY <1>1 DEF ScannerOK, KindOK, CameraOK, MonitorOK, LeftOK, CaptureOK, Same
<1>3. RecordOK(w)' /\ NotBack(w)
  <2>1. /\ Rank(page[w].record) \in Nat /\ Rank(page[w].snap) \in Nat
        /\ Rank(record) \in Nat /\ Rank(record') \in Nat
    BY TypesOfScanner, Ranks DEF ScanInv, TypeOK, RecordGrows
  <2> QED BY <1>1, <2>1 DEF ScannerOK, RecordOK, Same, RecordGrows, NotBack
<1> QED BY <1>2, <1>3 DEF ScannerOK

LEMMA PostsStay ==
  ASSUME ScanInv, RecordGrows, posts' \subseteq posts,
         \A p \in posts' : p.from # None /\ pc[p.from] = "submit" => pc'[p.from] = "submit"
  PROVE  PostsOK'
  BY DEF ScanInv, PostsOK, RecordGrows

\* A step that concerns one scanner.
LEMMA OneScanner ==
  ASSUME ScanInv, TypeOK', RecordGrows, NEW v \in Scanners,
         \A w \in Scanners \ {v} : Same(w),
         ScannerOK(v)', NotBack(v), PostsOK'
  PROVE  StepOK
  BY ScannerStays DEF StepOK, ScanInv

\* A step that concerns none.
LEMMA NoScanner ==
  ASSUME ScanInv, TypeOK', RecordGrows, \A w \in Scanners : Same(w), PostsOK'
  PROVE  StepOK
  BY ScannerStays DEF StepOK, ScanInv

\* The catch block leaves nothing behind.
LEMMA CatchStep ==
  ASSUME ScanInv, NEW S \in SUBSET Scanners, Catch(S), RecordGrows,
         landmarker' \in {"none", "loading", "ready"}, posts' \subseteq Post, PostsOK'
  PROVE  StepOK
<1>1. \A v \in Scanners :
        /\ pc'[v] = IF v \in S THEN "idle" ELSE pc[v]
        /\ page'[v] = IF v \in S /\ page[v].mounted
                      THEN [page[v] EXCEPT !.stage = "error"] ELSE page[v]
        /\ scan'[v] = IF v \in S THEN NoScan ELSE scan[v]
        /\ mon'[v] = IF v \in S THEN MonitorStopped ELSE mon[v]
        /\ cam'[v] = (v \notin S /\ cam[v])
  BY DEF Catch, ScanEnds, StopMonitor, StopCamera
<1>2. TypeOK'
  <2>1. \A v \in Scanners : page'[v] \in Page
    <3>1. ASSUME NEW x \in Page
          PROVE  [x EXCEPT !.stage = "error"] \in Page
      BY DEF Page
    <3> QED BY <1>1, <3>1, TypesOfScanner DEF ScanInv
  <2>2. page' \in [Scanners -> Page]
    BY <2>1 DEF Catch, ScanEnds
  <2>3. pc' \in [Scanners -> Step] /\ cam' \in [Scanners -> BOOLEAN]
    BY DEF Catch, ScanEnds, StopCamera, Step, ScanInv, TypeOK
  <2>4. mon' \in [Scanners -> Monitor] /\ scan' \in [Scanners -> Scan]
    BY ClosedType DEF Catch, ScanEnds, StopMonitor, ScanInv, TypeOK
  <2>5. gps' \in [Scanners -> Search] /\ abandoned' \subseteq Scanners
    BY DEF Catch, ScanEnds, Search, ScanInv, TypeOK
  <2> QED BY <2>2, <2>3, <2>4, <2>5 DEF TypeOK, RecordGrows
<1>3. ASSUME NEW v \in S
      PROVE  ScannerOK(v)' /\ NotBack(v)
  <2>1. /\ page'[v].mounted = page[v].mounted /\ page'[v].load = page[v].load
        /\ page'[v].snap = page[v].snap /\ page'[v].record = page[v].record
    <3>1. page[v] \in Page
      BY TypesOfScanner DEF ScanInv
    <3>2. page'[v] = page[v] \/ page'[v] = [page[v] EXCEPT !.stage = "error"]
      BY <1>1
    <3> QED BY <3>1, <3>2 DEF Page
  <2>2. /\ pc'[v] = "idle" /\ ~cam'[v] /\ v \notin abandoned'
        /\ mon'[v] = MonitorStopped /\ scan'[v] = NoScan
    BY <1>1 DEF Catch, ScanEnds
  <2>3. RecordOK(v)' /\ NotBack(v)
    <3>1. /\ Rank(page[v].record) \in Nat /\ Rank(page[v].snap) \in Nat
          /\ Rank(record) \in Nat /\ Rank(record') \in Nat
      BY TypesOfScanner, Ranks DEF ScanInv, TypeOK, RecordGrows
    <3> QED BY <2>1, <2>2, <3>1, ClosedType DEF ScanInv, ScannerOK, RecordOK, RecordGrows, NotBack
  <2>4. KindOK(v)' /\ CameraOK(v)' /\ MonitorOK(v)' /\ LeftOK(v)' /\ CaptureOK(v)'
    BY <2>2, ClosedType
    DEF KindOK, PageSteps, DialogSteps, Step, CameraOK, MonitorOK, LeftOK, CaptureOK
  <2> QED BY <2>3, <2>4 DEF ScannerOK
<1>4. \A w \in Scanners \ S : Same(w)
  BY <1>1, TypesOfScanner DEF ScanInv, Same, Catch, ScanEnds
<1> QED BY <1>2, <1>3, <1>4, ScannerStays DEF StepOK, ScanInv

\* Of a scan that waits for no submission.
LEMMA CatchQuietly ==
  ASSUME ScanInv, NEW S \in SUBSET Scanners, Catch(S), UNCHANGED <<record, posts>>,
         landmarker' \in {"none", "loading", "ready"}, \A v \in S : pc[v] # "submit"
  PROVE  StepOK
<1>1. RecordGrows
  BY RecordStays DEF ScanInv
<1>2. \A v \in Scanners \ S : pc'[v] = pc[v]
  BY DEF Catch, ScanEnds
<1>3. \A p \in posts : p.from # None => p.from \in Scanners
  BY DEF ScanInv, TypeOK, Post, Scanners
<1>4. PostsOK'
  BY <1>1, <1>2, <1>3, PostsStay
<1> QED BY <1>1, <1>4, CatchStep DEF ScanInv, TypeOK

\* The scan of v goes on: its page stays as it is and nothing is posted.
LEMMA ScanGoesOn ==
  ASSUME ScanInv, TypeOK', NEW v \in Scanners,
         UNCHANGED <<page, record, posts, abandoned>>,
         \A w \in Scanners \ {v} : /\ pc'[w] = pc[w] /\ cam'[w] = cam[w]
                                   /\ mon'[w] = mon[w] /\ scan'[w] = scan[w],
         pc[v] \notin {"idle", "submit"}, scan'[v].out => scan[v].out,
         KindOK(v)', CameraOK(v)', MonitorOK(v)', LeftOK(v)', CaptureOK(v)'
  PROVE  StepOK
<1>1. RecordGrows
  BY RecordStays DEF ScanInv
<1>2. \A w \in Scanners \ {v} : Same(w)
  BY DEF Same
<1>3. RecordOK(v)'
  BY DEF ScanInv, ScannerOK, RecordOK
<1>4. NotBack(v)
  <2>1. Rank(page[v].record) \in Nat
    BY TypesOfScanner, Ranks DEF ScanInv
  <2> QED BY <2>1 DEF NotBack
<1>5. \A p \in posts : p.from # None => p.from \in Scanners
  BY DEF ScanInv, TypeOK, Post, Scanners
<1>6. PostsOK'
  BY <1>1, <1>5, PostsStay
<1>7. ScannerOK(v)'
  BY <1>3 DEF ScannerOK
<1> QED BY <1>1, <1>2, <1>4, <1>6, <1>7, OneScanner

-----------------------------------------------------------------------------
(* Camera, model and position.                                             *)

LEMMA CameraOpensStep ==
  ASSUME ScanInv, NEW v \in Scanners, CameraOpens(v)
  PROVE  StepOK
<1>1. TypeOK'
  BY DEF CameraOpens, Go, ScanInv, TypeOK, Step, CameraUse
<1>2. pc'[v] = "preview" /\ cam'[v]
  BY DEF CameraOpens, Go, ScanInv, TypeOK
<1>3. ScannerOK(v) /\ pc[v] = "opening"
  BY DEF CameraOpens, ScanInv
<1>4. KindOK(v)' /\ CameraOK(v)' /\ CaptureOK(v)'
  BY <1>2, <1>3
  DEF ScannerOK, CameraOpens, KindOK, PageSteps, DialogSteps, Step, CameraUse, CameraOK, CaptureOK
<1>5. MonitorOK(v)' /\ LeftOK(v)'
  BY <1>2, <1>3 DEF ScannerOK, CameraOpens, MonitorOK, MonitorUse, LeftOK, Upload
<1>6. \A w \in Scanners \ {v} : /\ pc'[w] = pc[w] /\ cam'[w] = cam[w]
                                /\ mon'[w] = mon[w] /\ scan'[w] = scan[w]
  BY DEF CameraOpens, Go, ScanInv, TypeOK
<1> QED BY <1>1, <1>3, <1>4, <1>5, <1>6, ScanGoesOn DEF CameraOpens

LEMMA PreviewStep ==
  ASSUME ScanInv, NEW v \in Scanners, Preview(v)
  PROVE  StepOK
<1>1. ScannerOK(v) /\ pc[v] = "preview"
  BY DEF Preview, ScanInv
<1>2. CASE Catch({v}) /\ UNCHANGED landmarker
  BY <1>1, <1>2, CatchQuietly DEF Preview, ScanInv, TypeOK
<1>3. CASE ~(Catch({v}) /\ UNCHANGED landmarker)
  <2>1. /\ page[v].mounted /\ Go(v, "loading")
        /\ mon' = [mon EXCEPT ![v].current = TRUE]
        /\ landmarker' = IF landmarker = "none" THEN "loading" ELSE landmarker
        /\ UNCHANGED <<page, cam, gps, scan, abandoned, record, posts>>
    BY <1>3 DEF Preview
  <2>2. TypeOK'
    BY <2>1 DEF Go, ScanInv, TypeOK, Step, CameraUse, Monitor
  <2>3. pc'[v] = "loading" /\ mon'[v].current /\ mon'[v].running = mon[v].running
    BY <2>1 DEF Go, ScanInv, TypeOK, Monitor
  <2>4. KindOK(v)' /\ CameraOK(v)' /\ CaptureOK(v)'
    BY <1>1, <2>1, <2>3
    DEF ScannerOK, KindOK, PageSteps, DialogSteps, Step, CameraUse, CameraOK, CaptureOK
  <2>5. MonitorOK(v)' /\ LeftOK(v)'
    BY <1>1, <2>1, <2>3 DEF ScannerOK, MonitorOK, MonitorUse, LeftOK, Upload
  <2>6. \A w \in Scanners \ {v} : /\ pc'[w] = pc[w] /\ cam'[w] = cam[w]
                                  /\ mon'[w] = mon[w] /\ scan'[w] = scan[w]
    BY <2>1 DEF Go, ScanInv, TypeOK
  <2> QED BY <1>1, <2>1, <2>2, <2>4, <2>5, <2>6, ScanGoesOn
<1> QED BY <1>2, <1>3

LEMMA MonitorStartsStep ==
  ASSUME ScanInv, NEW v \in Scanners, MonitorStarts(v)
  PROVE  StepOK
<1>1. ScannerOK(v) /\ pc[v] = "loading"
  BY DEF MonitorStarts, ScanInv
<1>2. TypeOK'
  BY TypesOfScanner DEF MonitorStarts, Go, ScanInv, TypeOK, Step, CameraUse, Monitor
<1>3. /\ pc'[v] = IF v \in Pages THEN "position" ELSE "poses"
      /\ mon'[v].current = mon[v].current /\ mon'[v].running = mon[v].current
  BY TypesOfScanner DEF MonitorStarts, Go, ScanInv, TypeOK, Monitor
<1>4. KindOK(v)' /\ CameraOK(v)' /\ CaptureOK(v)'
  BY <1>1, <1>3
  DEF MonitorStarts, ScannerOK, KindOK, PageSteps, DialogSteps, Step, CameraUse, CameraOK,
      CaptureOK
<1>5. MonitorOK(v)' /\ LeftOK(v)'
  BY <1>1, <1>3 DEF MonitorStarts, ScannerOK, MonitorOK, MonitorUse, LeftOK, Upload
<1>6. \A w \in Scanners \ {v} : /\ pc'[w] = pc[w] /\ cam'[w] = cam[w]
                                /\ mon'[w] = mon[w] /\ scan'[w] = scan[w]
  BY DEF MonitorStarts, Go, ScanInv, TypeOK
<1> QED BY <1>1, <1>2, <1>4, <1>5, <1>6, ScanGoesOn DEF MonitorStarts

\* Neither the model nor a search for a position is looked at by the invariant.
LEMMA SearchStepKeeps ==
  ASSUME ScanInv, UNCHANGED <<page, pc, cam, mon, scan, record, posts, abandoned>>,
         gps' \in [Scanners -> Search], landmarker' \in {"none", "loading", "ready"}
  PROVE  StepOK
<1>1. RecordGrows
  BY RecordStays DEF ScanInv
<1>2. TypeOK'
  BY DEF ScanInv, TypeOK
<1>3. \A w \in Scanners : Same(w)
  BY DEF Same
<1>4. PostsOK'
  BY <1>1, PostsStay
<1> QED BY <1>1, <1>2, <1>3, <1>4, NoScanner

LEMMA PositionStep ==
  ASSUME ScanInv, NEW v \in Scanners,
         PositionFix(v) \/ PositionGivesUp(v) \/ PositionDenied(v) \/ LastPosition(v)
  PROVE  StepOK
<1>1. gps' \in [Scanners -> Search]
  BY DEF PositionFix, PositionGivesUp, PositionDenied, LastPosition, Search, ScanInv, TypeOK
<1> QED BY <1>1, SearchStepKeeps
        DEF PositionFix, PositionGivesUp, PositionDenied, LastPosition, ScanInv, TypeOK

LEMMA ModelStepKeeps ==
  ASSUME ScanInv, ModelStep
  PROVE  StepOK
<1>1. CASE LandmarkerLoads
  BY <1>1, SearchStepKeeps DEF LandmarkerLoads, ScanInv, TypeOK
<1>2. CASE LandmarkerFails
  BY <1>2, CatchQuietly DEF LandmarkerFails
<1> QED BY <1>1, <1>2 DEF ModelStep

-----------------------------------------------------------------------------
(* The scan of a page and the poses of a dialog.                           *)

\* A step of the function that changes neither its devices nor its scan.
LEMMA OnlyProceeds ==
  ASSUME ScanInv, NEW v \in Scanners, NEW step \in MonitorUse,
         Go(v, step), UNCHANGED <<page, cam, mon, scan, landmarker, record, posts, abandoned>>,
         gps' \in [Scanners -> Search],
         pc[v] \in MonitorUse \ {"capture"}, step # "poses", v \in Pages
  PROVE  StepOK
<1>1. ScannerOK(v)
  BY DEF ScanInv
<1>2. TypeOK'
  BY DEF Go, ScanInv, TypeOK, Step, CameraUse, MonitorUse
<1>3. pc'[v] = step
  BY DEF Go, ScanInv, TypeOK
<1>4. v \notin Dialogs
  OBVIOUS
<1>5. KindOK(v)' /\ CameraOK(v)' /\ CaptureOK(v)'
  BY <1>1, <1>3, <1>4
  DEF ScannerOK, KindOK, PageSteps, DialogSteps, Step, CameraUse, MonitorUse, CameraOK, CaptureOK
<1>6. MonitorOK(v)' /\ LeftOK(v)'
  BY <1>1, <1>3 DEF ScannerOK, MonitorOK, MonitorUse, LeftOK, Upload
<1>7. \A w \in Scanners \ {v} : pc'[w] = pc[w]
  BY DEF Go, ScanInv, TypeOK
<1>8. pc[v] \notin {"idle", "submit"}
  BY DEF MonitorUse
<1> QED BY <1>2, <1>5, <1>6, <1>7, <1>8, ScanGoesOn

\* Only pages come to the steps of a page.
LEMMA PageOnly ==
  ASSUME ScanInv, NEW v \in Scanners, pc[v] \notin DialogSteps
  PROVE  v \in Pages
  BY DEF ScanInv, ScannerOK, KindOK, Scanners

LEMMA ApproachStep ==
  ASSUME ScanInv, NEW v \in Scanners,
         LoopFails(v) \/ Positioned(v) \/ Located(v) \/ LocationAnswered(v)
  PROVE  StepOK
<1>1. CASE Catch({v}) /\ UNCHANGED <<landmarker, record, posts>>
  <2>1. pc[v] # "submit"
    BY DEF LoopFails, Positioned, Located, LocationAnswered
  <2> QED BY <1>1, <2>1, CatchQuietly DEF ScanInv, TypeOK
<1>2. CASE ~(Catch({v}) /\ UNCHANGED <<landmarker, record, posts>>)
  <2>1. pc[v] \in MonitorUse \ {"capture", "poses"} /\ v \in Pages
    BY <1>2, PageOnly
    DEF LoopFails, Positioned, Located, LocationAnswered, MonitorUse, DialogSteps
  <2>2. \E step \in {"gps", "location", "challenge"} : Go(v, step)
    BY <1>2 DEF LoopFails, Positioned, Located, LocationAnswered
  <2>3. UNCHANGED <<page, cam, mon, gps, scan, landmarker, record, posts, abandoned>>
    BY <1>2 DEF LoopFails, Positioned, Located, LocationAnswered
  <2>4. gps' \in [Scanners -> Search]
    BY <2>3 DEF ScanInv, TypeOK
  <2>5. PICK step \in {"gps", "location", "challenge"} : Go(v, step)
    BY <2>2
  <2>6. step \in MonitorUse
    BY DEF MonitorUse
  <2> QED BY <2>1, <2>3, <2>4, <2>5, <2>6, OnlyProceeds
<1> QED BY <1>1, <1>2

LEMMA ChallengeStep ==
  ASSUME ScanInv, NEW v \in Scanners, ChallengeAnswered(v)
  PROVE  StepOK
<1>1. ScannerOK(v) /\ pc[v] = "challenge"
  BY DEF ChallengeAnswered, ScanInv
<1>2. CASE Catch({v})
  BY <1>1, <1>2, CatchQuietly DEF ChallengeAnswered, ScanInv, TypeOK
<1>3. CASE ~Catch({v})
  <2>1. PICK gesture \in BOOLEAN : scan' = [scan EXCEPT ![v].gesture = gesture]
    BY <1>3 DEF ChallengeAnswered
  <2>2. /\ Go(v, "capture")
        /\ UNCHANGED <<page, cam, mon, gps, abandoned, landmarker, record, posts>>
    BY <1>3 DEF ChallengeAnswered
  <2>3. scan[v] \in Scan
    BY TypesOfScanner DEF ScanInv
  <2>4. /\ scan'[v] \in Scan /\ scan'[v].live = scan[v].live /\ scan'[v].out = scan[v].out
        /\ scan'[v].acted = scan[v].acted /\ scan'[v].poses = scan[v].poses
    BY <2>1, <2>3 DEF Scan, ScanInv, TypeOK
  <2>5. TypeOK'
    BY <2>1, <2>2, <2>4 DEF Go, ScanInv, TypeOK, Step, CameraUse
  <2>6. pc'[v] = "capture"
    BY <2>2 DEF Go, ScanInv, TypeOK
  <2>7. KindOK(v)' /\ CameraOK(v)' /\ CaptureOK(v)'
    BY <1>1, <2>2, <2>4, <2>6
    DEF ScannerOK, KindOK, PageSteps, DialogSteps, Step, CameraUse, CameraOK, CaptureOK
  <2>8. MonitorOK(v)' /\ LeftOK(v)'
    BY <1>1, <2>2, <2>4, <2>6 DEF ScannerOK, MonitorOK, MonitorUse, LeftOK, Upload
  <2>9. \A w \in Scanners \ {v} : pc'[w] = pc[w] /\ scan'[w] = scan[w]
    BY <2>1, <2>2 DEF Go, ScanInv, TypeOK
  <2> QED BY <1>1, <2>2, <2>4, <2>5, <2>7, <2>8, <2>9, ScanGoesOn
<1> QED BY <1>2, <1>3

\* A reading of the camera counts only for a scan that is wanted.
LEMMA CollectStep ==
  ASSUME ScanInv, NEW v \in Scanners, Act(v) \/ Frame(v) \/ PoseHeld(v)
  PROVE  StepOK
<1>1. /\ ScannerOK(v) /\ scan[v] \in Scan /\ scan[v].live
      /\ pc[v] \in {"capture", "poses"}
  BY TypesOfScanner DEF Act, Frame, PoseHeld, Watching, ScanInv
<1>2. UNCHANGED <<page, pc, cam, mon, gps, landmarker, record, posts, abandoned>>
  BY DEF Act, Frame, PoseHeld
<1>3. /\ scan'[v] \in Scan /\ scan'[v].live = scan[v].live /\ scan'[v].out = scan[v].out
      /\ pc[v] # "capture" => scan'[v].acted = scan[v].acted
      /\ scan'[v].gesture /\ scan'[v].acted =>
           scan'[v].actFrame \/ scan'[v].frames = MaxFrames
  <2>1. CASE Act(v)
    <3>1. CASE scan[v].gesture
      <4>1. scan' = [scan EXCEPT ![v].acted = TRUE,
                                 ![v].actFrame = scan[v].frames < MaxFrames,
                                 ![v].frames = IF @ < MaxFrames THEN @ + 1 ELSE @]
        BY <2>1, <3>1 DEF Act
      <4>2. /\ scan'[v].live = scan[v].live /\ scan'[v].out = scan[v].out
            /\ scan'[v].gesture = scan[v].gesture /\ scan'[v].poses = scan[v].poses
            /\ scan'[v].acted = TRUE /\ scan'[v].actFrame = (scan[v].frames < MaxFrames)
            /\ scan'[v].frames = IF scan[v].frames < MaxFrames THEN scan[v].frames + 1
                                 ELSE scan[v].frames
        BY <1>1, <4>1 DEF ScanInv, TypeOK, Scan
      <4>3. scan'[v] \in Scan
        <5> DEFINE a == scan[v].frames < MaxFrames
                   n == IF a THEN scan[v].frames + 1 ELSE scan[v].frames
        <5>1. a \in BOOLEAN /\ n \in 0 .. MaxFrames
          BY <1>1, TypesOfScanner DEF ScanInv
        <5>2. scan'[v] = [scan[v] EXCEPT !.acted = TRUE, !.actFrame = a, !.frames = n]
          BY <4>1 DEF ScanInv, TypeOK
        <5> HIDE DEF a, n
        <5> QED BY <1>1, <5>1, <5>2 DEF Scan
      <4> QED BY <1>1, <2>1, <4>2, <4>3 DEF Act, Scan
    <3>2. CASE ~scan[v].gesture
      <4>1. scan' = [scan EXCEPT ![v].acted = ~@]
        BY <2>1, <3>2 DEF Act
      <4> QED BY <1>1, <2>1, <3>2, <4>1 DEF Act, ScanInv, TypeOK, Scan
    <3> QED BY <3>1, <3>2
  <2>2. CASE Frame(v)
    <3>1. scan[v].frames < MaxFrames /\ scan'[v] = [scan[v] EXCEPT !.frames = @ + 1]
      BY <2>2 DEF Frame, ScanInv, TypeOK
    <3>2. scan[v].frames + 1 \in 0 .. MaxFrames
      BY <1>1, <3>1, TypesOfScanner DEF ScanInv
    <3>3. scan'[v] = [scan[v] EXCEPT !.frames = scan[v].frames + 1]
      BY <3>1
    <3>4. /\ scan'[v] \in Scan /\ scan'[v].live = scan[v].live /\ scan'[v].out = scan[v].out
          /\ scan'[v].acted = scan[v].acted /\ scan'[v].gesture = scan[v].gesture
          /\ scan'[v].actFrame = scan[v].actFrame
      BY <1>1, <3>2, <3>3 DEF Scan
    <3>5. scan[v].frames # MaxFrames
      BY <1>1, <3>1, TypesOfScanner DEF ScanInv
    <3>6. scan[v].gesture /\ scan[v].acted => scan[v].actFrame
      BY <1>1, <3>5 DEF ScannerOK, CaptureOK
    <3> QED BY <1>1, <2>2, <3>4, <3>6 DEF Frame
  <2>3. CASE PoseHeld(v)
    <3>1. scan[v].poses < Poses /\ scan'[v] = [scan[v] EXCEPT !.poses = @ + 1]
      BY <2>3 DEF PoseHeld, ScanInv, TypeOK
    <3>2. scan[v].poses + 1 \in 0 .. Poses
      BY <1>1, <3>1, TypesOfScanner DEF ScanInv
    <3>3. scan'[v] = [scan[v] EXCEPT !.poses = scan[v].poses + 1]
      BY <3>1
    <3>4. /\ scan'[v] \in Scan /\ scan'[v].live = scan[v].live /\ scan'[v].out = scan[v].out
          /\ scan'[v].acted = scan[v].acted /\ scan'[v].gesture = scan[v].gesture
          /\ scan'[v].actFrame = scan[v].actFrame /\ scan'[v].frames = scan[v].frames
      BY <1>1, <3>2, <3>3 DEF Scan
    <3> QED BY <1>1, <3>4 DEF ScannerOK, CaptureOK
  <2> QED BY <2>1, <2>2, <2>3
<1>4. scan' \in [Scanners -> Scan] /\ \A w \in Scanners \ {v} : scan'[w] = scan[w]
  BY <1>3 DEF Act, Frame, PoseHeld, ScanInv, TypeOK
<1>5. TypeOK'
  BY <1>2, <1>4 DEF ScanInv, TypeOK
<1>6. KindOK(v)' /\ CameraOK(v)' /\ MonitorOK(v)'
  BY <1>1, <1>2, <1>3 DEF ScannerOK, KindOK, CameraOK, MonitorOK
<1>7. LeftOK(v)'
  BY <1>1, <1>2 DEF ScannerOK, LeftOK
<1>8. CaptureOK(v)'
  BY <1>1, <1>2, <1>3 DEF ScannerOK, CaptureOK
<1> QED BY <1>1, <1>2, <1>3, <1>4, <1>5, <1>6, <1>7, <1>8, ScanGoesOn

\* The devices are given back before anything is sent, and only a scan that is
\* wanted, or one that has all its poses, comes that far.
LEMMA CapturedStep ==
  ASSUME ScanInv, NEW v \in Scanners, CaptureCompletes(v) \/ PosesComplete(v)
  PROVE  StepOK
<1>1. ScannerOK(v) /\ pc[v] \in {"capture", "poses"} /\ scan[v] \in Scan
  BY TypesOfScanner DEF CaptureCompletes, PosesComplete, ScanInv
<1>2. /\ pc[v] = "capture" => scan[v].acted /\ scan[v].frames >= MinFrames
      /\ v \notin abandoned
  BY <1>1 DEF CaptureCompletes, PosesComplete, Watching, ScannerOK, LeftOK
<1>3. /\ pc' = [pc EXCEPT ![v] = IF pc[v] = "capture" THEN "verify" ELSE "enrol"]
      /\ StopMonitor({v}) /\ StopCamera({v})
      /\ UNCHANGED <<page, gps, scan, landmarker, record, posts, abandoned>>
  BY DEF CaptureCompletes, PosesComplete, Go
<1>4. TypeOK'
  BY <1>3, ClosedType DEF StopMonitor, StopCamera, ScanInv, TypeOK, Step, Upload
<1>5. /\ pc'[v] = IF pc[v] = "capture" THEN "verify" ELSE "enrol"
      /\ mon'[v] = MonitorStopped /\ ~cam'[v]
  BY <1>3 DEF StopMonitor, StopCamera, ScanInv, TypeOK
<1>6. KindOK(v)' /\ CameraOK(v)' /\ MonitorOK(v)' /\ LeftOK(v)' /\ CaptureOK(v)'
  <2>1. KindOK(v)' /\ CameraOK(v)'
    BY <1>1, <1>5
    DEF ScannerOK, KindOK, PageSteps, DialogSteps, Step, CameraUse, Upload, CameraOK
  <2>2. MonitorOK(v)' /\ LeftOK(v)' /\ CaptureOK(v)'
    BY <1>1, <1>2, <1>3, <1>5, ClosedType DEF ScannerOK, MonitorOK, LeftOK, CaptureOK
  <2> QED BY <2>1, <2>2
<1>7. \A w \in Scanners \ {v} : /\ pc'[w] = pc[w] /\ cam'[w] = cam[w]
                                /\ mon'[w] = mon[w] /\ scan'[w] = scan[w]
  BY <1>3, TypesOfScanner DEF StopMonitor, StopCamera, ScanInv, TypeOK
<1> QED BY <1>1, <1>3, <1>4, <1>6, <1>7, ScanGoesOn

-----------------------------------------------------------------------------
(* The face, the submission and the server.                                *)

LEMMA FaceAnsweredStep ==
  ASSUME ScanInv, NEW v \in Scanners, FaceAnswered(v)
  PROVE  StepOK
<1>1. ScannerOK(v) /\ pc[v] = "verify" /\ scan[v] \in Scan
  BY TypesOfScanner DEF FaceAnswered, ScanInv
<1>2. CASE Catch({v}) /\ UNCHANGED posts
  BY <1>1, <1>2, CatchQuietly DEF FaceAnswered, ScanInv, TypeOK
<1>3. CASE ~(Catch({v}) /\ UNCHANGED posts)
  <2> DEFINE op == IF scan[v].out THEN "out" ELSE "in"
             x == [NoScan EXCEPT !.live = scan[v].live]
  <2>1. /\ Go(v, "submit")
        /\ posts' = posts \cup {[from |-> v, op |-> op]}
        /\ scan' = [scan EXCEPT ![v] = x]
        /\ UNCHANGED <<page, cam, mon, gps, abandoned, landmarker, record>>
    BY <1>3 DEF FaceAnswered
  <2>2. v \in Pages
    BY <1>1, PageOnly DEF DialogSteps
  <2>3. x \in Scan /\ x.live = scan[v].live /\ ~x.out /\ ~x.acted
    <3>1. NoScan \in Scan /\ ~NoScan.out /\ ~NoScan.acted
      BY ClosedType
    <3>2. scan[v].live \in BOOLEAN
      BY <1>1 DEF Scan
    <3> QED BY <3>1, <3>2 DEF Scan
  <2>4. RecordGrows
    BY <2>1, RecordStays DEF ScanInv
  <2>5. op \in {"in", "out"} /\ (op = "out" => record # "absent")
    BY <1>1 DEF ScannerOK, RecordOK
  <2> HIDE DEF op, x
  <2>6. TypeOK'
    <3>1. [from |-> v, op |-> op] \in Post
      BY <2>2, <2>5 DEF Post
    <3> QED BY <2>1, <2>3, <3>1 DEF Go, ScanInv, TypeOK, Step, Upload
  <2>7. pc'[v] = "submit" /\ scan'[v] = x
    BY <2>1 DEF Go, ScanInv, TypeOK
  <2>8. ScannerOK(v)' /\ NotBack(v)
    <3>1. KindOK(v)' /\ CameraOK(v)' /\ CaptureOK(v)'
      BY <1>1, <2>1, <2>3, <2>7
      DEF ScannerOK, KindOK, PageSteps, DialogSteps, Step, Upload, CameraUse, CameraOK, CaptureOK
    <3>2. MonitorOK(v)' /\ LeftOK(v)'
      BY <1>1, <2>1, <2>3, <2>7 DEF ScannerOK, MonitorOK, MonitorUse, LeftOK, Upload
    <3>3. RecordOK(v)'
      BY <1>1, <2>1, <2>3, <2>7 DEF ScannerOK, RecordOK
    <3>4. NotBack(v)
      BY <2>1, TypesOfScanner, Ranks DEF NotBack, ScanInv
    <3> QED BY <3>1, <3>2, <3>3, <3>4 DEF ScannerOK
  <2>9. \A w \in Scanners \ {v} : pc'[w] = pc[w] /\ scan'[w] = scan[w]
    BY <2>1 DEF Go, ScanInv, TypeOK
  <2>10. PostsOK'
    <3>1. \A p \in posts : p.from # v /\ (p.from # None => p.from \in Scanners)
      BY <1>1, FaceScanAssumption DEF ScanInv, PostsOK, TypeOK, Post, Scanners
    <3>2. v # None
      BY DEF Scanners
    <3>3. /\ [from |-> v, op |-> op].from = v
          /\ [from |-> v, op |-> op].op = op
      OBVIOUS
    <3>4. ASSUME NEW p \in posts'
          PROVE  /\ p.op = "out" => record' # "absent"
                 /\ p.from # None => pc'[p.from] = "submit"
                                     /\ \A q \in posts' : q.from = p.from => q = p
      <4>1. CASE p \in posts
        BY <2>1, <2>9, <3>1, <3>3, <4>1 DEF ScanInv, PostsOK
      <4>2. CASE p = [from |-> v, op |-> op]
        BY <2>1, <2>5, <2>7, <3>1, <3>3, <4>2
      <4> QED BY <2>1, <4>1, <4>2
    <3> QED BY <3>4 DEF PostsOK
  <2>11. \A w \in Scanners \ {v} : Same(w)
    BY <2>1, <2>9 DEF Same
  <2> QED BY <2>4, <2>6, <2>8, <2>10, <2>11, OneScanner
<1> QED BY <1>2, <1>3

\* The scan whose request it is waits for it, and for no other.
LEMMA PostOf ==
  ASSUME ScanInv, NEW v \in Scanners, NEW p \in posts, p.from = v
  PROVE  /\ v \in Pages /\ pc[v] = "submit" /\ p.op \in {"in", "out"}
         /\ \A q \in posts \ {p} : q.from # v
         /\ \A q \in posts : q.from # None => q.from \in Scanners
  BY DEF ScanInv, PostsOK, TypeOK, Post, Scanners

LEMMA SubmitSucceedsStep ==
  ASSUME ScanInv, NEW v \in Scanners, NEW p \in posts, SubmitSucceeds(v, p)
  PROVE  StepOK
<1>1. /\ v \in Pages /\ pc[v] = "submit" /\ p.op \in {"in", "out"}
      /\ \A q \in posts \ {p} : q.from # v
      /\ \A q \in posts : q.from # None => q.from \in Scanners
  BY PostOf DEF SubmitSucceeds
<1>2. RecordGrows
  BY <1>1, RecordFollows DEF SubmitSucceeds, ScanInv
<1>3. ScannerOK(v) /\ page[v] \in Page
  BY TypesOfScanner DEF ScanInv
<1> DEFINE x == IF page[v].mounted
                  THEN [page[v] EXCEPT !.stage = "success", !.record = p.op] ELSE page[v]
<1>4. /\ x \in Page /\ x.mounted = page[v].mounted /\ x.load = page[v].load
      /\ x.snap = page[v].snap
      /\ x.record = IF page[v].mounted THEN p.op ELSE page[v].record
  BY <1>1, <1>3 DEF Page, Attendance
<1>5. page'[v] = x /\ \A w \in Scanners \ {v} : page'[w] = page[w]
  BY DEF SubmitSucceeds, ScanInv, TypeOK
<1> HIDE DEF x
<1>6. page' \in [Scanners -> Page]
  BY <1>4, <1>5 DEF SubmitSucceeds, ScanInv, TypeOK
<1>7. TypeOK'
  BY <1>2, <1>6, ClosedType
  DEF SubmitSucceeds, Go, ScanInv, TypeOK, Step, Search, RecordGrows
<1>8. pc'[v] = "idle" /\ scan'[v] = NoScan /\ cam'[v] = cam[v] /\ mon'[v] = mon[v]
  BY DEF SubmitSucceeds, Go, ScanInv, TypeOK
<1>9. ~cam[v] /\ ~mon[v].current /\ ~mon[v].running
  BY <1>1, <1>3 DEF ScannerOK, CameraOK, CameraUse, MonitorOK, MonitorUse
<1>10. ScannerOK(v)' /\ NotBack(v)
  <2>1. KindOK(v)' /\ CameraOK(v)' /\ MonitorOK(v)' /\ LeftOK(v)' /\ CaptureOK(v)'
    BY <1>8, <1>9, ClosedType
    DEF SubmitSucceeds, KindOK, PageSteps, DialogSteps, Step, CameraOK, MonitorOK, LeftOK,
        CaptureOK
  <2>2. record' = p.op
    BY DEF SubmitSucceeds
  <2>3. /\ Rank(page[v].record) \in Nat /\ Rank(page[v].snap) \in Nat
        /\ Rank(record) \in Nat /\ Rank(record') \in Nat
    <3>1. {page[v].record, page[v].snap, record, record'} \subseteq Attendance
      BY <1>2, <1>3 DEF Page, ScanInv, TypeOK, RecordGrows
    <3> QED BY <3>1, Ranks
  <2>4. page[v].mounted => page[v].load = "done"
    BY <1>1, <1>3 DEF ScannerOK, RecordOK
  <2>5. RecordOK(v)'
    BY <1>2, <1>3, <1>4, <1>5, <1>8, <2>2, <2>3, <2>4, ClosedType
    DEF ScannerOK, RecordOK, RecordGrows
  <2>6. NotBack(v)
    BY <1>2, <1>3, <1>4, <1>5, <2>2, <2>3 DEF ScannerOK, RecordOK, RecordGrows, NotBack
  <2> QED BY <2>1, <2>5, <2>6 DEF ScannerOK
<1>11. \A w \in Scanners \ {v} : Same(w)
  BY <1>5 DEF Same, SubmitSucceeds, Go, ScanInv, TypeOK
<1>12. PostsOK'
  <2>1. posts' = posts \ {p} /\ \A w \in Scanners \ {v} : pc'[w] = pc[w]
    BY <1>11 DEF SubmitSucceeds, Same
  <2> QED BY <1>1, <1>2, <2>1, PostsStay
<1> QED BY <1>2, <1>7, <1>10, <1>11, <1>12, OneScanner

LEMMA SubmitFailsStep ==
  ASSUME ScanInv, NEW v \in Scanners, NEW p \in posts,
         SubmitFails(v, p) \/ SubmitTimesOut(v, p)
  PROVE  StepOK
<1>1. /\ v \in Pages /\ pc[v] = "submit" /\ p.op \in {"in", "out"}
      /\ \A q \in posts \ {p} : q.from # v
      /\ \A q \in posts : q.from # None => q.from \in Scanners
  BY PostOf DEF SubmitFails, SubmitTimesOut
<1>2. Catch({v}) /\ UNCHANGED <<landmarker, record>>
  BY DEF SubmitFails, SubmitTimesOut
<1>3. RecordGrows
  BY <1>2, RecordStays DEF ScanInv
<1> DEFINE orphan == [p EXCEPT !.from = None]
<1>4. orphan \in Post /\ orphan.from = None /\ orphan.op = p.op
  BY DEF ScanInv, TypeOK, Post
<1>5. posts' \subseteq (posts \ {p}) \cup {orphan}
  BY DEF SubmitFails, SubmitTimesOut
<1> HIDE DEF orphan
<1>6. \A w \in Scanners \ {v} : pc'[w] = pc[w]
  BY <1>2 DEF Catch, ScanEnds
<1>7. PostsOK'
  <2>1. ASSUME NEW q \in posts'
        PROVE  /\ q.op = "out" => record' # "absent"
               /\ q.from # None => pc'[q.from] = "submit"
                                   /\ \A u \in posts' : u.from = q.from => u = q
    <3>1. CASE q = orphan
      BY <1>2, <1>4, <3>1 DEF ScanInv, PostsOK
    <3>2. CASE q \in posts \ {p}
      BY <1>1, <1>2, <1>4, <1>5, <1>6, <3>2 DEF ScanInv, PostsOK
    <3> QED BY <1>5, <3>1, <3>2
  <2> QED BY <2>1 DEF PostsOK
<1>8. posts' \subseteq Post
  BY <1>4, <1>5 DEF ScanInv, TypeOK
<1> QED BY <1>2, <1>3, <1>7, <1>8, CatchStep DEF ScanInv, TypeOK

LEMMA OrphanServedStep ==
  ASSUME ScanInv, NEW p \in posts, OrphanServed(p)
  PROVE  StepOK
<1>1. RecordGrows
  <2>1. p.op \in {"in", "out"}
    BY DEF ScanInv, TypeOK, Post
  <2> QED BY <2>1, RecordStays, RecordFollows DEF OrphanServed, ScanInv
<1>2. TypeOK'
  BY <1>1 DEF OrphanServed, ScanInv, TypeOK, RecordGrows
<1>3. \A w \in Scanners : Same(w)
  BY DEF Same, OrphanServed
<1>4. PostsOK'
  BY <1>1, PostsStay DEF OrphanServed
<1> QED BY <1>1, <1>2, <1>3, <1>4, NoScanner

-----------------------------------------------------------------------------
(* Pages and dialogs.                                                      *)

\* What becomes of one scanner whose component is unmounted.
Unmounted(v) ==
  /\ ~page'[v].mounted /\ page'[v].load = "sent"
  /\ page'[v].snap = "absent" /\ page'[v].record = "absent"
  /\ pc'[v] = pc[v] /\ ~cam'[v] /\ mon'[v] = MonitorStopped
  /\ scan'[v] = IF Captured(v) THEN [scan[v] EXCEPT !.live = FALSE] ELSE NoScan
  /\ v \in abandoned' => v \in abandoned \/ (pc[v] # "idle" /\ ~Captured(v))

\* A scan that was left early has nothing that could be sent.
LEMMA LeftIsNotCaptured ==
  ASSUME ScanInv, NEW v \in abandoned
  PROVE  ~Captured(v)
<1>1. v \in Scanners
  BY DEF ScanInv, TypeOK
<1>2. LeftOK(v)
  BY <1>1 DEF ScanInv, ScannerOK
<1> QED BY <1>2 DEF LeftOK, Captured

LEMMA UnmountedIsFine ==
  ASSUME ScanInv, RecordGrows, NEW v \in Scanners, Unmounted(v)
  PROVE  ScannerOK(v)' /\ NotBack(v)
<1>1. ScannerOK(v) /\ scan[v] \in Scan
  BY TypesOfScanner DEF ScanInv
<1>2. /\ Captured(v) => /\ scan'[v].out = scan[v].out /\ scan'[v].acted = scan[v].acted
                        /\ scan'[v].gesture = scan[v].gesture
                        /\ scan'[v].actFrame = scan[v].actFrame
                        /\ scan'[v].frames = scan[v].frames
      /\ ~Captured(v) => scan'[v] = NoScan
  BY <1>1 DEF Unmounted, Scan
<1>3. KindOK(v)' /\ CameraOK(v)' /\ MonitorOK(v)'
  BY <1>1, ClosedType DEF Unmounted, ScannerOK, KindOK, CameraOK, MonitorOK
<1>4. LeftOK(v)'
  <2>1. ASSUME v \in abandoned'
        PROVE  pc[v] # "idle" /\ ~Captured(v)
    BY <1>1, <2>1, LeftIsNotCaptured DEF Unmounted, ScannerOK, LeftOK
  <2>2. ~Captured(v) => pc[v] \notin Upload
    BY DEF Captured
  <2> QED BY <1>2, <2>1, <2>2, ClosedType DEF Unmounted, LeftOK
<1>5. CaptureOK(v)'
  <2>1. CASE Captured(v)
    BY <1>1, <1>2, <2>1 DEF Unmounted, ScannerOK, CaptureOK
  <2>2. CASE ~Captured(v)
    BY <1>2, <2>2, ClosedType DEF Unmounted, CaptureOK, Captured, Upload
  <2> QED BY <2>1, <2>2
<1>6. RecordOK(v)'
  <2>1. scan'[v].out => scan[v].out
    BY <1>2, ClosedType
  <2>2. Rank(record') \in Nat
    BY Ranks DEF RecordGrows
  <2>3. Rank("absent") = 0
    BY DEF Rank
  <2> QED BY <1>1, <2>1, <2>2, <2>3 DEF Unmounted, ScannerOK, RecordOK, RecordGrows
<1>7. NotBack(v)
  BY DEF NotBack, Unmounted
<1> QED BY <1>3, <1>4, <1>5, <1>6, <1>7 DEF ScannerOK

\* Some scanners are unmounted, the others stay as they are.
LEMMA SomeUnmounted ==
  ASSUME ScanInv, TypeOK', UNCHANGED <<record, posts>>, NEW S \in SUBSET Scanners,
         \A v \in S : Unmounted(v), \A w \in Scanners \ S : Same(w)
  PROVE  StepOK
<1>1. RecordGrows
  BY RecordStays DEF ScanInv
<1>2. \A v \in Scanners : ScannerOK(v)' /\ NotBack(v)
  BY <1>1, UnmountedIsFine, ScannerStays
<1>3. \A v \in Scanners : pc'[v] = pc[v]
  BY DEF Unmounted, Same
<1>4. \A p \in posts : p.from # None => p.from \in Scanners
  BY DEF ScanInv, TypeOK, Post, Scanners
<1>5. PostsOK'
  BY <1>1, <1>3, <1>4, PostsStay
<1> QED BY <1>2, <1>5 DEF StepOK, ScanInv

LEMMA UnmountStep ==
  ASSUME ScanInv, NEW S \in SUBSET Scanners, Unmount(S)
  PROVE  StepOK
<1>1. \A v \in Scanners :
        /\ page'[v] \in Page
        /\ v \in S => /\ ~page'[v].mounted /\ page'[v].load = "sent"
                      /\ page'[v].snap = "absent" /\ page'[v].record = "absent"
        /\ v \notin S => /\ page'[v].mounted = page[v].mounted
                         /\ page'[v].load = page[v].load
                         /\ page'[v].snap = page[v].snap
                         /\ page'[v].record = page[v].record
  <2>1. ASSUME NEW v \in Scanners
        PROVE  page'[v] = [(IF v \in S THEN Closed ELSE page[v])
                             EXCEPT !.host = IF page[v].host \in S THEN None ELSE page[v].host]
    BY DEF Unmount
  <2>2. ASSUME NEW x \in Page, NEW h \in Pages \cup {None}
        PROVE  LET y == [x EXCEPT !.host = h]
               IN /\ y \in Page /\ y.mounted = x.mounted /\ y.load = x.load
                  /\ y.snap = x.snap /\ y.record = x.record
    BY DEF Page
  <2>3. ASSUME NEW v \in Scanners
        PROVE  /\ page'[v] \in Page
               /\ v \in S => /\ ~page'[v].mounted /\ page'[v].load = "sent"
                             /\ page'[v].snap = "absent" /\ page'[v].record = "absent"
               /\ v \notin S => /\ page'[v].mounted = page[v].mounted
                                /\ page'[v].load = page[v].load
                                /\ page'[v].snap = page[v].snap
                                /\ page'[v].record = page[v].record
    <3> DEFINE x == IF v \in S THEN Closed ELSE page[v]
               h == IF page[v].host \in S THEN None ELSE page[v].host
    <3>1. x \in Page /\ h \in Pages \cup {None}
      BY ClosedType, TypesOfScanner DEF ScanInv
    <3>2. page'[v] = [x EXCEPT !.host = h]
      BY <2>1
    <3>3. v \in S => x = Closed
      OBVIOUS
    <3>4. v \notin S => x = page[v]
      OBVIOUS
    <3> HIDE DEF x, h
    <3>5. /\ page'[v] \in Page /\ page'[v].mounted = x.mounted /\ page'[v].load = x.load
          /\ page'[v].snap = x.snap /\ page'[v].record = x.record
      BY <2>2, <3>1, <3>2
    <3> QED BY <3>3, <3>4, <3>5, ClosedType
  <2> QED BY <2>3
<1>2. \A v \in Scanners :
        /\ scan'[v] = IF v \in S THEN IF Captured(v) THEN [scan[v] EXCEPT !.live = FALSE]
                                      ELSE NoScan
                      ELSE scan[v]
        /\ mon'[v] = IF v \in S THEN MonitorStopped ELSE mon[v]
        /\ cam'[v] = (v \notin S /\ cam[v])
  BY DEF Unmount, StopMonitor, StopCamera
<1>3. TypeOK'
  <2>1. page' \in [Scanners -> Page]
    BY <1>1 DEF Unmount
  <2>2. \A v \in Scanners : [scan[v] EXCEPT !.live = FALSE] \in Scan
    <3>1. ASSUME NEW x \in Scan PROVE [x EXCEPT !.live = FALSE] \in Scan
      BY DEF Scan
    <3> QED BY <3>1, TypesOfScanner DEF ScanInv
  <2>3. \A v \in Scanners : scan'[v] \in Scan
    BY <1>2, <2>2, ClosedType, TypesOfScanner DEF ScanInv
  <2>4. scan' \in [Scanners -> Scan]
    BY <2>3 DEF Unmount
  <2>5. mon' \in [Scanners -> Monitor] /\ cam' \in [Scanners -> BOOLEAN]
    BY ClosedType DEF Unmount, StopMonitor, StopCamera, ScanInv, TypeOK
  <2> QED BY <2>1, <2>4, <2>5 DEF Unmount, ScanInv, TypeOK
<1>4. \A v \in S : Unmounted(v)
  BY <1>1, <1>2 DEF Unmounted, Unmount
<1>5. \A w \in Scanners \ S : Same(w)
  <2>1. ASSUME NEW w \in Scanners \ S
        PROVE  Same(w)
    <3>1. w \in abandoned' => w \in abandoned
      BY DEF Unmount
    <3>2. scan'[w] = scan[w] /\ mon'[w] = mon[w] /\ cam'[w] = cam[w] /\ pc'[w] = pc[w]
      BY <1>2, TypesOfScanner DEF Unmount, ScanInv
    <3> QED BY <1>1, <3>1, <3>2 DEF Same
  <2> QED BY <2>1
<1> QED BY <1>3, <1>4, <1>5, SomeUnmounted DEF Unmount

LEMMA LeaveStep ==
  ASSUME ScanInv, NEW v \in Scanners, LeavePage(v) \/ CloseDialog(v)
  PROVE  StepOK
<1>1. \E S \in SUBSET Scanners : Unmount(S)
  BY DEF LeavePage, CloseDialog, Scanners
<1> QED BY <1>1, UnmountStep

\* A component that is opened: its last scan is over.
LEMMA OpenStep ==
  ASSUME ScanInv, NEW v \in Scanners, pc[v] = "idle", NEW x \in Page,
         page' = [page EXCEPT ![v] = x],
         v \in Pages => ~page[v].mounted,
         x.load = "sent", x.snap = "absent", x.record = "absent",
         UNCHANGED <<pc, cam, mon, gps, scan, landmarker, record, posts, abandoned>>
  PROVE  StepOK
<1>1. ScannerOK(v)
  BY DEF ScanInv
<1>2. RecordGrows
  BY RecordStays DEF ScanInv
<1>3. TypeOK'
  BY DEF ScanInv, TypeOK
<1>4. page'[v] = x /\ \A w \in Scanners \ {v} : Same(w)
  BY DEF Same, ScanInv, TypeOK
<1>5. KindOK(v)' /\ CameraOK(v)' /\ MonitorOK(v)' /\ LeftOK(v)' /\ CaptureOK(v)'
  BY <1>1, <1>4
  DEF ScannerOK, KindOK, CameraOK, CameraUse, MonitorOK, LeftOK, CaptureOK
<1>6. RecordOK(v)'
  <2>1. Rank(record) \in Nat /\ Rank("absent") = 0
    <3>1. Rank("absent") = 0
      BY DEF Rank
    <3> QED BY <3>1, Ranks DEF ScanInv, TypeOK
  <2> QED BY <1>1, <1>4, <2>1 DEF ScannerOK, RecordOK
<1>7. NotBack(v)
  BY DEF NotBack
<1>8. PostsOK'
  BY <1>2, PostsStay
<1> QED BY <1>2, <1>3, <1>4, <1>5, <1>6, <1>7, <1>8, OneScanner DEF ScannerOK

LEMMA OpenPageStep ==
  ASSUME ScanInv, NEW v \in Scanners,
         OpenPage(v) \/ \E u \in Pages : OpenDialog(u, v)
  PROVE  StepOK
<1>1. CASE OpenPage(v)
  <2>1. PICK stored \in BOOLEAN :
          page' = [page EXCEPT ![v] = [Closed EXCEPT !.mounted = TRUE, !.enrolled = stored]]
    BY <1>1 DEF OpenPage
  <2>2. LET x == [Closed EXCEPT !.mounted = TRUE, !.enrolled = stored]
        IN x \in Page /\ x.load = "sent" /\ x.snap = "absent" /\ x.record = "absent"
    BY DEF Closed, Page, Attendance
  <2>3. /\ v \in Pages /\ pc[v] = "idle" /\ ~page[v].mounted
        /\ UNCHANGED <<pc, cam, mon, gps, scan, landmarker, record, posts, abandoned>>
    BY <1>1 DEF OpenPage
  <2> QED BY <2>1, <2>2, <2>3, OpenStep
<1>2. CASE \E u \in Pages : OpenDialog(u, v)
  <2>1. PICK u \in Pages : OpenDialog(u, v)
    BY <1>2
  <2>2. LET x == [Closed EXCEPT !.mounted = TRUE, !.host = u]
        IN x \in Page /\ x.load = "sent" /\ x.snap = "absent" /\ x.record = "absent"
    BY DEF Closed, Page, Attendance
  <2>3. /\ v \notin Pages /\ pc[v] = "idle"
        /\ page' = [page EXCEPT ![v] = [Closed EXCEPT !.mounted = TRUE, !.host = u]]
        /\ UNCHANGED <<pc, cam, mon, gps, scan, landmarker, record, posts, abandoned>>
    BY <2>1 DEF OpenDialog
  <2> QED BY <2>2, <2>3, OpenStep
<1> QED BY <1>1, <1>2

\* The load of a page that has shown nothing and scanned nothing yet.
LEMMA LoadStep ==
  ASSUME ScanInv, NEW v \in Pages, ReadRecord(v) \/ LoadSettled(v)
  PROVE  StepOK
<1>1. v \in Scanners /\ ScannerOK(v) /\ page[v] \in Page
  BY TypesOfScanner DEF ScanInv, Scanners
<1>2. UNCHANGED <<pc, cam, mon, gps, scan, landmarker, record, posts, abandoned>>
  BY DEF ReadRecord, LoadSettled
<1>3. RecordGrows /\ record \in Attendance
  BY <1>2, RecordStays DEF ScanInv, TypeOK
<1>4. page[v].mounted /\ page[v].load # "done" /\ page[v].record = "absent" /\ pc[v] = "idle"
  BY <1>1 DEF ReadRecord, LoadSettled, ScannerOK, RecordOK
<1>5. /\ page'[v] \in Page /\ page'[v].mounted
      /\ page'[v].record \in {page[v].record, page[v].snap}
      /\ page'[v].snap \in {"absent", record}
      /\ page'[v].load # "done" => page'[v].record = "absent"
      /\ \A w \in Scanners \ {v} : page'[w] = page[w]
  <2>1. CASE ReadRecord(v)
    <3>1. page' = [page EXCEPT ![v].load = "answered", ![v].snap = record]
      BY <2>1 DEF ReadRecord
    <3>2. page'[v] = [page[v] EXCEPT !.load = "answered", !.snap = record]
      BY <1>1, <3>1 DEF ScanInv, TypeOK
    <3>3. /\ page'[v] \in Page /\ page'[v].mounted = page[v].mounted
          /\ page'[v].record = page[v].record /\ page'[v].snap = record
      BY <1>1, <1>3, <3>2 DEF Page
    <3> QED BY <1>1, <1>4, <3>1, <3>3 DEF ScanInv, TypeOK
  <2>2. CASE LoadSettled(v)
    <3>1. PICK enrolled \in BOOLEAN, seen \in {page[v].record, page[v].snap} :
            page' = [page EXCEPT ![v].load = "done", ![v].enrolled = enrolled,
                                 ![v].record = seen, ![v].snap = "absent"]
      BY <2>2 DEF LoadSettled
    <3>2. page'[v] = [page[v] EXCEPT !.load = "done", !.enrolled = enrolled,
                                     !.record = seen, !.snap = "absent"]
      BY <1>1, <3>1 DEF ScanInv, TypeOK
    <3>3. seen \in Attendance /\ "absent" \in Attendance
      BY <1>1 DEF Page, Attendance
    <3>4. /\ page'[v] \in Page /\ page'[v].mounted = page[v].mounted
          /\ page'[v].record = seen /\ page'[v].snap = "absent" /\ page'[v].load = "done"
      BY <1>1, <3>2, <3>3 DEF Page
    <3> QED BY <1>1, <1>4, <3>1, <3>4 DEF ScanInv, TypeOK
  <2> QED BY <2>1, <2>2
<1>6. TypeOK'
  <2>1. page' = [page EXCEPT ![v] = page'[v]]
    BY <1>5 DEF ReadRecord, LoadSettled, ScanInv, TypeOK
  <2> QED BY <1>2, <1>5, <2>1 DEF ScanInv, TypeOK
<1>7. \A w \in Scanners \ {v} : Same(w)
  BY <1>2, <1>5 DEF Same
<1>8. KindOK(v)' /\ CameraOK(v)' /\ MonitorOK(v)' /\ LeftOK(v)' /\ CaptureOK(v)'
  BY <1>1, <1>2, <1>4, <1>5
  DEF ScannerOK, KindOK, CameraOK, CameraUse, MonitorOK, LeftOK, CaptureOK
<1>9. RecordOK(v)' /\ NotBack(v)
  <2>1. /\ Rank(page[v].record) \in Nat /\ Rank(page[v].snap) \in Nat
        /\ Rank(record) \in Nat /\ Rank("absent") = 0
    BY <1>1, <1>3, Ranks DEF Page
  <2> QED BY <1>1, <1>2, <1>4, <1>5, <2>1 DEF ScannerOK, RecordOK, NotBack
<1>10. PostsOK'
  BY <1>2, <1>3, PostsStay
<1> QED BY <1>1, <1>3, <1>6, <1>7, <1>8, <1>9, <1>10, OneScanner DEF ScannerOK

LEMMA ResetStep ==
  ASSUME ScanInv, NEW v \in Scanners, Reset(v)
  PROVE  StepOK
<1>1. ScannerOK(v) /\ page[v] \in Page
  BY TypesOfScanner DEF ScanInv
<1>2. RecordGrows
  BY RecordStays DEF Reset, ScanInv
<1>3. page'[v] = [page[v] EXCEPT !.stage = "intro"]
  BY DEF Reset, ScanInv, TypeOK
<1>4. /\ page'[v] \in Page /\ page'[v].mounted = page[v].mounted
      /\ page'[v].load = page[v].load /\ page'[v].snap = page[v].snap
      /\ page'[v].record = page[v].record
  BY <1>1, <1>3 DEF Page
<1>5. mon'[v] = MonitorStopped /\ ~cam'[v]
  BY DEF Reset, StopMonitor, StopCamera
<1>6. TypeOK'
  <2>1. page' = [page EXCEPT ![v] = page'[v]]
    BY <1>3 DEF Reset
  <2> QED BY <1>4, <2>1, ClosedType DEF Reset, StopMonitor, StopCamera, ScanInv, TypeOK
<1>7. \A w \in Scanners \ {v} : Same(w)
  BY TypesOfScanner DEF Same, Reset, StopMonitor, StopCamera, ScanInv, TypeOK
<1>8. KindOK(v)' /\ CameraOK(v)' /\ MonitorOK(v)' /\ LeftOK(v)' /\ CaptureOK(v)'
  BY <1>1, <1>4, <1>5, ClosedType
  DEF Reset, ScannerOK, KindOK, CameraOK, MonitorOK, LeftOK, CaptureOK
<1>9. RecordOK(v)' /\ NotBack(v)
  <2>1. Rank(page[v].record) \in Nat
    BY TypesOfScanner, Ranks DEF ScanInv
  <2> QED BY <1>1, <1>4, <2>1 DEF Reset, ScannerOK, RecordOK, NotBack
<1>10. PostsOK'
  BY <1>2, PostsStay DEF Reset
<1> QED BY <1>2, <1>6, <1>7, <1>8, <1>9, <1>10, OneScanner DEF ScannerOK

-----------------------------------------------------------------------------
(* A scan begins, and an enrolment ends.                                   *)

LEMMA CameraFailsStep ==
  ASSUME ScanInv, NEW v \in Scanners, CameraFails(v)
  PROVE  StepOK
  BY CatchQuietly DEF CameraFails, ScanInv, TypeOK

\* A page decides by the record it has, and it has one no newer than the
\* server's.
LEMMA StartStep ==
  ASSUME ScanInv, NEW v \in Scanners, StartScan(v) \/ StartEnrolment(v)
  PROVE  StepOK
<1>1. ScannerOK(v) /\ page[v] \in Page /\ pc[v] = "idle" /\ page[v].mounted
  BY TypesOfScanner DEF StartScan, StartEnrolment, Begins, ScanInv
<1>2. RecordGrows
  BY RecordStays DEF StartScan, StartEnrolment, Begins, ScanInv
<1>3. PICK s \in Scan :
        /\ scan' = [scan EXCEPT ![v] = s]
        /\ s.live /\ s.poses = 0 /\ ~s.acted /\ ~s.gesture
        /\ s.out => v \in Pages /\ page[v].record = "in"
        /\ v \in Pages => page[v].load = "done"
  <2>1. ASSUME NEW x \in Scan, NEW out \in BOOLEAN
        PROVE  LET s == [x EXCEPT !.live = TRUE, !.out = out]
               IN /\ s \in Scan /\ s.live /\ s.out = out /\ s.poses = x.poses
                  /\ s.acted = x.acted /\ s.gesture = x.gesture
    BY DEF Scan
  <2>2. ASSUME NEW x \in Scan
        PROVE  LET s == [x EXCEPT !.live = TRUE]
               IN /\ s \in Scan /\ s.live /\ s.out = x.out /\ s.poses = x.poses
                  /\ s.acted = x.acted /\ s.gesture = x.gesture
    BY DEF Scan
  <2>3. CASE StartScan(v)
    <3> DEFINE out == page[v].record = "in"
               s == [NoScan EXCEPT !.live = TRUE, !.out = out]
    <3>1. out \in BOOLEAN /\ (out => page[v].record = "in")
      OBVIOUS
    <3>2. scan' = [scan EXCEPT ![v] = s] /\ v \in Pages /\ page[v].load = "done"
      BY <2>3 DEF StartScan
    <3> HIDE DEF out
    <3>3. /\ s \in Scan /\ s.live /\ s.poses = 0 /\ ~s.acted /\ ~s.gesture
          /\ s.out = out
      BY <2>1, <3>1, ClosedType
    <3> HIDE DEF s
    <3> QED BY <3>1, <3>2, <3>3
  <2>4. CASE StartEnrolment(v)
    <3> DEFINE s == [NoScan EXCEPT !.live = TRUE]
    <3>1. s \in Scan /\ s.live /\ s.poses = 0 /\ ~s.acted /\ ~s.gesture /\ ~s.out
      BY <2>2, ClosedType
    <3>2. scan' = [scan EXCEPT ![v] = s] /\ v \notin Pages
      BY <2>4 DEF StartEnrolment
    <3> HIDE DEF s
    <3> QED BY <3>1, <3>2
  <2> QED BY <2>3, <2>4
<1>4. scan'[v] = s
  BY <1>3 DEF ScanInv, TypeOK
<1>5. /\ page' = [page EXCEPT ![v].stage = "scanning"] /\ pc' = [pc EXCEPT ![v] = "opening"]
      /\ gps' \in [Scanners -> Search]
      /\ UNCHANGED <<mon, landmarker, record, posts, abandoned>>
      /\ cam' \in [Scanners -> BOOLEAN] /\ ~cam'[v]
      /\ \A w \in Scanners \ {v} : cam'[w] = cam[w]
  <2>1. StartScan(v) \/ StartEnrolment(v) => gps' \in [Scanners -> Search]
    BY DEF StartScan, StartEnrolment, Search, ScanInv, TypeOK
  <2>2. StopCamera({v}) => /\ cam' \in [Scanners -> BOOLEAN] /\ ~cam'[v]
                           /\ \A w \in Scanners \ {v} : cam'[w] = cam[w]
    BY DEF StopCamera, ScanInv, TypeOK
  <2>3. Begins(v)
    BY DEF StartScan, StartEnrolment
  <2> QED BY <2>1, <2>2, <2>3 DEF Begins, Go
<1>6. /\ page'[v] \in Page /\ page'[v].mounted /\ page'[v].load = page[v].load
      /\ page'[v].snap = page[v].snap /\ page'[v].record = page[v].record
  <2>1. page'[v] = [page[v] EXCEPT !.stage = "scanning"]
    BY <1>5 DEF ScanInv, TypeOK
  <2> QED BY <1>1, <2>1 DEF Page
<1>7. TypeOK'
  <2>1. page' = [page EXCEPT ![v] = page'[v]]
    BY <1>5
  <2>2. page' \in [Scanners -> Page]
    BY <1>6, <2>1 DEF ScanInv, TypeOK
  <2>3. scan' \in [Scanners -> Scan] /\ pc' \in [Scanners -> Step]
    BY <1>3, <1>4, <1>5 DEF ScanInv, TypeOK, Step
  <2> QED BY <1>5, <2>2, <2>3 DEF ScanInv, TypeOK
<1>8. \A w \in Scanners \ {v} : Same(w)
  BY <1>3, <1>5 DEF Same, ScanInv, TypeOK
<1>9. pc'[v] = "opening"
  BY <1>5 DEF ScanInv, TypeOK
<1>10. KindOK(v)' /\ CameraOK(v)' /\ CaptureOK(v)'
  BY <1>1, <1>3, <1>4, <1>5, <1>9
  DEF ScannerOK, KindOK, PageSteps, DialogSteps, Step, CameraOK, CaptureOK
<1>11. MonitorOK(v)' /\ LeftOK(v)'
  BY <1>1, <1>3, <1>4, <1>5, <1>9 DEF ScannerOK, MonitorOK, MonitorUse, LeftOK, Upload
<1>12. RecordOK(v)' /\ NotBack(v)
  <2>1. /\ Rank(page[v].record) \in Nat /\ Rank(record) \in Nat
        /\ Rank("in") = 1 /\ Rank("absent") = 0
    BY <1>1, Ranks DEF Page, ScanInv, TypeOK
  <2> QED BY <1>1, <1>3, <1>4, <1>5, <1>6, <2>1 DEF ScannerOK, RecordOK, NotBack
<1>13. PostsOK'
  <2>1. \A p \in posts : p.from # None => p.from \in Scanners
    BY DEF ScanInv, TypeOK, Post, Scanners
  <2>2. \A w \in Scanners : pc[w] = "submit" => pc'[w] = "submit"
    BY <1>1, <1>5 DEF ScanInv, TypeOK
  <2> QED BY <1>2, <1>5, <2>1, <2>2, PostsStay
<1> QED BY <1>2, <1>7, <1>8, <1>10, <1>11, <1>12, <1>13, OneScanner DEF ScannerOK

\* The dialog that enrolled is closed, or another one that is open on the page,
\* with whatever its scan was doing.
LEMMA EnrolAnsweredStep ==
  ASSUME ScanInv, NEW d \in Scanners, EnrolAnswered(d)
  PROVE  StepOK
<1> DEFINE h == page[d].host
           gone == {e \in Dialogs : page[e].mounted /\ page[e].host = h}
<1>1. ScannerOK(d) /\ pc[d] = "enrol" /\ UNCHANGED <<landmarker, record, posts>>
  BY DEF EnrolAnswered, ScanInv
<1>2. RecordGrows
  BY <1>1, RecordStays DEF ScanInv
<1>3. d \in Dialogs /\ ~cam[d] /\ ~mon[d].current /\ ~mon[d].running
  BY <1>1 DEF ScannerOK, KindOK, PageSteps, CameraOK, CameraUse, MonitorOK, MonitorUse, Scanners
<1>4. h \in Pages \cup {None} /\ h \notin Dialogs /\ gone \subseteq Dialogs
  BY TypesOfScanner DEF ScanInv
<1>5. CASE Catch({d})
  BY <1>1, <1>5, CatchQuietly DEF ScanInv, TypeOK
<1>6. CASE ~Catch({d})
  <2>1. /\ pc' = [pc EXCEPT ![d] = "idle"]
        /\ page' = [v \in Scanners |->
                      CASE v = h -> [page[v] EXCEPT !.enrolled = TRUE]
                        [] v = d -> Closed
                        [] v \in gone \ {d} -> [Closed EXCEPT !.host = h]
                        [] OTHER -> page[v]]
        /\ scan' = [v \in Scanners |->
                      CASE v \in gone \ {d} /\ Captured(v) -> [scan[v] EXCEPT !.live = FALSE]
                        [] v = d \/ (v \in gone /\ ~Captured(v)) -> NoScan
                        [] OTHER -> scan[v]]
        /\ StopMonitor(gone)
        /\ StopCamera(gone)
        /\ abandoned' = (abandoned \ {d})
                          \cup {e \in gone \ {d} : pc[e] # "idle" /\ ~Captured(e)}
        /\ UNCHANGED gps
    BY <1>6 DEF EnrolAnswered
  <2> HIDE DEF gone, h
  <2>2. \A v \in Scanners :
          /\ v = d => page'[v] = Closed /\ scan'[v] = NoScan
          /\ v \in gone \ {d} =>
               /\ page'[v] = [Closed EXCEPT !.host = h]
               /\ scan'[v] = IF Captured(v) THEN [scan[v] EXCEPT !.live = FALSE] ELSE NoScan
          /\ v \notin gone \cup {d} =>
               /\ page'[v] = page[v] \/ page'[v] = [page[v] EXCEPT !.enrolled = TRUE]
               /\ scan'[v] = scan[v]
    <3> SUFFICES ASSUME NEW v \in Scanners
                 PROVE  /\ v = d => page'[v] = Closed /\ scan'[v] = NoScan
                        /\ v \in gone \ {d} =>
                             /\ page'[v] = [Closed EXCEPT !.host = h]
                             /\ scan'[v] = IF Captured(v) THEN [scan[v] EXCEPT !.live = FALSE]
                                           ELSE NoScan
                        /\ v \notin gone \cup {d} =>
                             /\ page'[v] = page[v] \/ page'[v] = [page[v] EXCEPT !.enrolled = TRUE]
                             /\ scan'[v] = scan[v]
      OBVIOUS
    <3>1. v \in gone \cup {d} => v # h
      BY <1>3, <1>4
    <3>2. page'[v] = CASE v = h -> [page[v] EXCEPT !.enrolled = TRUE]
                       [] v = d -> Closed
                       [] v \in gone \ {d} -> [Closed EXCEPT !.host = h]
                       [] OTHER -> page[v]
      BY <2>1
    <3> DEFINE left == [scan[v] EXCEPT !.live = FALSE]
    <3>3. scan'[v] = CASE v \in gone \ {d} /\ Captured(v) -> left
                       [] v = d \/ (v \in gone /\ ~Captured(v)) -> NoScan
                       [] OTHER -> scan[v]
      BY <2>1
    <3> HIDE DEF left
    <3>4. CASE v = d
      BY <3>1, <3>2, <3>3, <3>4
    <3>5. CASE v \in gone \ {d}
      <4>1. page'[v] = [Closed EXCEPT !.host = h]
        BY <3>1, <3>2, <3>5
      <4>2. scan'[v] = IF Captured(v) THEN left ELSE NoScan
        <5>1. CASE Captured(v)
          BY <3>3, <3>5, <5>1
        <5>2. CASE ~Captured(v)
          BY <3>3, <3>5, <5>2
        <5> QED BY <5>1, <5>2
      <4> QED BY <3>5, <4>1, <4>2 DEF left
    <3>6. CASE v \notin gone \cup {d}
      BY <3>2, <3>3, <3>6
    <3> QED BY <3>4, <3>5, <3>6
  <2>3. \A v \in Scanners :
          /\ mon'[v] = IF v \in gone THEN MonitorStopped ELSE mon[v]
          /\ cam'[v] = (v \notin gone /\ cam[v])
          /\ pc'[v] = IF v = d THEN "idle" ELSE pc[v]
    BY <2>1 DEF StopMonitor, StopCamera, ScanInv, TypeOK
  <2>4. /\ [Closed EXCEPT !.host = h] \in Page
        /\ LET x == [Closed EXCEPT !.host = h]
           IN /\ ~x.mounted /\ x.load = "sent" /\ x.snap = "absent" /\ x.record = "absent"
    BY <1>4 DEF Closed, Page, Attendance
  <2>5. ASSUME NEW v \in Scanners \ (gone \cup {d})
        PROVE  page'[v] \in Page /\ Same(v)
    <3>1. page[v] \in Page /\ cam[v] \in BOOLEAN
      BY TypesOfScanner DEF ScanInv
    <3>2. ASSUME NEW x \in Page
          PROVE  LET y == [x EXCEPT !.enrolled = TRUE]
                 IN /\ y \in Page /\ y.mounted = x.mounted /\ y.load = x.load
                    /\ y.snap = x.snap /\ y.record = x.record
      BY DEF Page
    <3>3. /\ page'[v] \in Page
          /\ page'[v].mounted = page[v].mounted /\ page'[v].load = page[v].load
          /\ page'[v].snap = page[v].snap /\ page'[v].record = page[v].record
      BY <2>2, <3>1, <3>2
    <3>4. v \in abandoned' => v \in abandoned
      BY <2>1
    <3>5. scan'[v] = scan[v] /\ mon'[v] = mon[v] /\ cam'[v] = cam[v] /\ pc'[v] = pc[v]
      BY <2>2, <2>3, <3>1
    <3> QED BY <3>3, <3>4, <3>5 DEF Same
  <2>6. \A v \in gone \ {d} : Unmounted(v)
    <3>1. gone \subseteq Scanners
      BY <1>4 DEF Scanners
    <3>2. \A v \in gone \ {d} :
            v \in abandoned' => v \in abandoned \/ (pc[v] # "idle" /\ ~Captured(v))
      BY <2>1
    <3> QED BY <2>2, <2>3, <2>4, <3>1, <3>2 DEF Unmounted
  <2>7. ScannerOK(d)' /\ NotBack(d)
    <3>1. /\ page'[d] = Closed /\ scan'[d] = NoScan /\ pc'[d] = "idle" /\ ~cam'[d]
          /\ ~mon'[d].current /\ ~mon'[d].running /\ d \notin abandoned'
      BY <1>3, <2>1, <2>2, <2>3, ClosedType
    <3>2. Rank(record') \in Nat /\ Rank("absent") = 0
      BY <1>2, Ranks DEF RecordGrows
    <3>3. KindOK(d)' /\ CameraOK(d)' /\ MonitorOK(d)' /\ LeftOK(d)' /\ CaptureOK(d)'
      BY <3>1, ClosedType
      DEF KindOK, PageSteps, DialogSteps, Step, CameraOK, MonitorOK, LeftOK, CaptureOK
    <3>4. RecordOK(d)' /\ NotBack(d)
      BY <3>1, <3>2, ClosedType DEF RecordOK, NotBack
    <3> QED BY <3>3, <3>4 DEF ScannerOK
  <2>8. TypeOK'
    <3>1. \A v \in Scanners : page'[v] \in Page
      BY <2>2, <2>4, <2>5, ClosedType
    <3>2. page' \in [Scanners -> Page]
      <4>1. DOMAIN page' = Scanners /\ page' = [v \in Scanners |-> page'[v]]
        BY <2>1
      <4> QED BY <3>1, <4>1
    <3>3. \A v \in Scanners : scan'[v] \in Scan
      <4>1. ASSUME NEW x \in Scan PROVE [x EXCEPT !.live = FALSE] \in Scan
        BY DEF Scan
      <4>2. ASSUME NEW v \in Scanners
            PROVE  scan'[v] \in {NoScan, scan[v], [scan[v] EXCEPT !.live = FALSE]}
        BY <2>2
      <4> QED BY <4>1, <4>2, ClosedType, TypesOfScanner DEF ScanInv
    <3>4. scan' \in [Scanners -> Scan]
      <4>1. scan' = [v \in Scanners |-> scan'[v]]
        BY <2>1
      <4> QED BY <3>3, <4>1
    <3>5. mon' \in [Scanners -> Monitor] /\ cam' \in [Scanners -> BOOLEAN]
      BY <2>1, ClosedType DEF StopMonitor, StopCamera, ScanInv, TypeOK
    <3>6. pc' \in [Scanners -> Step] /\ abandoned' \subseteq Scanners
      BY <1>4, <2>1 DEF ScanInv, TypeOK, Step, Scanners
    <3> QED BY <1>1, <2>1, <3>2, <3>4, <3>5, <3>6 DEF ScanInv, TypeOK
  <2>9. PostsOK'
    <3>1. \A p \in posts : p.from # None => p.from \in Scanners
      BY DEF ScanInv, TypeOK, Post, Scanners
    <3> QED BY <1>1, <1>2, <2>3, <3>1, PostsStay
  <2>10. \A v \in Scanners : ScannerOK(v)' /\ NotBack(v)
    BY <1>2, <2>5, <2>6, <2>7, UnmountedIsFine, ScannerStays
  <2> QED BY <2>8, <2>9, <2>10 DEF StepOK, ScanInv
<1> QED BY <1>5, <1>6

-----------------------------------------------------------------------------
(* The invariant and what follows from it.                                 *)

LEMMA InitInv == Init => ScanInv
<1> SUFFICES ASSUME Init PROVE ScanInv
  OBVIOUS
<1>1. TypeOK
  BY ClosedType DEF Init, TypeOK, Step, Search, Attendance
<1>2. ASSUME NEW v \in Scanners
      PROVE  ScannerOK(v)
  <2>1. /\ page[v] = Closed /\ pc[v] = "idle" /\ ~cam[v] /\ mon[v] = MonitorStopped
        /\ scan[v] = NoScan /\ abandoned = {} /\ record = "absent"
    BY DEF Init
  <2>2. KindOK(v) /\ CameraOK(v) /\ MonitorOK(v) /\ LeftOK(v) /\ CaptureOK(v)
    BY <2>1, ClosedType
    DEF KindOK, PageSteps, DialogSteps, Step, CameraOK, MonitorOK, LeftOK, CaptureOK
  <2>3. RecordOK(v)
    BY <2>1, ClosedType DEF RecordOK, Rank
  <2> QED BY <2>2, <2>3 DEF ScannerOK
<1>3. PostsOK
  BY DEF Init, PostsOK
<1> QED BY <1>1, <1>2, <1>3 DEF ScanInv

LEMMA NothingStep == ScanInv /\ UNCHANGED vars => StepOK
<1> SUFFICES ASSUME ScanInv, UNCHANGED vars PROVE StepOK
  OBVIOUS
<1> QED BY SearchStepKeeps DEF vars, ScanInv, TypeOK

LEMMA NextInv == ScanInv /\ [Next]_vars => StepOK
<1> SUFFICES ASSUME ScanInv, [Next]_vars PROVE StepOK
  OBVIOUS
<1>1. CASE Student
  <2>1. ASSUME NEW v \in Pages, OpenPage(v) \/ LeavePage(v) \/ StartScan(v)
        PROVE  StepOK
    BY <2>1, OpenPageStep, LeaveStep, StartStep DEF Scanners
  <2>2. ASSUME NEW v \in Pages, NEW d \in Dialogs, OpenDialog(v, d)
        PROVE  StepOK
    BY <2>2, OpenPageStep DEF Scanners
  <2>3. ASSUME NEW d \in Dialogs, CloseDialog(d) \/ StartEnrolment(d)
        PROVE  StepOK
    BY <2>3, LeaveStep, StartStep DEF Scanners
  <2> QED BY <1>1, <2>1, <2>2, <2>3, ResetStep DEF Student
<1>2. ASSUME NEW v \in Scanners, Sensors(v)
      PROVE  StepOK
  BY <1>2, PositionStep, ApproachStep, CollectStep, CapturedStep DEF Sensors
<1>3. ASSUME NEW v \in Scanners, ScanStep(v)
      PROVE  StepOK
  <2>1. CASE CameraOpens(v) \/ CameraFails(v) \/ Preview(v) \/ MonitorStarts(v)
    BY <2>1, CameraOpensStep, CameraFailsStep, PreviewStep, MonitorStartsStep
  <2>2. CASE LoopFails(v) \/ Located(v) \/ LocationAnswered(v) \/ ChallengeAnswered(v)
    BY <2>2, ApproachStep, ChallengeStep
  <2>3. CASE FaceAnswered(v) \/ PosesComplete(v) \/ EnrolAnswered(v)
    BY <2>3, FaceAnsweredStep, CapturedStep, EnrolAnsweredStep
  <2>4. CASE \E p \in posts : SubmitSucceeds(v, p) \/ SubmitFails(v, p) \/ SubmitTimesOut(v, p)
    BY <2>4, SubmitSucceedsStep, SubmitFailsStep
  <2> QED BY <1>3, <2>1, <2>2, <2>3, <2>4 DEF ScanStep
<1>4. ASSUME NEW v \in Scanners, SearchStep(v)
      PROVE  StepOK
  BY <1>4, PositionStep DEF SearchStep
<1>5. CASE Server
  BY <1>5, LoadStep, OrphanServedStep DEF Server
<1> QED BY <1>1, <1>2, <1>3, <1>4, <1>5, ModelStepKeeps, NothingStep DEF Next

\* The scanners of a phone are where the source has them, together: cameras,
\* monitors, captures, what a page knows and what is on its way.
THEOREM ScanInvariant == Spec => []ScanInv
<1>1. ScanInv /\ [Next]_vars => ScanInv'
  BY NextInv DEF StepOK
<1> QED BY <1>1, InitInv, PTL DEF Spec

\* Every variable of the browser keeps its type: no request has more frames
\* than it takes, no enrolment more poses than it has.
THEOREM TypeCorrect == Spec => []TypeOK
<1>1. ScanInv => TypeOK
  BY DEF ScanInv
<1> QED BY <1>1, ScanInvariant, PTL

\* Camera and analysis belong to the scan that is running, however leaving the
\* page, the answers of getUserMedia and the loading of the model race: the
\* cleanup of AttendancePage and the generations of useFaceMonitor suffice.
THEOREM DevicesFollow == Spec => []DevicesFollowScan
<1>1. ScanInv => DevicesFollowScan
  BY DEF ScanInv, ScannerOK, CameraOK, MonitorOK, DevicesFollowScan, CameraMatchesRun,
         MonitorMatchesRun
<1> QED BY <1>1, ScanInvariant, PTL

\* A scan that was left before it had what it sends never sends a face, and
\* what is sent to verify-face has enough frames and the requested gesture.
THEOREM UploadsSound == Spec => []UploadsAreSound
<1>1. ScanInv => AbandonedSendsNothing
  BY DEF ScanInv, TypeOK, ScannerOK, LeftOK, AbandonedSendsNothing
<1>2. ScanInv => CaptureComplete
  <2> SUFFICES ASSUME ScanInv, NEW v \in Scanners, pc[v] = "verify"
               PROVE  /\ scan[v].frames \in MinFrames .. MaxFrames
                      /\ scan[v].gesture => scan[v].actFrame \/ scan[v].frames = MaxFrames
    BY DEF CaptureComplete
  <2>1. CaptureOK(v) /\ scan[v].frames \in 0 .. MaxFrames
    BY TypesOfScanner DEF ScanInv, ScannerOK
  <2> QED BY <2>1 DEF CaptureOK
<1>3. ScanInv => UploadsAreSound
  BY <1>1, <1>2 DEF UploadsAreSound
<1> QED BY <1>3, ScanInvariant, PTL

\* No page shows more than the server has recorded, and a check-out is asked
\* for only when there is a check-in, however late its requests are served.
THEOREM RecordsNotAhead == Spec => []RecordNotAhead
<1>1. ScanInv => RecordNotAhead
  BY DEF ScanInv, ScannerOK, RecordOK, PostsOK, RecordNotAhead, Scanners
<1> QED BY <1>1, ScanInvariant, PTL

\* A page in view never goes back to an earlier record: the load, which may
\* answer late, is over before a scan can begin.
THEOREM RecordsStay == Spec => RecordNeverRegresses
<1>1. ScanInv /\ [Next]_vars =>
        [\A v \in Pages : page[v].mounted /\ page'[v].mounted =>
            Rank(page'[v].record) >= Rank(page[v].record)]_vars
  BY NextInv DEF StepOK, NotBack, Scanners
<1> QED BY <1>1, ScanInvariant, PTL DEF Spec, RecordNeverRegresses

-----------------------------------------------------------------------------
(* The scanners implement ScanContract.                                    *)

\* The three functions of the contract, as FaceScan maps them.
Views == [v \in Pages |-> ViewOf(v)]
Phases == [v \in Pages |-> PhaseOf(v)]
Ops == [v \in Pages |-> OpOf(v)]

USE DEF Views, Phases, Ops

\* A step of which the contract sees nothing at page w.
Alike(w) == ViewOf(w)' = ViewOf(w) /\ PhaseOf(w)' = PhaseOf(w) /\ OpOf(w)' = OpOf(w)

Hidden == UNCHANGED Contract!contract

LEMMA SameIsAlike ==
  ASSUME NEW w \in Pages, page'[w].mounted = page[w].mounted, page'[w].load = page[w].load,
         page'[w].record = page[w].record, pc'[w] = pc[w],
         scan'[w].live = scan[w].live, scan'[w].out = scan[w].out
  PROVE  Alike(w)
  BY DEF Alike, ViewOf, PhaseOf, OpOf

LEMMA AllAlike ==
  ASSUME \A w \in Pages : Alike(w), UNCHANGED <<record, posts>>
  PROVE  Hidden
<1>1. Views' = Views /\ Phases' = Phases /\ Ops' = Ops
  BY DEF Alike
<1> QED BY <1>1 DEF Hidden, Contract!contract

\* Of a step at one scanner, only what it does there can show.
LEMMA OneAlike ==
  ASSUME NEW v \in Scanners, v \in Pages => Alike(v), UNCHANGED <<record, posts>>,
         \A w \in Scanners \ {v} : /\ page'[w] = page[w] /\ pc'[w] = pc[w]
                                   /\ scan'[w] = scan[w]
  PROVE  Hidden
<1>1. \A w \in Pages \ {v} : Alike(w)
  BY SameIsAlike DEF Scanners
<1> QED BY <1>1, AllAlike

\* The scan of v takes its next step towards a capture.
LEMMA Approaches ==
  ASSUME ScanInv, NEW v \in Scanners, NEW step \in Step, Go(v, step),
         UNCHANGED <<page, record, posts>>,
         pc[v] \notin {"idle", "verify", "submit"}, step \notin {"idle", "verify", "submit"},
         \A w \in Scanners : scan'[w].live = scan[w].live /\ scan'[w].out = scan[w].out
  PROVE  Hidden
<1>1. pc'[v] = step /\ \A w \in Scanners \ {v} : pc'[w] = pc[w]
  BY DEF Go, ScanInv, TypeOK
<1>2. \A w \in Pages \ {v} : Alike(w)
  BY <1>1, SameIsAlike DEF Scanners
<1>3. v \in Pages => Alike(v)
  BY <1>1 DEF Alike, ViewOf, PhaseOf, OpOf
<1> QED BY <1>2, <1>3, AllAlike

\* The catch block shows as the end of the scan.
LEMMA CatchEnds ==
  ASSUME ScanInv, NEW S \in SUBSET Scanners, Catch(S)
  PROVE  UNCHANGED Views /\ Contract!End(S)
<1>1. ASSUME NEW w \in Pages
      PROVE  /\ ViewOf(w)' = ViewOf(w)
             /\ PhaseOf(w)' = IF w \in S THEN "none" ELSE PhaseOf(w)
             /\ OpOf(w)' = IF w \in S THEN "in" ELSE OpOf(w)
  <2>1. w \in Scanners /\ page[w] \in Page
    BY TypesOfScanner DEF ScanInv, Scanners
  <2>2. /\ pc'[w] = IF w \in S THEN "idle" ELSE pc[w]
        /\ scan'[w] = IF w \in S THEN NoScan ELSE scan[w]
        /\ page'[w] = page[w] \/ page'[w] = [page[w] EXCEPT !.stage = "error"]
    BY <2>1 DEF Catch, ScanEnds
  <2>3. /\ page'[w].mounted = page[w].mounted /\ page'[w].load = page[w].load
        /\ page'[w].record = page[w].record
    BY <2>1, <2>2 DEF Page
  <2> QED BY <2>2, <2>3 DEF ViewOf, PhaseOf, OpOf
<1> QED BY <1>1 DEF Contract!End

LEMMA CatchGivesUp ==
  ASSUME ScanInv, NEW S \in SUBSET Scanners, Catch(S), UNCHANGED <<record, posts>>,
         \A v \in S : pc[v] # "submit"
  PROVE  Contract!Next
<1> DEFINE T == {v \in S \cap Pages : PhaseOf(v) \in {"collecting", "captured"}}
<1>1. UNCHANGED Views /\ Contract!End(S)
  BY CatchEnds
<1>2. \A v \in Pages : v \in S \ T => PhaseOf(v) = "none" /\ OpOf(v) = "in"
  BY DEF PhaseOf, OpOf
<1>3. Contract!End(T)
  BY <1>1, <1>2 DEF Contract!End
<1>4. T \in SUBSET Pages /\ \A v \in T : Phases[v] \in {"collecting", "captured"}
  OBVIOUS
<1> HIDE DEF T
<1>5. Contract!GiveUp(T)
  BY <1>1, <1>3, <1>4 DEF Contract!GiveUp
<1> QED BY <1>4, <1>5 DEF Contract!Next

\* Unmounting shows at the pages among S, whose captured scans go on.
LEMMA UnmountLeaves ==
  ASSUME ScanInv, NEW S \in SUBSET Scanners, Unmount(S), NEW w \in Pages
  PROVE  /\ w \notin S => Alike(w)
         /\ w \in S => /\ ViewOf(w)' = "closed"
                       /\ PhaseOf(w)' = IF PhaseOf(w) = "collecting" THEN "none" ELSE PhaseOf(w)
                       /\ OpOf(w)' = IF PhaseOf(w) = "collecting" THEN "in" ELSE OpOf(w)
<1>1. w \in Scanners /\ KindOK(w) /\ page[w] \in Page /\ scan[w] \in Scan
  BY TypesOfScanner DEF ScanInv, ScannerOK, Scanners
<1>2. /\ pc'[w] = pc[w]
      /\ scan'[w] = IF w \in S THEN IF Captured(w) THEN [scan[w] EXCEPT !.live = FALSE]
                                    ELSE NoScan
                    ELSE scan[w]
      /\ page'[w] = [(IF w \in S THEN Closed ELSE page[w])
                       EXCEPT !.host = IF page[w].host \in S THEN None ELSE page[w].host]
  BY <1>1 DEF Unmount
<1>3. CASE w \notin S
  <2>1. /\ page'[w].mounted = page[w].mounted /\ page'[w].load = page[w].load
        /\ page'[w].record = page[w].record
    BY <1>1, <1>2, <1>3 DEF Page
  <2> QED BY <1>2, <1>3, <2>1, SameIsAlike
<1>4. CASE w \in S
  <2>1. ~page'[w].mounted
    BY <1>2, <1>4, ClosedType DEF Page
  <2>2. Captured(w) <=> pc[w] \in {"verify", "submit"}
    BY <1>1 DEF Captured, Upload, KindOK, PageSteps
  <2>3. CASE Captured(w)
    <3>1. scan'[w].out = scan[w].out
      BY <1>1, <1>2, <1>4, <2>3 DEF Scan
    <3> QED BY <1>2, <1>4, <2>1, <2>2, <2>3, <3>1 DEF ViewOf, PhaseOf, OpOf
  <2>4. CASE ~Captured(w)
    <3>1. ~scan'[w].live /\ ~scan'[w].out
      BY <1>2, <1>4, <2>4, ClosedType
    <3> QED BY <1>2, <1>4, <2>1, <2>2, <2>4, <3>1 DEF ViewOf, PhaseOf, OpOf
  <2> QED BY <2>3, <2>4
<1> QED BY <1>3, <1>4

LEMMA LeaveImplements ==
  ASSUME ScanInv, NEW v \in Scanners, LeavePage(v) \/ CloseDialog(v)
  PROVE  [Contract!Next]_(Contract!contract)
<1>1. CASE LeavePage(v)
  <2> DEFINE S == {v} \cup {d \in Dialogs : page[d].mounted}
             T == {v} \cap {w \in Pages : Phases[w] = "collecting"}
  <2>1. v \in Pages /\ page[v].mounted /\ Unmount(S) /\ S \in SUBSET Scanners
    BY <1>1 DEF LeavePage, Scanners
  <2>2. \A w \in Pages : w \in S <=> w = v
    BY <2>1
  <2> HIDE DEF S
  <2>3. ASSUME NEW w \in Pages
        PROVE  /\ ViewOf(w)' = IF w = v THEN "closed" ELSE ViewOf(w)
               /\ PhaseOf(w)' = IF w \in T THEN "none" ELSE PhaseOf(w)
               /\ OpOf(w)' = IF w \in T THEN "in" ELSE OpOf(w)
    BY <2>1, <2>2, UnmountLeaves DEF Alike
  <2>4. Views' = [Views EXCEPT ![v] = "closed"]
    BY <2>1, <2>3
  <2>5. Contract!End(T)
    BY <2>3 DEF Contract!End
  <2>6. Views[v] # "closed" /\ UNCHANGED <<record, posts>>
    <3>1. page[v].record \in Attendance
      BY <2>1, TypesOfScanner DEF ScanInv
    <3> QED BY <2>1, <3>1 DEF ViewOf, Attendance, Unmount
  <2>7. Contract!Leave(v)
    BY <2>4, <2>5, <2>6 DEF Contract!Leave
  <2> QED BY <2>1, <2>7 DEF Contract!Next
<1>2. CASE CloseDialog(v)
  <2>1. Unmount({v}) /\ v \notin Pages
    BY <1>2 DEF CloseDialog
  <2>2. \A w \in Pages : Alike(w)
    BY <2>1, UnmountLeaves
  <2> QED BY <2>1, <2>2, AllAlike DEF Unmount, Hidden
<1> QED BY <1>1, <1>2

LEMMA OpenImplements ==
  ASSUME ScanInv, NEW v \in Pages, OpenPage(v)
  PROVE  Contract!Open(v)
<1>1. PICK stored \in BOOLEAN :
        page' = [page EXCEPT ![v] = [Closed EXCEPT !.mounted = TRUE, !.enrolled = stored]]
  BY DEF OpenPage
<1>2. page'[v] = [Closed EXCEPT !.mounted = TRUE, !.enrolled = stored]
  BY <1>1 DEF ScanInv, TypeOK, Scanners
<1>3. page'[v].mounted /\ page'[v].load = "sent"
  BY <1>2 DEF Closed
<1>4. \A w \in Pages \ {v} : page'[w] = page[w]
  BY <1>1 DEF ScanInv, TypeOK, Scanners
<1>5. UNCHANGED <<pc, scan, record, posts>> /\ pc[v] = "idle"
  BY DEF OpenPage
<1>6. \A w \in Pages \ {v} : Alike(w)
  BY <1>4, <1>5, SameIsAlike
<1>7. ViewOf(v)' = "loading" /\ PhaseOf(v)' = PhaseOf(v) /\ OpOf(v)' = OpOf(v)
  BY <1>3, <1>5 DEF ViewOf, PhaseOf, OpOf
<1>8. Views' = [Views EXCEPT ![v] = "loading"] /\ UNCHANGED <<Phases, Ops>>
  BY <1>6, <1>7 DEF Alike
<1>9. (\A w \in Pages : Views[w] = "closed") /\ Phases[v] = "none"
  BY <1>5 DEF OpenPage, ViewOf, PhaseOf
<1> QED BY <1>5, <1>8, <1>9 DEF Contract!Open

\* What a record has been, by its rank.
LEMMA PastOf ==
  ASSUME NEW r \in Attendance, NEW s \in Attendance, Rank(r) <= Rank(s)
  PROVE  r \in Contract!Past[s]
<1>1. Contract!Past[s] = CASE s = "absent" -> {"absent"}
                           [] s = "in" -> {"absent", "in"}
                           [] s = "out" -> {"absent", "in", "out"}
  BY DEF Contract!Past, Attendance
<1> QED BY <1>1 DEF Attendance, Rank

LEMMA LearnImplements ==
  ASSUME ScanInv, NEW v \in Pages, LoadSettled(v)
  PROVE  Contract!Learn(v)
<1>1. /\ v \in Scanners /\ page[v] \in Page /\ page[v].mounted /\ page[v].load = "answered"
      /\ UNCHANGED <<pc, scan, record, posts>>
  BY TypesOfScanner DEF LoadSettled, ScanInv, Scanners
<1>2. PICK enrolled \in BOOLEAN, seen \in {page[v].record, page[v].snap} :
        page' = [page EXCEPT ![v].load = "done", ![v].enrolled = enrolled,
                             ![v].record = seen, ![v].snap = "absent"]
  BY DEF LoadSettled
<1>3. page'[v] = [page[v] EXCEPT !.load = "done", !.enrolled = enrolled,
                                 !.record = seen, !.snap = "absent"]
  BY <1>1, <1>2 DEF ScanInv, TypeOK
<1>4. page'[v].mounted /\ page'[v].load = "done" /\ page'[v].record = seen
  BY <1>1, <1>3 DEF Page
<1>5. \A w \in Pages \ {v} : Alike(w)
  BY <1>1, <1>2, SameIsAlike DEF ScanInv, TypeOK, Scanners
<1>6. ViewOf(v)' = seen /\ PhaseOf(v)' = PhaseOf(v) /\ OpOf(v)' = OpOf(v)
  BY <1>1, <1>4 DEF ViewOf, PhaseOf, OpOf
<1>7. Views' = [Views EXCEPT ![v] = seen] /\ UNCHANGED <<Phases, Ops>>
  BY <1>5, <1>6 DEF Alike
<1>8. seen \in Contract!Past[record]
  <2>1. RecordOK(v) /\ record \in Attendance /\ seen \in Attendance
    BY <1>1 DEF ScanInv, ScannerOK, TypeOK, Page
  <2> QED BY <2>1, PastOf DEF RecordOK
<1>9. Views[v] = "loading"
  BY <1>1 DEF ViewOf
<1> QED BY <1>1, <1>7, <1>8, <1>9 DEF Contract!Learn

LEMMA BeginImplements ==
  ASSUME ScanInv, NEW v \in Pages, StartScan(v)
  PROVE  Contract!Begin(v)
<1>1. /\ v \in Scanners /\ page[v] \in Page /\ page[v].mounted /\ page[v].load = "done"
      /\ pc[v] = "idle" /\ UNCHANGED <<record, posts>>
  BY TypesOfScanner DEF StartScan, Begins, ScanInv, Scanners
<1>2. /\ pc'[v] = "opening"
      /\ page'[v] = [page[v] EXCEPT !.stage = "scanning"]
      /\ \A w \in Scanners \ {v} : pc'[w] = pc[w] /\ page'[w] = page[w] /\ scan'[w] = scan[w]
  BY <1>1 DEF StartScan, Begins, Go, ScanInv, TypeOK
<1>3. /\ page'[v].mounted /\ page'[v].load = "done" /\ page'[v].record = page[v].record
  BY <1>1, <1>2 DEF Page
<1>4. scan'[v].live /\ (scan'[v].out <=> page[v].record = "in")
  <2> DEFINE out == page[v].record = "in"
  <2>1. scan'[v] = [NoScan EXCEPT !.live = TRUE, !.out = out]
    BY <1>1 DEF StartScan, ScanInv, TypeOK
  <2>2. out \in BOOLEAN
    OBVIOUS
  <2> HIDE DEF out
  <2>3. scan'[v].live /\ scan'[v].out = out
    BY <2>1, <2>2 DEF NoScan
  <2> QED BY <2>3 DEF out
<1>5. \A w \in Pages \ {v} : Alike(w)
  BY <1>2, SameIsAlike DEF Scanners
<1>6. /\ ViewOf(v) = page[v].record /\ ViewOf(v)' = ViewOf(v)
      /\ PhaseOf(v) = "none" /\ PhaseOf(v)' = "collecting"
      /\ OpOf(v)' = IF page[v].record = "in" THEN "out" ELSE "in"
  BY <1>1, <1>2, <1>3, <1>4 DEF ViewOf, PhaseOf, OpOf
<1>7. /\ Phases' = [Phases EXCEPT ![v] = "collecting"]
      /\ Ops' = [Ops EXCEPT ![v] = IF Views[v] = "in" THEN "out" ELSE "in"]
      /\ Views' = Views
  BY <1>5, <1>6 DEF Alike
<1>8. Views[v] \in DOMAIN Contract!Past /\ Phases[v] = "none"
  <2>1. page[v].record \in Attendance
    BY <1>1 DEF Page
  <2> QED BY <1>6, <2>1 DEF Contract!Past, Attendance
<1> QED BY <1>1, <1>7, <1>8 DEF Contract!Begin

LEMMA CaptureImplements ==
  ASSUME ScanInv, NEW v \in Scanners, CaptureCompletes(v)
  PROVE  v \in Pages /\ Contract!Capture(v)
<1>1. /\ pc[v] = "capture" /\ scan[v].live /\ Go(v, "verify")
      /\ UNCHANGED <<page, scan, record, posts>>
  BY DEF CaptureCompletes, Watching
<1>2. v \in Pages
  BY <1>1, PageOnly DEF DialogSteps
<1>3. pc'[v] = "verify" /\ \A w \in Pages \ {v} : Alike(w)
  BY <1>1, SameIsAlike DEF Go, ScanInv, TypeOK, Scanners
<1>4. /\ PhaseOf(v) = "collecting" /\ PhaseOf(v)' = "captured"
      /\ ViewOf(v)' = ViewOf(v) /\ OpOf(v)' = OpOf(v)
  BY <1>1, <1>3 DEF PhaseOf, ViewOf, OpOf
<1>5. Phases' = [Phases EXCEPT ![v] = "captured"] /\ UNCHANGED <<Views, Ops>>
  BY <1>3, <1>4 DEF Alike
<1> QED BY <1>1, <1>2, <1>4, <1>5 DEF Contract!Capture

LEMMA AskImplements ==
  ASSUME ScanInv, NEW v \in Scanners, FaceAnswered(v)
  PROVE  Contract!Next
<1>1. pc[v] = "verify" /\ UNCHANGED record
  BY DEF FaceAnswered
<1>2. CASE Catch({v}) /\ UNCHANGED posts
  BY <1>1, <1>2, CatchGivesUp
<1>3. CASE ~(Catch({v}) /\ UNCHANGED posts)
  <2>1. /\ Go(v, "submit") /\ UNCHANGED <<page, record>>
        /\ posts' = posts \cup {[from |-> v, op |-> IF scan[v].out THEN "out" ELSE "in"]}
        /\ scan' = [scan EXCEPT ![v] = [NoScan EXCEPT !.live = scan[v].live]]
    BY <1>3 DEF FaceAnswered
  <2>2. v \in Pages
    BY <1>1, PageOnly DEF DialogSteps
  <2>3. pc'[v] = "submit" /\ \A w \in Pages \ {v} : Alike(w)
    BY <2>1, SameIsAlike DEF Go, ScanInv, TypeOK, Scanners
  <2>4. /\ PhaseOf(v) = "captured" /\ PhaseOf(v)' = "asking" /\ ViewOf(v)' = ViewOf(v)
        /\ OpOf(v) = (IF scan[v].out THEN "out" ELSE "in") /\ OpOf(v)' = "in"
    BY <1>1, <2>1, <2>3 DEF PhaseOf, ViewOf, OpOf
  <2>5. /\ Phases' = [Phases EXCEPT ![v] = "asking"] /\ Ops' = [Ops EXCEPT ![v] = "in"]
        /\ UNCHANGED Views
    BY <2>3, <2>4 DEF Alike
  <2>6. Contract!Ask(v)
    BY <2>1, <2>2, <2>4, <2>5 DEF Contract!Ask
  <2> QED BY <2>2, <2>6 DEF Contract!Next
<1> QED BY <1>2, <1>3

LEMMA SucceedImplements ==
  ASSUME ScanInv, NEW v \in Scanners, NEW p \in posts, SubmitSucceeds(v, p)
  PROVE  Contract!Succeed(p)
<1>1. /\ v \in Pages /\ pc[v] = "submit" /\ p.op \in {"in", "out"} /\ p.from = v
      /\ page[v] \in Page
  BY PostOf, TypesOfScanner DEF SubmitSucceeds, ScanInv
<1>2. record = Contract!Before[p.op]
  BY <1>1 DEF SubmitSucceeds, Follows, Contract!Before
<1>3. /\ pc'[v] = "idle" /\ scan'[v] = NoScan
      /\ page'[v] = IF page[v].mounted
                    THEN [page[v] EXCEPT !.stage = "success", !.record = p.op] ELSE page[v]
      /\ \A w \in Scanners \ {v} : pc'[w] = pc[w] /\ page'[w] = page[w] /\ scan'[w] = scan[w]
  BY DEF SubmitSucceeds, Go, ScanInv, TypeOK
<1>4. /\ page'[v].mounted = page[v].mounted /\ page'[v].load = page[v].load
      /\ page[v].mounted => page'[v].record = p.op
  BY <1>1, <1>3 DEF Page
<1>5. \A w \in Pages \ {v} : Alike(w)
  BY <1>3, SameIsAlike DEF Scanners
<1>6. page[v].mounted => page[v].load = "done"
  BY <1>1 DEF ScanInv, ScannerOK, RecordOK, Scanners
<1>7. ViewOf(v) = "closed" <=> ~page[v].mounted
  BY <1>1, <1>6 DEF ViewOf, Page, Attendance
<1>8. /\ ViewOf(v)' = IF ViewOf(v) = "closed" THEN ViewOf(v) ELSE p.op
      /\ PhaseOf(v) = "asking" /\ PhaseOf(v)' = "none" /\ OpOf(v)' = "in"
  BY <1>1, <1>3, <1>4, <1>6, <1>7, ClosedType DEF ViewOf, PhaseOf, OpOf
<1>9. Views' = [Views EXCEPT ![v] = IF @ = "closed" THEN @ ELSE p.op]
  BY <1>5, <1>8 DEF Alike
<1>10. Contract!End({v})
  BY <1>5, <1>8 DEF Alike, Contract!End
<1> QED BY <1>1, <1>2, <1>8, <1>9, <1>10 DEF SubmitSucceeds, Contract!Succeed, Contract!Waits

LEMMA FailImplements ==
  ASSUME ScanInv, NEW v \in Scanners, NEW p \in posts,
         SubmitFails(v, p) \/ SubmitTimesOut(v, p)
  PROVE  Contract!Refuse(p) \/ Contract!Lose(p)
<1>1. /\ v \in Pages /\ pc[v] = "submit" /\ p.from = v
  BY PostOf DEF SubmitFails, SubmitTimesOut
<1>2. UNCHANGED <<record, Views>> /\ Contract!End({v})
  BY CatchEnds DEF SubmitFails, SubmitTimesOut
<1>3. Contract!Waits(p)
  BY <1>1 DEF Contract!Waits, PhaseOf
<1> QED BY <1>1, <1>2, <1>3
        DEF SubmitFails, SubmitTimesOut, Contract!Refuse, Contract!Lose

LEMMA LateImplements ==
  ASSUME ScanInv, NEW p \in posts, OrphanServed(p)
  PROVE  Contract!ServeLate(p)
<1>1. p.op \in {"in", "out"}
  BY DEF ScanInv, TypeOK, Post
<1>2. UNCHANGED <<Views, Phases, Ops>>
  BY DEF OrphanServed, ViewOf, PhaseOf, OpOf
<1>3. Follows(p.op) => record = Contract!Before[p.op]
  BY <1>1 DEF Follows, Contract!Before
<1> QED BY <1>2, <1>3 DEF OrphanServed, Contract!ServeLate

\* Camera, model, place and challenge do not show, unless they end the scan.
LEMMA ApproachImplements ==
  ASSUME ScanInv, NEW v \in Scanners,
         \/ CameraOpens(v) \/ CameraFails(v) \/ Preview(v) \/ MonitorStarts(v)
         \/ LoopFails(v) \/ Positioned(v) \/ Located(v) \/ LocationAnswered(v)
         \/ ChallengeAnswered(v)
  PROVE  [Contract!Next]_(Contract!contract)
<1>1. /\ pc[v] \in {"opening", "preview", "loading", "position", "gps", "location",
                    "challenge", "capture", "poses"}
      /\ UNCHANGED <<record, posts>>
  BY DEF CameraOpens, CameraFails, Preview, MonitorStarts, LoopFails, Positioned, Located,
         LocationAnswered, ChallengeAnswered
<1>2. CASE Catch({v})
  BY <1>1, <1>2, CatchGivesUp
<1>3. CASE ~Catch({v})
  <2>1. PICK step \in {"preview", "loading", "position", "poses", "gps", "location",
                       "challenge", "capture"} :
          Go(v, step) /\ UNCHANGED page
    BY <1>3
    DEF CameraOpens, CameraFails, Preview, MonitorStarts, LoopFails, Positioned, Located,
        LocationAnswered, ChallengeAnswered
  <2>2. \A w \in Scanners : scan'[w].live = scan[w].live /\ scan'[w].out = scan[w].out
    <3>1. CASE UNCHANGED scan
      BY <3>1
    <3>2. CASE \E gesture \in BOOLEAN : scan' = [scan EXCEPT ![v].gesture = gesture]
      <4>1. PICK gesture \in BOOLEAN : scan' = [scan EXCEPT ![v].gesture = gesture]
        BY <3>2
      <4> QED BY <4>1, TypesOfScanner DEF ScanInv, TypeOK, Scan
    <3> QED BY <1>3, <3>1, <3>2
            DEF CameraOpens, CameraFails, Preview, MonitorStarts, LoopFails, Positioned,
                Located, LocationAnswered, ChallengeAnswered
  <2>3. step \in Step
    BY DEF Step, CameraUse
  <2>4. Hidden
    BY <1>1, <2>1, <2>2, <2>3, Approaches
  <2> QED BY <2>4 DEF Hidden
<1> QED BY <1>2, <1>3

\* Frames, actions, poses and enrolments do not show either.
LEMMA CollectImplements ==
  ASSUME ScanInv, NEW v \in Scanners, Act(v) \/ Frame(v) \/ PoseHeld(v)
  PROVE  Hidden
<1>1. /\ UNCHANGED <<page, pc, record, posts>>
      /\ \A w \in Scanners : scan'[w].live = scan[w].live /\ scan'[w].out = scan[w].out
  BY TypesOfScanner DEF Act, Frame, PoseHeld, ScanInv, TypeOK, Scan
<1>2. \A w \in Pages : Alike(w)
  BY <1>1, SameIsAlike DEF Scanners
<1> QED BY <1>1, <1>2, AllAlike

LEMMA EnrolImplements ==
  ASSUME ScanInv, NEW d \in Scanners, PosesComplete(d) \/ EnrolAnswered(d)
  PROVE  [Contract!Next]_(Contract!contract)
<1>1. d \in Dialogs /\ d \notin Pages /\ UNCHANGED <<record, posts>>
  BY DEF PosesComplete, EnrolAnswered, ScanInv, ScannerOK, KindOK, PageSteps, Scanners
<1>2. CASE PosesComplete(d)
  BY <1>1, <1>2, OneAlike DEF PosesComplete, Go, ScanInv, TypeOK, Hidden
<1>3. CASE EnrolAnswered(d) /\ Catch({d})
  BY <1>3, CatchGivesUp DEF EnrolAnswered
<1>4. CASE EnrolAnswered(d) /\ ~Catch({d})
  <2>1. ASSUME NEW w \in Pages
        PROVE  /\ pc'[w] = pc[w] /\ scan'[w] = scan[w]
               /\ page'[w] = page[w] \/ page'[w] = [page[w] EXCEPT !.enrolled = TRUE]
    BY <1>1, <1>4 DEF EnrolAnswered, ScanInv, TypeOK, Scanners
  <2>2. ASSUME NEW w \in Pages
        PROVE  /\ page'[w].mounted = page[w].mounted /\ page'[w].load = page[w].load
               /\ page'[w].record = page[w].record
    <3>1. page[w] \in Page
      BY TypesOfScanner DEF ScanInv, Scanners
    <3> QED BY <2>1, <3>1 DEF Page
  <2>3. \A w \in Pages : Alike(w)
    BY <2>1, <2>2, SameIsAlike
  <2> QED BY <1>1, <2>3, AllAlike DEF Hidden
<1> QED BY <1>2, <1>3, <1>4

\* Nor do what a dialog begins, the end of a message and the reading of the
\* record by the server.
LEMMA AsideImplements ==
  ASSUME ScanInv, NEW v \in Scanners,
         (\E u \in Pages : OpenDialog(u, v)) \/ StartEnrolment(v) \/ Reset(v) \/ ReadRecord(v)
  PROVE  Hidden
<1>1. CASE (\E u \in Pages : OpenDialog(u, v)) \/ StartEnrolment(v)
  BY <1>1, OneAlike DEF OpenDialog, StartEnrolment, Begins, Go, ScanInv, TypeOK
<1>2. CASE Reset(v) \/ ReadRecord(v)
  <2>1. /\ UNCHANGED <<pc, scan, record, posts>> /\ page[v] \in Page
        /\ \A w \in Scanners \ {v} : page'[w] = page[w]
    BY <1>2, TypesOfScanner DEF Reset, ReadRecord, ScanInv, TypeOK
  <2>2. CASE Reset(v)
    <3>1. page'[v] = [page[v] EXCEPT !.stage = "intro"]
      BY <2>2 DEF Reset, ScanInv, TypeOK
    <3>2. /\ page'[v].mounted = page[v].mounted /\ page'[v].load = page[v].load
          /\ page'[v].record = page[v].record
      BY <2>1, <3>1 DEF Page
    <3>3. v \in Pages => Alike(v)
      BY <2>1, <3>2, SameIsAlike
    <3> QED BY <2>1, <3>3, OneAlike
  <2>3. CASE ReadRecord(v)
    <3>1. page'[v] = [page[v] EXCEPT !.load = "answered", !.snap = record]
      BY <2>3 DEF ReadRecord, ScanInv, TypeOK
    <3>2. /\ page'[v].mounted = page[v].mounted /\ page'[v].load = "answered"
          /\ page'[v].record = page[v].record
      BY <2>1, <3>1 DEF Page
    <3>3. page[v].load = "sent"
      BY <2>3 DEF ReadRecord
    <3>4. Alike(v)
      BY <2>1, <3>2, <3>3 DEF Alike, ViewOf, PhaseOf, OpOf
    <3> QED BY <2>1, <3>4, OneAlike
  <2> QED BY <1>2, <2>2, <2>3
<1> QED BY <1>1, <1>2

LEMMA SearchImplements ==
  ASSUME UNCHANGED <<page, pc, scan, record, posts>>
  PROVE  Hidden
<1>1. \A w \in Pages : Alike(w)
  BY DEF Alike, ViewOf, PhaseOf, OpOf
<1> QED BY <1>1, AllAlike

LEMMA ModelImplements ==
  ASSUME ScanInv, ModelStep
  PROVE  [Contract!Next]_(Contract!contract)
<1>1. CASE LandmarkerLoads
  BY <1>1, SearchImplements DEF LandmarkerLoads, Hidden
<1>2. CASE LandmarkerFails
  <2> DEFINE S == {v \in Scanners : pc[v] = "loading"}
  <2>1. S \in SUBSET Scanners /\ \A v \in S : pc[v] # "submit"
    OBVIOUS
  <2>2. Catch(S) /\ UNCHANGED <<record, posts>>
    BY <1>2 DEF LandmarkerFails
  <2> HIDE DEF S
  <2> QED BY <2>1, <2>2, CatchGivesUp
<1> QED BY <1>1, <1>2 DEF ModelStep

LEMMA InitImplements == Init => Contract!Init
  BY ClosedType DEF Init, Contract!Init, ViewOf, PhaseOf, OpOf, Scanners

LEMMA NextImplements ==
  ASSUME ScanInv, [Next]_vars
  PROVE  [Contract!Next]_(Contract!contract)
<1>1. CASE Student
  <2>1. ASSUME NEW v \in Pages, OpenPage(v) \/ StartScan(v)
        PROVE  Contract!Next
    BY <2>1, OpenImplements, BeginImplements DEF Contract!Next
  <2>2. ASSUME NEW v \in Scanners, LeavePage(v) \/ CloseDialog(v)
        PROVE  [Contract!Next]_(Contract!contract)
    BY <2>2, LeaveImplements
  <2>3. ASSUME NEW v \in Scanners,
               (\E u \in Pages : OpenDialog(u, v)) \/ StartEnrolment(v) \/ Reset(v)
        PROVE  [Contract!Next]_(Contract!contract)
    BY <2>3, AsideImplements DEF Hidden
  <2> QED BY <1>1, <2>1, <2>2, <2>3 DEF Student, Scanners
<1>2. ASSUME NEW v \in Scanners, Sensors(v)
      PROVE  [Contract!Next]_(Contract!contract)
  <2>1. CASE PositionFix(v) \/ PositionDenied(v)
    BY <2>1, SearchImplements DEF PositionFix, PositionDenied, Hidden
  <2>2. CASE Positioned(v)
    BY <2>2, ApproachImplements
  <2>3. CASE Act(v) \/ Frame(v) \/ PoseHeld(v)
    BY <2>3, CollectImplements DEF Hidden
  <2>4. CASE CaptureCompletes(v)
    BY <2>4, CaptureImplements DEF Contract!Next
  <2> QED BY <1>2, <2>1, <2>2, <2>3, <2>4 DEF Sensors
<1>3. ASSUME NEW v \in Scanners, ScanStep(v)
      PROVE  [Contract!Next]_(Contract!contract)
  <2>1. ASSUME NEW p \in posts,
               SubmitSucceeds(v, p) \/ SubmitFails(v, p) \/ SubmitTimesOut(v, p)
        PROVE  Contract!Next
    BY <2>1, SucceedImplements, FailImplements DEF Contract!Next
  <2>2. CASE \/ CameraOpens(v) \/ CameraFails(v) \/ Preview(v) \/ MonitorStarts(v)
             \/ LoopFails(v) \/ Located(v) \/ LocationAnswered(v) \/ ChallengeAnswered(v)
    BY <2>2, ApproachImplements
  <2>3. CASE FaceAnswered(v)
    BY <2>3, AskImplements
  <2>4. CASE PosesComplete(v) \/ EnrolAnswered(v)
    BY <2>4, EnrolImplements
  <2> QED BY <1>3, <2>1, <2>2, <2>3, <2>4 DEF ScanStep
<1>4. ASSUME NEW v \in Scanners, SearchStep(v)
      PROVE  Hidden
  BY <1>4, SearchImplements DEF SearchStep, PositionGivesUp, LastPosition
<1>5. CASE Server
  <2>1. ASSUME NEW v \in Pages, ReadRecord(v)
        PROVE  Hidden
    BY <2>1, AsideImplements DEF Scanners
  <2>2. ASSUME NEW v \in Pages, LoadSettled(v)
        PROVE  Contract!Next
    BY <2>2, LearnImplements DEF Contract!Next
  <2>3. ASSUME NEW p \in posts, OrphanServed(p)
        PROVE  Contract!Next
    BY <2>3, LateImplements DEF Contract!Next
  <2> QED BY <1>5, <2>1, <2>2, <2>3 DEF Server, Hidden
<1>6. CASE UNCHANGED vars
  BY <1>6, SearchImplements DEF vars, Hidden
<1> QED BY <1>1, <1>2, <1>3, <1>4, <1>5, <1>6, ModelImplements DEF Next, Hidden

\* Every behaviour of the scanners is one of the contract, for any number of
\* pages and dialogs, left and opened at any await: what was left while it still
\* collected never asks, and a page shows only what a load or an answer told it.
THEOREM ScannersImplementContract == Spec => ImplementsContract
<1>1. ScanInv /\ [Next]_vars => [Contract!Next]_(Contract!contract)
  BY NextImplements
<1> QED BY <1>1, InitImplements, ScanInvariant, PTL DEF Spec, ImplementsContract, Contract!Spec

=============================================================================
