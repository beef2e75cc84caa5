--------------------------- MODULE SettingsPanels ---------------------------
(***************************************************************************)
(* The biometric panels of the settings page (DynamicRolePage.tsx): the    *)
(* face scanner, the fingerprint field, the revocation and the two badges, *)
(* with the answers of app.py.  One visit of the page by one user: its     *)
(* intervals, timers, cameras and requests are not cleaned up when the     *)
(* page is left, but what they set in it is lost.                          *)
(*                                                                         *)
(* Abstractions.  A frame shows an aligned face or not; the 20 ticks of a  *)
(* print are one; the row of the user is its two flags, which nobody else  *)
(* writes; messages and the rest of the page are left out.                 *)
(***************************************************************************)
EXTENDS Naturals

CONSTANTS MaxScans,    \* bound: times the face scanner is started
          Letters,     \* bound: requests in flight
          MaxLetters   \* bound: requests in all

ASSUME SettingsAssumption == MaxScans \in Nat /\ MaxLetters \in Nat

VARIABLES
    place,       \* the page is not opened yet, shown, or left
    viewer,      \* the scanner's panel and its three refs; 0 is null
    scan,        \* scan[s]: the closure of the s-th start of the scanner
    scans,       \* number of starts
    closers,     \* timers that will stop the scanner
    touch,       \* the fingerprint field
    letter,      \* letter[c]: a request in flight
    letters,     \* number of requests so far
    flags,       \* faceRegistered and fingerprintRegistered of the row
    badges,      \* what the page shows of them
    changes,     \* number of changes of the row
    applied,     \* how many of them the badges show
    slipped,     \* history: a camera was opened or refused to a cancelled scan,
                 \* or the page left with the scanner running
    newest,      \* history: the most changes that the badges have ever shown
    lost         \* history: the answer to a change, or to a refresh, was lost

scannerVars == <<viewer, scan, scans, closers, slipped>>
rowVars == <<flags, changes>>
badgeVars == <<badges, applied, newest, lost>>
settingsVars == <<place, scannerVars, touch, letter, letters, rowVars, badgeVars>>

Scans == 1..MaxScans
Flags == [face : BOOLEAN, print : BOOLEAN]
NoFlags == [face |-> FALSE, print |-> FALSE]

\* ticking: its interval runs; alive: its variable active; looking: detections
\* in flight; sent, late: histories, enrolments it sent and whether one was sent
\* after stopEnrollFaceScanner had run.
UnusedScan == [stage |-> "unused", ticking |-> FALSE, alive |-> FALSE, looking |-> 0,
               lit |-> FALSE, stopped |-> FALSE, sent |-> 0, late |-> FALSE]
ClosedViewer == [open |-> FALSE, interval |-> 0, stream |-> 0, video |-> 0]
ClosedField == [open |-> FALSE, state |-> "idle", ticking |-> FALSE, closing |-> FALSE]
NoLetter == [pc |-> "idle", kind |-> "status", ok |-> FALSE, value |-> NoFlags, number |-> 0]

Viewers == [open : BOOLEAN, interval : {0} \cup Scans, stream : {0} \cup Scans,
            video : {0} \cup Scans]
Closures == [stage : {"unused", "opening", "open", "refused"}, ticking : BOOLEAN,
             alive : BOOLEAN, looking : 0..2, lit : BOOLEAN, stopped : BOOLEAN,
             sent : 0..2, late : BOOLEAN]

SettingsTypeOK ==
    /\ place \in {"elsewhere", "page", "left"}
    /\ viewer \in Viewers
    /\ scan \in [Scans -> Closures]
    /\ scans \in 0..MaxScans
    /\ closers \in 0..MaxLetters
    /\ touch \in [open : BOOLEAN, state : {"idle", "scanning", "success", "failed"},
                  ticking : BOOLEAN, closing : BOOLEAN]
    /\ letter \in [Letters -> [pc : {"idle", "sent", "served"},
                               kind : {"status", "face", "print", "revoke"}, ok : BOOLEAN,
                               value : Flags, number : 0..MaxLetters]]
    /\ letters \in 0..MaxLetters /\ changes \in 0..MaxLetters
    /\ applied \in 0..MaxLetters /\ newest \in 0..MaxLetters
    /\ flags \in Flags /\ badges \in Flags
    /\ slipped \in BOOLEAN /\ lost \in BOOLEAN

SettingsInit ==
    /\ place = "elsewhere"
    /\ viewer = ClosedViewer
    /\ scan = [s \in Scans |-> UnusedScan]
    /\ scans = 0 /\ closers = 0
    /\ touch = ClosedField
    /\ letter = [c \in Letters |-> NoLetter]
    /\ letters = 0 /\ changes = 0 /\ applied = 0 /\ newest = 0
    /\ flags = NoFlags /\ badges = NoFlags
    /\ slipped = FALSE /\ lost = FALSE

-----------------------------------------------------------------------------
(* Requests                                                                *)

\* Faulty variant: an enrolled print does not refresh the badges.
Refreshes_notPrint(l) == l.ok /\ l.kind \in {"face", "revoke"}

\* What is followed by refreshEnrollmentStatus.
Refreshes(l) == l.ok /\ l.kind # "status"

\* c becomes a new request.
Sends(c, kind) ==
    /\ letters < MaxLetters
    /\ letters' = letters + 1
    /\ letter' = [letter EXCEPT ![c] = [NoLetter EXCEPT !.pc = "sent", !.kind = kind]]

Closes(c) == letter' = [letter EXCEPT ![c] = NoLetter] /\ UNCHANGED letters

\* The answer in c has been handled: the refresh takes its place.
Follows(c) == IF Refreshes(letter[c]) THEN Sends(c, "status") ELSE Closes(c)

\* refreshEnrollmentStatus on mount.
OpenPage(c) ==
    /\ place = "elsewhere" /\ place' = "page"
    /\ Sends(c, "status")
    /\ UNCHANGED <<scannerVars, touch, rowVars, badgeVars>>

LeavePage ==
    /\ place = "page" /\ place' = "left"
    /\ slipped' = (slipped \/ viewer.open)
    /\ viewer' = [viewer EXCEPT !.open = FALSE, !.video = 0]
    /\ touch' = [touch EXCEPT !.open = FALSE]
    /\ UNCHANGED <<scan, scans, closers, letter, letters, rowVars, badgeVars>>

\* enroll, enroll-fingerprint and revoke, which may refuse.
ServeChange(c, ok) ==
    /\ letter[c].pc = "sent" /\ letter[c].kind # "status"
    /\ letter' = [letter EXCEPT ![c].pc = "served", ![c].ok = ok]
    /\ IF ok THEN /\ flags' = IF letter[c].kind = "revoke" THEN NoFlags
                              ELSE [flags EXCEPT ![letter[c].kind] = TRUE]
                  /\ changes' = changes + 1
       ELSE UNCHANGED rowVars
    /\ UNCHANGED <<place, scannerVars, touch, letters, badgeVars>>

\* check_enrollment
ServeStatus(c) ==
    /\ letter[c].pc = "sent" /\ letter[c].kind = "status"
    /\ letter' = [letter EXCEPT ![c].pc = "served", ![c].value = flags, ![c].number = changes]
    /\ UNCHANGED <<place, scannerVars, touch, letters, rowVars, badgeVars>>

StatusAnswered(c) ==
    /\ letter[c].pc = "served" /\ letter[c].kind = "status"
    /\ IF place = "page"
       THEN /\ badges' = letter[c].value /\ applied' = letter[c].number
            /\ newest' = IF letter[c].number > newest THEN letter[c].number ELSE newest
       ELSE UNCHANGED <<badges, applied, newest>>
    /\ Closes(c)
    /\ UNCHANGED <<place, scannerVars, touch, rowVars, lost>>

\* No answer, or one that is not ok.
StatusFails(c) ==
    /\ letter[c].pc # "idle" /\ letter[c].kind = "status"
    /\ Closes(c)
    /\ lost' = TRUE
    /\ UNCHANGED <<place, scannerVars, touch, rowVars, badges, applied, newest>>

\* The button is there while a badge is lit; the dialog stays open until a
\* revocation succeeds, so that a press may be repeated.
PressRevoke(c) ==
    /\ place = "page" /\ badges # NoFlags
    /\ letter[c].pc = "idle" /\ Sends(c, "revoke")
    /\ UNCHANGED <<place, scannerVars, touch, rowVars, badgeVars>>

RevokeAnswered(c) ==
    /\ letter[c].pc = "served" /\ letter[c].kind = "revoke"
    /\ Follows(c)
    /\ UNCHANGED <<place, scannerVars, touch, rowVars, badgeVars>>

RevokeFails(c) ==
    /\ letter[c].pc # "idle" /\ letter[c].kind = "revoke"
    /\ Closes(c)
    /\ lost' = TRUE
    /\ UNCHANGED <<place, scannerVars, touch, rowVars, badges, applied, newest>>

-----------------------------------------------------------------------------
(* The face scanner                                                        *)

\* Faulty variants: the tracks of the camera are not stopped; a capture does not
\* ask for the video element.
Stopped_cameraRuns(s) ==
    [scan[s] EXCEPT !.ticking = @ /\ s # viewer.interval,
                    !.stopped = @ \/ scan[s].stage \in {"opening", "open"}]
VideoIsThere_always == TRUE

\* The video element is part of the panel.
VideoIsThere == viewer.open

\* startEnrollFaceScanner up to the answer to getUserMedia.
StartScanner ==
    /\ place = "page" /\ ~viewer.open /\ scans < MaxScans
    /\ scans' = scans + 1
    /\ scan' = [scan EXCEPT ![scans + 1].stage = "opening"]
    /\ viewer' = [viewer EXCEPT !.open = TRUE]
    /\ UNCHANGED <<place, closers, slipped, touch, letter, letters, rowVars, badgeVars>>

\* The refs take the new stream and interval, whatever became of the panel.
CameraOpens(s) ==
    /\ scan[s].stage = "opening"
    /\ scan' = [scan EXCEPT ![s].stage = "open", ![s].lit = TRUE, ![s].ticking = TRUE,
                            ![s].alive = TRUE]
    /\ viewer' = [viewer EXCEPT !.interval = s, !.stream = s,
                                !.video = IF VideoIsThere THEN s ELSE @]
    /\ slipped' = (slipped \/ scan[s].stopped \/ place = "left")
    /\ UNCHANGED <<place, scans, closers, touch, letter, letters, rowVars, badgeVars>>

\* catch: the panel is closed and nothing else is stopped.
CameraRefused(s) ==
    /\ scan[s].stage = "opening"
    /\ scan' = [scan EXCEPT ![s].stage = "refused"]
    /\ viewer' = [viewer EXCEPT !.open = FALSE, !.video = 0]
    /\ slipped' = (slipped \/ scan[s].stopped)
    /\ UNCHANGED <<place, scans, closers, touch, letter, letters, rowVars, badgeVars>>

\* stopEnrollFaceScanner, for the scans the refs name; active stays as it is.
Stopped(s) ==
    [scan[s] EXCEPT !.ticking = @ /\ s # viewer.interval, !.lit = @ /\ s # viewer.stream,
                    !.stopped = @ \/ scan[s].stage \in {"opening", "open"}]
Stops == /\ scan' = [s \in Scans |-> Stopped(s)]
         /\ viewer' = [viewer EXCEPT !.open = FALSE, !.video = 0]

CancelScanner ==
    /\ viewer.open
    /\ Stops
    /\ UNCHANGED <<place, scans, closers, slipped, touch, letter, letters, rowVars, badgeVars>>

\* A tick of the interval starts a detection when the video plays.
Look(s) ==
    /\ scan[s].ticking /\ scan[s].alive /\ VideoIsThere /\ viewer.video # 0
    /\ scan[s].looking < 2
    /\ scan' = [scan EXCEPT ![s].looking = @ + 1]
    /\ UNCHANGED <<place, viewer, scans, closers, slipped, touch, letter, letters, rowVars, badgeVars>>

FaceNotSeen(s) ==
    /\ scan[s].looking > 0
    /\ scan' = [scan EXCEPT ![s].looking = @ - 1]
    /\ UNCHANGED <<place, viewer, scans, closers, slipped, touch, letter, letters, rowVars, badgeVars>>

\* The first aligned face: the interval that the ref names is cleared, and
\* captureAndEnrollFace sends what the video shows, if it is still there.
FaceSeen(s, c) ==
    /\ scan[s].looking > 0 /\ scan[s].alive
    /\ scan' = [t \in Scans |->
                  [scan[t] EXCEPT !.ticking = @ /\ t # viewer.interval,
                                  !.looking = IF t = s THEN @ - 1 ELSE @,
                                  !.alive = @ /\ t # s,
                                  !.sent = IF t = s /\ VideoIsThere THEN @ + 1 ELSE @,
                                  !.late = @ \/ (t = s /\ VideoIsThere /\ scan[s].stopped)]]
    /\ IF VideoIsThere THEN letter[c].pc = "idle" /\ Sends(c, "face")
       ELSE UNCHANGED <<letter, letters>>
    /\ UNCHANGED <<place, viewer, scans, closers, slipped, touch, rowVars, badgeVars>>

\* Success or not, a timer will stop the scanner.
FaceAnswered(c) ==
    /\ letter[c].pc = "served" /\ letter[c].kind = "face"
    /\ Follows(c)
    /\ closers' = closers + 1
    /\ UNCHANGED <<place, viewer, scan, scans, slipped, touch, rowVars, badgeVars>>

FaceFails(c) ==
    /\ letter[c].pc # "idle" /\ letter[c].kind = "face"
    /\ Closes(c)
    /\ Stops
    /\ lost' = TRUE
    /\ UNCHANGED <<place, scans, closers, slipped, touch, rowVars, badges, applied, newest>>

CloserFires ==
    /\ closers > 0 /\ closers' = closers - 1
    /\ Stops
    /\ UNCHANGED <<place, scans, slipped, touch, letter, letters, rowVars, badgeVars>>

-----------------------------------------------------------------------------
(* The fingerprint field                                                   *)

PressField ==
    /\ place = "page" /\ ~touch.open
    /\ touch' = [open |-> TRUE, state |-> "scanning", ticking |-> TRUE, closing |-> FALSE]
    /\ UNCHANGED <<place, scannerVars, letter, letters, rowVars, badgeVars>>

\* cancelFingerprintEnroll, on release or when the pointer leaves.
ReleaseField ==
    /\ touch.open /\ touch.state = "scanning"
    /\ touch' = ClosedField
    /\ UNCHANGED <<place, scannerVars, letter, letters, rowVars, badgeVars>>

\* The last tick, on the page or after it was left.
PrintComplete(c) ==
    /\ touch.ticking
    /\ touch' = [touch EXCEPT !.ticking = FALSE, !.state = "success"]
    /\ letter[c].pc = "idle" /\ Sends(c, "print")
    /\ UNCHANGED <<place, scannerVars, rowVars, badgeVars>>

PrintAnswered(c) ==
    /\ letter[c].pc = "served" /\ letter[c].kind = "print"
    /\ touch' = [touch EXCEPT !.closing = TRUE, !.state = IF letter[c].ok THEN @ ELSE "failed"]
    /\ Follows(c)
    /\ UNCHANGED <<place, scannerVars, rowVars, badgeVars>>

\* catch: nothing will close the field, and a press needs it closed.
PrintFails(c) ==
    /\ letter[c].pc # "idle" /\ letter[c].kind = "print"
    /\ touch' = [touch EXCEPT !.state = "failed"]
    /\ Closes(c)
    /\ lost' = TRUE
    /\ UNCHANGED <<place, scannerVars, rowVars, badges, applied, newest>>

FieldCloses ==
    /\ touch.closing
    /\ touch' = ClosedField
    /\ UNCHANGED <<place, scannerVars, letter, letters, rowVars, badgeVars>>

SettingsNext ==
    \/ LeavePage \/ StartScanner \/ CancelScanner \/ CloserFires
    \/ PressField \/ ReleaseField \/ FieldCloses
    \/ \E s \in Scans : \/ CameraOpens(s) \/ CameraRefused(s) \/ Look(s) \/ FaceNotSeen(s)
                        \/ \E c \in Letters : FaceSeen(s, c)
    \/ \E c \in Letters :
         \/ OpenPage(c) \/ ServeStatus(c) \/ StatusAnswered(c) \/ StatusFails(c)
         \/ \E ok \in BOOLEAN : ServeChange(c, ok)
         \/ PressRevoke(c) \/ RevokeAnswered(c) \/ RevokeFails(c)
         \/ FaceAnswered(c) \/ FaceFails(c)
         \/ PrintComplete(c) \/ PrintAnswered(c) \/ PrintFails(c)

SettingsSpec == SettingsInit /\ [][SettingsNext]_settingsVars

-----------------------------------------------------------------------------
\* A scan sends at most one enrolment although several detections may be under
\* way when a face is aligned, and none after it was cancelled unless another
\* scan has been started: the scanner's variable active outlives the cancellation
\* (DynamicRolePage.tsx, startEnrollFaceScanner and captureAndEnrollFace).
ScanEnrolsWhatItShows ==
    \A s \in Scans : scan[s].sent <= 1 /\ (scan[s].late => s < scans)

\* A camera is on without the panel that shows it only if the browser answered
\* a scan that had been cancelled by then, or the page was left with the panel
\* open (DynamicRolePage.tsx, stopEnrollFaceScanner).
CameraGoesWithPanel ==
    \A s \in Scans : scan[s].lit /\ ~viewer.open => slipped

\* When no answer is waited for, the badges show the row, unless answers of
\* check-enrollment overtook each other or one was lost (DynamicRolePage.tsx,
\* refreshEnrollmentStatus).
BadgesCatchUp ==
    place = "page" /\ (\A c \in Letters : letter[c].pc = "idle") =>
        badges = flags \/ applied < newest \/ lost
=============================================================================
