---------------------------- MODULE SignupWizard ----------------------------
(***************************************************************************)
(* SignupPage.tsx: the wizard that registers an account, or enrols samples *)
(* for one (mode=enroll), with what register and the enrolment endpoints   *)
(* of app.py make of its requests.  A step of the module is one callback   *)
(* of the page; its timers and its request run on whatever it shows.       *)
(*                                                                         *)
(* Abstractions.  The credentials form is valid or not; a frame shows an   *)
(* aligned face or not; the 20 ticks of a print are one; the list of       *)
(* vendors and the wording of messages are left out.                       *)
(***************************************************************************)
EXTENDS Integers

CONSTANTS MaxPresses,   \* bound: presses of the fingerprint scanner
          MaxCaptures,  \* bound: captures of a face
          MaxSubmits    \* bound: presses of Complete Onboarding

ASSUME SignupAssumption ==
    MaxPresses \in Nat /\ MaxCaptures \in Nat /\ MaxSubmits \in Nat

VARIABLES
    mode,        \* "register" or "enroll"
    step,        \* the panel shown; "login" when the page was left
    tab,         \* the scanner shown
    faceScan,    \* status, faceEnrolled, whether faceImage is set and a face was detected
    captures,    \* "frame" or "null" for what a capture took, "none" before it
    verifying,   \* captures whose 1.5 s timer runs
    scanner,     \* fingerprintState, fingerprintEnrolled and scanIntervalRef
    presses,     \* presses so far
    holds,       \* intervals that run
    resets,      \* timers that will set fingerprintState to idle
    submission,  \* handleCompleteOnboarding: where it is, and what its closure holds
    submits,     \* times it ran
    registry,    \* what the service stored
    lifted,      \* history: intervals that ran when the finger left the scanner
    firm,        \* history: a print was complete while the finger was on the scanner
    strayed,     \* history: an interval ran on that no release can stop
    late         \* history: a sample was complete after the submission had begun

scanVars == <<faceScan, captures, verifying>>
printVars == <<scanner, presses, holds, resets, lifted, firm, strayed>>
submitVars == <<submission, submits, registry>>
signupVars == <<mode, step, tab, scanVars, printVars, submitVars, late>>

Presses == 1..MaxPresses
Captured == 1..MaxCaptures
IdleSubmission == [pc |-> "idle", face |-> FALSE, print |-> FALSE]

FaceScans == [status : {"idle", "verifying", "success"}, enrolled : BOOLEAN,
              image : BOOLEAN, seen : BOOLEAN]
Scanners == [state : {"idle", "scanning", "success", "failed"}, enrolled : BOOLEAN,
             ref : {0} \cup Presses]
Submissions == [pc : {"idle", "register", "face", "print"}, face : BOOLEAN, print : BOOLEAN]
Registries == [account : BOOLEAN, face : BOOLEAN, print : BOOLEAN]

SignupTypeOK ==
    /\ mode \in {"register", "enroll"}
    /\ step \in {"credentials", "biometrics", "success", "login"}
    /\ tab \in {"face", "fingerprint"}
    /\ faceScan \in FaceScans
    /\ captures \in [Captured -> {"none", "frame", "null"}]
    /\ verifying \subseteq Captured
    /\ scanner \in Scanners
    /\ presses \in 0..MaxPresses /\ resets \in 0..MaxPresses
    /\ holds \subseteq Presses /\ lifted \subseteq Presses
    /\ submission \in Submissions
    /\ submits \in 0..MaxSubmits
    /\ registry \in Registries
    /\ firm \in BOOLEAN /\ strayed \in BOOLEAN /\ late \in BOOLEAN

SignupInit ==
    /\ mode \in {"register", "enroll"}
    /\ step = IF mode = "enroll" THEN "biometrics" ELSE "credentials"
    /\ tab = "face"
    /\ faceScan = [status |-> "idle", enrolled |-> FALSE, image |-> FALSE, seen |-> FALSE]
    /\ captures = [c \in Captured |-> "none"] /\ verifying = {}
    /\ scanner = [state |-> "idle", enrolled |-> FALSE, ref |-> 0]
    /\ presses = 0 /\ holds = {} /\ resets = 0
    /\ submission = IdleSubmission /\ submits = 0
    /\ registry = [account |-> mode = "enroll", face |-> FALSE, print |-> FALSE]
    /\ lifted = {} /\ firm = FALSE /\ strayed = FALSE /\ late = FALSE

\* A sample that is complete now is not in the closure of a submission that runs.
Submitted == submission.pc # "idle" \/ step = "success"

-----------------------------------------------------------------------------
(* Panels                                                                  *)

\* handleNextStep with a valid form.
NextStep ==
    /\ step = "credentials" /\ step' = "biometrics"
    /\ UNCHANGED <<mode, tab, scanVars, printVars, submitVars, late>>

\* What the panel hid goes on running.
Hides == strayed' = (strayed \/ (tab = "fingerprint" /\ holds # {}))

Back ==
    /\ step = "biometrics" /\ mode = "register"
    /\ step' = "credentials"
    /\ Hides
    /\ UNCHANGED <<mode, tab, scanVars, scanner, presses, holds, resets, lifted, firm, submitVars, late>>

SelectTab(t) ==
    /\ step = "biometrics" /\ t # tab
    /\ tab' = t
    /\ Hides
    /\ UNCHANGED <<mode, step, scanVars, scanner, presses, holds, resets, lifted, firm, submitVars, late>>

\* The timer of the success panel.
GoToLogin ==
    /\ step = "success" /\ step' = "login"
    /\ UNCHANGED <<mode, tab, scanVars, printVars, submitVars, late>>

-----------------------------------------------------------------------------
(* Face                                                                    *)

\* The detection loop runs on the face panel until a face was captured; its
\* cleanup sets active, so that no detection outlives it.  It detects nothing
\* unless LoginPage.tsx has loaded the detector, which this page does not.
Watching == step = "biometrics" /\ tab = "face" /\ faceScan.status = "idle"

FaceOutOfCenter ==
    /\ Watching
    /\ faceScan' = [faceScan EXCEPT !.seen = TRUE]
    /\ UNCHANGED <<mode, step, tab, captures, verifying, printVars, submitVars, late>>

\* triggerFaceVerification; the screenshot is null while the camera starts.
TakeFrame(frame) ==
    \E c \in Captured :
        /\ captures[c] = "none" /\ \A d \in 1..(c - 1) : captures[d] # "none"
        /\ captures' = [captures EXCEPT ![c] = frame]
        /\ verifying' = verifying \cup {c}
        /\ faceScan' = [faceScan EXCEPT !.status = "verifying", !.seen = TRUE]

FaceAligned ==
    /\ Watching
    /\ TakeFrame("frame")
    /\ UNCHANGED <<mode, step, tab, printVars, submitVars, late>>

\* The button is there until a face is enrolled, whatever timer runs.
PressCapture(frame) ==
    /\ step = "biometrics" /\ tab = "face" /\ ~faceScan.enrolled /\ faceScan.seen
    /\ TakeFrame(frame)
    /\ UNCHANGED <<mode, step, tab, printVars, submitVars, late>>

\* The timers of triggerFaceVerification, in their order.
FaceVerified(c) ==
    /\ c \in verifying /\ \A d \in verifying : c <= d
    /\ verifying' = verifying \ {c}
    /\ IF step = "login" THEN UNCHANGED <<faceScan, late>>
       ELSE /\ faceScan' = [faceScan EXCEPT !.status = "success", !.enrolled = TRUE,
                                            !.image = captures[c] = "frame"]
            /\ late' = (late \/ Submitted)
    /\ UNCHANGED <<mode, step, tab, captures, printVars, submitVars>>

-----------------------------------------------------------------------------
(* Fingerprint                                                             *)

ScannerShown == step = "biometrics" /\ tab = "fingerprint"

\* startFingerprintScan
PressScanner ==
    /\ ScannerShown /\ scanner.state # "success" /\ presses < MaxPresses
    /\ presses' = presses + 1
    /\ scanner' = [scanner EXCEPT !.state = "scanning", !.ref = presses + 1]
    /\ holds' = holds \cup {presses + 1}
    /\ strayed' = (strayed \/ holds # {})
    /\ UNCHANGED <<mode, step, tab, scanVars, resets, lifted, firm, submitVars, late>>

\* Faulty variant: the interval of a press that is interrupted goes on.
Interrupted_goesOn == holds

Interrupted == holds \ {scanner.ref}

\* cancelFingerprintScan, also when the pointer merely leaves.
ReleaseScanner ==
    /\ ScannerShown /\ scanner.state # "success" /\ resets < MaxPresses
    /\ holds' = Interrupted
    /\ lifted' = lifted \cup holds
    /\ scanner' = [scanner EXCEPT !.state = "failed"]
    /\ resets' = resets + 1
    /\ UNCHANGED <<mode, step, tab, scanVars, presses, firm, strayed, submitVars, late>>

\* Its timer, whatever state the scanner has by then.
ResetScanner ==
    /\ resets > 0 /\ resets' = resets - 1
    /\ scanner' = [scanner EXCEPT !.state = "idle"]
    /\ UNCHANGED <<mode, step, tab, scanVars, presses, holds, lifted, firm, strayed, submitVars, late>>

\* The 20th tick clears the interval that the ref names, which may be another:
\* then its own ticks repeat this.
PrintTaken(i) ==
    /\ step # "login" /\ i \in holds
    /\ scanner.state # "success" \/ i = scanner.ref
    /\ holds' = holds \ {scanner.ref}
    /\ scanner' = [scanner EXCEPT !.state = "success", !.enrolled = TRUE]
    /\ firm' = (firm \/ i \notin lifted)
    /\ late' = (late \/ Submitted)
    /\ UNCHANGED <<mode, step, tab, scanVars, presses, resets, lifted, strayed, submitVars>>

-----------------------------------------------------------------------------
(* Submission                                                              *)

\* Faulty variant: an enrolment of a face that is refused is not an error.
AfterFace_ignoringErrors(ok, print) == IF print THEN "print" ELSE "done"

\* What follows the answer to the enrolment of a face.
AfterFace(ok, print) == IF ~ok THEN "failed" ELSE IF print THEN "print" ELSE "done"

\* handleCompleteOnboarding: the first request, or none when the only sample
\* is a face without an image.
Complete ==
    /\ step = "biometrics" /\ submission.pc = "idle" /\ submits < MaxSubmits
    /\ faceScan.enrolled \/ scanner.enrolled
    /\ submits' = submits + 1
    /\ LET face == faceScan.enrolled /\ faceScan.image
           first == IF mode = "register" THEN "register"
                    ELSE IF face THEN "face" ELSE IF scanner.enrolled THEN "print" ELSE "done"
       IN IF first = "done" THEN step' = "success" /\ UNCHANGED submission
          ELSE /\ submission' = [pc |-> first, face |-> face, print |-> scanner.enrolled]
               /\ UNCHANGED step
    /\ UNCHANGED <<mode, tab, scanVars, printVars, registry, late>>

\* What the answer leads to: the next request, the success panel, or a message.
Leads(outcome) ==
    /\ step' = IF outcome = "done" THEN "success" ELSE step
    /\ submission' = IF outcome = "print" THEN [submission EXCEPT !.pc = "print"] ELSE IdleSubmission

\* register_user: the email must be new, the face is stored with the account;
\* UserRegisterPayload has no fingerprintImage, so that the print is ignored.
RegisterAccount(ok) ==
    /\ submission.pc = "register"
    /\ ok => ~registry.account
    /\ registry' = IF ok THEN [registry EXCEPT !.account = TRUE, !.face = submission.face] ELSE registry
    /\ Leads(IF ok THEN "done" ELSE "failed")
    /\ UNCHANGED <<mode, tab, scanVars, printVars, submits, late>>

\* enroll_face_biometrics
EnrolFace(ok) ==
    /\ submission.pc = "face"
    /\ registry' = IF ok THEN [registry EXCEPT !.face = TRUE] ELSE registry
    /\ Leads(AfterFace(ok, submission.print))
    /\ UNCHANGED <<mode, tab, scanVars, printVars, submits, late>>

\* enroll_fingerprint_biometrics: a body without fingerprintTemplate is refused.
EnrolPrint ==
    /\ submission.pc = "print"
    /\ Leads("failed")
    /\ UNCHANGED <<mode, tab, scanVars, printVars, submits, registry, late>>

\* The answer is lost: what was asked is done all the same, or not.
AnswerLost(done) ==
    /\ submission.pc # "idle"
    /\ registry' = IF ~done \/ submission.pc = "print" THEN registry
                   ELSE IF submission.pc = "face" THEN [registry EXCEPT !.face = TRUE]
                   ELSE IF registry.account THEN registry
                   ELSE [registry EXCEPT !.account = TRUE, !.face = submission.face]
    /\ Leads("failed")
    /\ UNCHANGED <<mode, tab, scanVars, printVars, submits, late>>

SignupNext ==
    \/ NextStep \/ Back \/ GoToLogin \/ FaceOutOfCenter \/ FaceAligned
    \/ \E t \in {"face", "fingerprint"} : SelectTab(t)
    \/ \E frame \in {"frame", "null"} : PressCapture(frame)
    \/ \E c \in Captured : FaceVerified(c)
    \/ PressScanner \/ ReleaseScanner \/ ResetScanner
    \/ \E i \in Presses : PrintTaken(i)
    \/ Complete \/ EnrolPrint
    \/ \E b \in BOOLEAN : RegisterAccount(b) \/ EnrolFace(b) \/ AnswerLost(b)

SignupSpec == SignupInit /\ [][SignupNext]_signupVars

-----------------------------------------------------------------------------
\* When the wizard reports success the account exists and the face it holds is
\* stored, unless the capture had no image or came after the submission had
\* begun.  A print it holds is never stored: the enrolment that sends one always
\* fails, and success with one means a registration, which ignores it, or a
\* print completed too late (SignupPage.tsx, handleCompleteOnboarding).
SuccessMeansStored ==
    step = "success" =>
        /\ registry.account
        /\ faceScan.enrolled /\ faceScan.image => registry.face \/ late
        /\ scanner.enrolled => mode = "register" \/ late

\* The wizard holds a print only if a finger stayed on the scanner for one whole
\* scan, unless a second press took the place of the first or the scanner was
\* hidden during a scan (SignupPage.tsx, scanIntervalRef).
PrintWasHeld == scanner.enrolled => firm \/ strayed
=============================================================================
