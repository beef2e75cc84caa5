-------------------------- MODULE WorkerOnboarding --------------------------
(***************************************************************************)
(* How a security officer's browser registers workers and enrols their     *)
(* faces: the registration page with its offline list in local storage     *)
(* (worker-request.service.ts), POST /worker-requests/register and GET     *)
(* /pending of the backend, and the enrolment page (useEnrollment,         *)
(* useFaceCapture, useLivenessDetection, enrollment.store.ts).  Every      *)
(* await ends an action; buttons that are not disabled can be pressed      *)
(* while an earlier press still waits.                                     *)
(*                                                                         *)
(* Abstractions.  A worker stands for the request's id, in the backend and *)
(* in the offline list, whose ids are disjoint; the face in front of the   *)
(* camera is that of the worker selected when the capture began.  The      *)
(* store's status and quality are displayed only.  Nothing in the system   *)
(* calls syncOfflineQueue: the offline list is written and never sent.     *)
(***************************************************************************)
CONSTANTS Workers,
          None       \* no worker

ASSUME OnboardingAssumption == None \notin Workers

VARIABLES
    rows,        \* workers with a row in state INVITED; nothing here changes it
    form,        \* form[w]: the registration of w
    offline,     \* fencein_enrollment_offline_queue
    pending,     \* the list the enrolment page shows
    selected,    \* workerRequestId
    frame,       \* captureFrame: whose face it shows
    liveness,    \* verdict in the store
    detecting,   \* captures that wait for the detection, by worker selected
    checking,    \* liveness checks that wait for the service
    enrolling,   \* the enrolment that waits for the backend
    localFaces,  \* fencein_offline_biometrics
    modal,       \* whether the success modal is open
    switched     \* history: the selection changed while a capture waited

listVars == <<rows, form, offline>>
pageVars == <<pending, selected, frame, liveness, detecting, checking,
              enrolling, localFaces, modal, switched>>
onboardingVars == <<listVars, pageVars>>

Choice == Workers \cup {None}
NotEnrolling == [step |-> "no", worker |-> None, face |-> None]

OnboardingTypeOK ==
    /\ rows \subseteq Workers
    /\ form \in [Workers -> {"new", "sent", "confirmed"}]
    /\ offline \subseteq Workers
    /\ pending \subseteq rows
    /\ selected \in Choice
    /\ frame \in Choice
    /\ liveness \in {"none", "passed", "failed"}
    /\ detecting \subseteq Workers
    /\ checking \subseteq Choice
    /\ enrolling \in [step : {"no", "face", "activate"}, worker : Choice, face : Choice]
    /\ localFaces \in [Workers -> Choice]
    /\ modal \in BOOLEAN
    /\ switched \in BOOLEAN

OnboardingInit ==
    /\ rows = {}
    /\ form = [w \in Workers |-> "new"]
    /\ offline = {}
    /\ pending = {}
    /\ selected = None
    /\ frame = None
    /\ liveness = "none"
    /\ detecting = {}
    /\ checking = {}
    /\ enrolling = NotEnrolling
    /\ localFaces = [w \in Workers |-> None]
    /\ modal = FALSE
    /\ switched = FALSE

-----------------------------------------------------------------------------
(* Faulty variants: what TLC must catch when one replaces the code's rule. *)

PendingRequests_withOffline == rows \cup offline

StoreReset_keepsFrame ==
    /\ liveness' = "none"
    /\ UNCHANGED frame

-----------------------------------------------------------------------------
(* Registration                                                            *)

Submit(w) ==
    /\ form[w] = "new"
    /\ form' = [form EXCEPT ![w] = "sent"]
    /\ UNCHANGED <<rows, offline, pageVars>>

\* The vendor exists, a free address is found and the row is inserted.
Confirm(w) == form' = [form EXCEPT ![w] = "confirmed"]

RegisterAnswered(w) ==
    /\ form[w] = "sent"
    /\ rows' = rows \cup {w}
    /\ Confirm(w)
    /\ UNCHANGED <<offline, pageVars>>

SaveOfflineRequest(w) == offline' = offline \cup {w}

\* Any error: no network, an answer that is lost after the insert, or one of
\* the controller's refusals, among them that of the officer's own role.
RegisterFails(w) ==
    /\ form[w] = "sent"
    /\ rows' \in {rows, rows \cup {w}}
    /\ SaveOfflineRequest(w)
    /\ Confirm(w)
    /\ UNCHANGED pageVars

-----------------------------------------------------------------------------
(* Face enrolment                                                          *)

\* getPendingRequests does not fall back to the offline list.
PendingRequests == rows

\* fetchPending; it may fail and leave the list as it is.
FetchPending ==
    /\ pending' = PendingRequests
    /\ UNCHANGED <<listVars, selected, frame, liveness, detecting, checking,
                   enrolling, localFaces, modal, switched>>

StoreReset ==
    /\ liveness' = "none"
    /\ frame' = None

\* A press on a request of the list, or the modal closing (None).
SelectRequest(w) ==
    /\ IF w = None THEN modal ELSE w \in pending
    /\ selected' = w
    /\ StoreReset
    /\ modal' = (modal /\ w # None)
    /\ switched' = (switched \/ (detecting # {} /\ w # selected))
    /\ UNCHANGED <<listVars, pending, detecting, checking, enrolling, localFaces>>

Retake ==
    /\ frame # None /\ enrolling.step = "no"
    /\ StoreReset
    /\ UNCHANGED <<listVars, pending, selected, detecting, checking, enrolling,
                   localFaces, modal, switched>>

\* The button needs a quality above 0.8, which is an input.
Capture ==
    /\ selected # None /\ frame = None
    /\ detecting' = detecting \cup {selected}
    /\ UNCHANGED <<listVars, pending, selected, frame, liveness, checking, enrolling,
                   localFaces, modal, switched>>

\* The detection returns to whatever is selected by then.
CaptureFrame(w) ==
    /\ w \in detecting
    /\ detecting' = detecting \ {w}
    /\ \/ UNCHANGED <<frame, checking>>          \* no face, or an exception
       \/ frame' = w /\ checking' = checking \cup {w}
    /\ UNCHANGED <<listVars, pending, selected, liveness, enrolling, localFaces,
                   modal, switched>>

\* performLivenessCheck; a failed request leaves the verdict as it was.
LivenessVerdict(w) ==
    /\ w \in checking
    /\ checking' = checking \ {w}
    /\ liveness' \in {"passed", "failed", liveness}
    /\ UNCHANGED <<listVars, pending, selected, frame, detecting, enrolling,
                   localFaces, modal, switched>>

\* handleConfirmEnrollment: the verdict is not consulted.
SubmitEnrollment ==
    /\ selected # None /\ frame # None /\ enrolling.step = "no"
    /\ enrolling' = [step |-> "face", worker |-> selected, face |-> frame]
    /\ UNCHANGED <<listVars, pending, selected, frame, liveness, detecting, checking,
                   localFaces, modal, switched>>

\* enrollFace sends no token and is refused: the frame is kept in local
\* storage and success is returned.
EnrollFaceLocally ==
    /\ enrolling.step = "face"
    /\ localFaces' = [localFaces EXCEPT ![enrolling.worker] = enrolling.face]
    /\ enrolling' = [enrolling EXCEPT !.step = "activate"]
    /\ UNCHANGED <<listVars, pending, selected, frame, liveness, detecting,
                   checking, modal, switched>>

\* Local storage is full: the page shows the error.
EnrollFaceFails ==
    /\ enrolling.step = "face"
    /\ enrolling' = NotEnrolling
    /\ UNCHANGED <<listVars, pending, selected, frame, liveness, detecting, checking,
                   localFaces, modal, switched>>

\* activateWorker calls two routes that do not exist and returns success; the
\* offline list holds no id of a row, so no status changes there.
ActivateWorker ==
    /\ enrolling.step = "activate"
    /\ enrolling' = NotEnrolling
    /\ modal' = TRUE
    /\ UNCHANGED <<listVars, pending, selected, frame, liveness, detecting, checking,
                   localFaces, switched>>

OnboardingNext ==
    \/ \E w \in Workers : Submit(w) \/ RegisterAnswered(w) \/ RegisterFails(w)
                          \/ CaptureFrame(w) \/ LivenessVerdict(w)
    \/ \E w \in Choice : SelectRequest(w)
    \/ FetchPending \/ Retake \/ Capture \/ SubmitEnrollment
    \/ EnrollFaceLocally \/ EnrollFaceFails \/ ActivateWorker

OnboardingSpec == OnboardingInit /\ [][OnboardingNext]_onboardingVars

-----------------------------------------------------------------------------
\* A face is stored under another worker's request only if the officer
\* selected another request while a capture was still waiting for its
\* detection (captureFrame writes to whatever is selected when it returns).
WrongFaceNeedsSwitch ==
    \A w \in Workers : localFaces[w] \in {w, None} \/ switched
=============================================================================
