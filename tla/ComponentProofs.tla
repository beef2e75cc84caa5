-------------------------- MODULE ComponentProofs ---------------------------
(***************************************************************************)
(* Theorems about the kiosk, the enrolment page, the accounts and the      *)
(* session of the browser, for any number of taps, workers, accounts,      *)
(* calls and users, and about the run that puts components side by side.   *)
(*                                                                         *)
(* The kiosk: a page on which no tap was taken by the leaving panel runs   *)
(* one capture at a time. The button needs status "idle", and whatever     *)
(* left "idle" returns to it by the only timer that is pending. Then the   *)
(* key a record is sealed with is the one local storage holds.             *)
(*                                                                         *)
(* The enrolment page: as long as nobody selects another request while a   *)
(* capture waits, whatever a capture leaves belongs to the request that is *)
(* selected, and an enrolment takes both together.                         *)
(*                                                                         *)
(* The accounts: two handlers in progress have met, and what a handler     *)
(* read still holds unless a handler it has met changed it.                *)
(*                                                                         *)
(* The session: unless an answer for somebody else was waited for,         *)
(* whatever will act on the session is of the user identified last, and of *)
(* somebody checked when the guard admits it.                              *)
(*                                                                         *)
(* A behaviour of the run is a behaviour of each component, so that what   *)
(* is proved of a component holds in it.                                   *)
(***************************************************************************)
EXTENDS MCComponents, PythonServiceProofs

-----------------------------------------------------------------------------
(* The kiosk                                                               *)

Running(c) == capture[c].pc \in {"detect", "match", "generate", "put"}

\* One capture, or one timer, or a page that waits for a tap.
OneAtATime ==
    /\ \A c, d \in Captures : Running(c) /\ Running(d) => c = d
    /\ timers > 0 => timers = 1 /\ \A c \in Captures : ~Running(c)
    /\ status = "idle" => timers = 0 /\ \A c \in Captures : ~Running(c)

\* Nobody else stores a key between the moment a capture found or made its own
\* and the moment its record is in the queue.
OneKey ==
    /\ \A c \in queue : sealed[c] = key /\ key # NoKey
    /\ \A c \in Captures : capture[c].pc = "generate" => key = NoKey
    /\ \A c \in Captures : capture[c].pc = "put" => capture[c].key = key /\ key # NoKey

KioskInv ==
    /\ KioskTypeOK
    /\ ConfirmedIsQueued
    /\ ~doubleTap => OneAtATime /\ OneKey

LEMMA InitKioskInv == KioskInit => KioskInv
<1> SUFFICES ASSUME KioskInit PROVE KioskInv
  OBVIOUS
<1> DEFINE new == [pc |-> "new", online |-> FALSE, db |-> FALSE, retried |-> FALSE, key |-> NoKey]
<1>1. new \in CaptureStates /\ new.pc = "new"
  BY DEF CaptureStates, Keys
<1>2. /\ capture \in [Captures -> CaptureStates]
      /\ \A c \in Captures : capture[c].pc = "new"
  BY <1>1 DEF KioskInit
<1>3. KioskTypeOK
  BY <1>2 DEF KioskInit, KioskTypeOK, Keys
<1>4. ConfirmedIsQueued
  BY <1>2 DEF ConfirmedIsQueued
<1>5. OneAtATime /\ OneKey
  BY <1>2 DEF KioskInit, OneAtATime, OneKey, Running
<1>. QED  BY <1>3, <1>4, <1>5 DEF KioskInv

-----------------------------------------------------------------------------
(* What the steps of captureAndMatch have in common.                       *)

\* An update of one capture.
LEMMA CaptureEffect ==
    ASSUME KioskTypeOK, NEW c \in Captures, NEW s \in CaptureStates,
           capture' = [capture EXCEPT ![c] = s]
    PROVE  /\ capture' \in [Captures -> CaptureStates] /\ capture'[c] = s
           /\ \A d \in Captures \ {c} : capture'[d] = capture[d]
BY DEF KioskTypeOK

\* A capture that ends sets its status and the only timer there is.
LEMMA EndsInv ==
    ASSUME KioskInv, NEW c \in Captures, NEW s \in {"success", "error"}, Ends(c, s),
           Running(c) \/ (status = "idle" \/ doubleTap'),
           doubleTap => doubleTap', doubleTap' \in BOOLEAN,
           UNCHANGED <<online, dbOpen, key>>,
           queue' \subseteq Captures, queue \subseteq queue',
           sealed' \in [Captures -> Keys],
           \A d \in queue' : \/ d \in queue /\ d # c /\ sealed'[d] = sealed[d]
                             \/ d = c /\ capture[c].pc = "put" /\ sealed'[d] = capture[c].key
                             \/ d = c /\ d \in queue /\ sealed'[d] = sealed[d],
           s = "success" => c \in queue' \/ ~capture[c].db
    PROVE  KioskInv'
<1> USE DEF KioskInv
<1> DEFINE t == [capture[c] EXCEPT !.pc = s]
<1>1. capture[c] \in CaptureStates
  BY DEF KioskTypeOK
<1>2. t \in CaptureStates /\ t.pc = s /\ t.db = capture[c].db
  BY <1>1 DEF CaptureStates
<1>3. capture' = [capture EXCEPT ![c] = t]
  BY DEF Ends
<1> HIDE DEF t
<1>4. /\ capture' \in [Captures -> CaptureStates] /\ capture'[c] = t
      /\ \A d \in Captures \ {c} : capture'[d] = capture[d]
  BY <1>2, <1>3, CaptureEffect
<1>5. timers' = timers + 1 /\ status' = s /\ leaving' \in BOOLEAN
  BY DEF Ends, Shows, KioskTypeOK
<1>6. KioskTypeOK'
  BY <1>4, <1>5 DEF KioskTypeOK
<1>7. ConfirmedIsQueued'
  BY <1>2, <1>4 DEF ConfirmedIsQueued
<1>8. ASSUME ~doubleTap'
      PROVE  OneAtATime' /\ OneKey'
  <2>1. OneAtATime /\ OneKey
    BY <1>8
  <2>2. timers = 0 /\ \A d \in Captures \ {c} : ~Running(d)
    BY <1>8, <2>1 DEF OneAtATime, KioskTypeOK
  <2>3. \A d \in Captures : ~Running(d)'
    BY <1>2, <1>4, <2>2 DEF Running
  <2>4. OneAtATime'
    BY <1>5, <2>2, <2>3 DEF OneAtATime
  <2>5. \A d \in Captures : capture'[d].pc \notin {"generate", "put"}
    BY <2>3 DEF Running
  <2>6. \A d \in queue' : sealed'[d] = key /\ key # NoKey
    BY <2>1 DEF OneKey
  <2>. QED  BY <2>4, <2>5, <2>6 DEF OneKey
<1>. QED  BY <1>6, <1>7, <1>8

\* A capture that goes on, with nothing but its own progress changed.
LEMMA GoesOnInv ==
    ASSUME KioskInv, NEW c \in Captures, NEW s \in CaptureStates, Running(c),
           capture' = [capture EXCEPT ![c] = s], s.pc # "success",
           s.pc = "generate" => key = NoKey,
           s.pc = "put" => s.key = key /\ (doubleTap \/ key # NoKey),
           UNCHANGED <<online, dbOpen, status, leaving, timers, key, queue, sealed, doubleTap>>
    PROVE  KioskInv'
<1> USE DEF KioskInv
<1>1. /\ capture' \in [Captures -> CaptureStates] /\ capture'[c] = s
      /\ \A d \in Captures \ {c} : capture'[d] = capture[d]
  BY CaptureEffect
<1>2. KioskTypeOK'
  BY <1>1 DEF KioskTypeOK
<1>3. ConfirmedIsQueued'
  BY <1>1 DEF ConfirmedIsQueued
<1>4. ASSUME ~doubleTap'
      PROVE  OneAtATime' /\ OneKey'
  <2>1. OneAtATime /\ OneKey /\ ~doubleTap
    BY <1>4
  <2>2. \A d \in Captures \ {c} : ~Running(d)' /\ capture'[d].pc \notin {"generate", "put"}
    BY <1>1, <2>1 DEF OneAtATime, Running
  <2>3. OneAtATime'
    BY <2>1, <2>2 DEF OneAtATime
  <2>4. OneKey'
    BY <1>1, <2>1, <2>2 DEF OneKey
  <2>. QED  BY <2>3, <2>4
<1>. QED  BY <1>2, <1>3, <1>4

-----------------------------------------------------------------------------
(* The actions                                                             *)

\* The browser: the database opens, the network and the panels come and go.
LEMMA BrowserInv ==
    ASSUME KioskInv, OpenDb \/ HandleOnline \/ HandleOffline \/ ExitAnimationEnds
    PROVE  KioskInv'
<1> USE DEF KioskInv
<1>1. /\ UNCHANGED <<status, timers, key, sealed, capture, doubleTap>>
      /\ online' \in BOOLEAN /\ dbOpen' \in BOOLEAN /\ leaving' \in BOOLEAN
  BY DEF OpenDb, HandleOnline, HandleOffline, ExitAnimationEnds, KioskTypeOK
<1>2. queue' = queue
  BY DEF OpenDb, HandleOnline, HandleOffline, ExitAnimationEnds, SyncDeletes
<1>3. KioskTypeOK' /\ ConfirmedIsQueued'
  BY <1>1, <1>2 DEF KioskTypeOK, ConfirmedIsQueued
<1>4. OneAtATime => OneAtATime'
  BY <1>1 DEF OneAtATime, Running
<1>5. OneKey => OneKey'
  BY <1>1, <1>2 DEF OneKey
<1>. QED  BY <1>1, <1>3, <1>4, <1>5

LEMMA TimerInv ==
    ASSUME KioskInv, TimerFires
    PROVE  KioskInv'
<1> USE DEF KioskInv
<1>1. /\ timers > 0 /\ timers' = timers - 1 /\ status' = "idle"
      /\ UNCHANGED <<online, dbOpen, leaving, key, queue, sealed, capture, doubleTap>>
  BY DEF TimerFires
<1>2. KioskTypeOK' /\ ConfirmedIsQueued'
  BY <1>1 DEF KioskTypeOK, ConfirmedIsQueued
<1>3. OneAtATime => OneAtATime'
  BY <1>1 DEF OneAtATime, Running
<1>4. OneKey => OneKey'
  BY <1>1 DEF OneKey
<1>. QED  BY <1>1, <1>2, <1>3, <1>4

\* A tap that was not taken by the leaving panel finds a page that waits.
LEMMA TapInv ==
    ASSUME KioskInv, NEW c \in Captures, Tap(c)
    PROVE  KioskInv'
<1> USE DEF KioskInv
<1>1. /\ capture[c].pc = "new" /\ UNCHANGED <<online, dbOpen, key, queue, sealed>>
      /\ doubleTap' = (doubleTap \/ (status # "idle" /\ leaving))
      /\ status = "idle" \/ leaving
  BY DEF Tap, PanelTakesTap
<1>2. status = "idle" \/ doubleTap'
  BY <1>1
<1>3. doubleTap' \in BOOLEAN /\ (doubleTap => doubleTap')
  BY <1>1 DEF KioskTypeOK
<1>4. CASE Ends(c, "error")
  <2>1. queue \subseteq Captures /\ sealed \in [Captures -> Keys]
    BY DEF KioskTypeOK
  <2>. QED  BY <1>1, <1>2, <1>3, <1>4, <2>1, EndsInv
<1>5. CASE /\ capture' = [capture EXCEPT ![c].pc = "detect", ![c].online = online,
                                         ![c].db = dbOpen]
           /\ Shows("scanning")
           /\ UNCHANGED timers
  <2> DEFINE s == [capture[c] EXCEPT !.pc = "detect", !.online = online, !.db = dbOpen]
  <2>1. s \in CaptureStates /\ s.pc = "detect"
    BY DEF KioskTypeOK, CaptureStates
  <2>2. capture' = [capture EXCEPT ![c] = s]
    BY <1>5 DEF KioskTypeOK, CaptureStates
  <2> HIDE DEF s
  <2>3. /\ capture' \in [Captures -> CaptureStates] /\ capture'[c] = s
        /\ \A d \in Captures \ {c} : capture'[d] = capture[d]
    BY <2>1, <2>2, CaptureEffect
  <2>4. status' = "scanning" /\ leaving' \in BOOLEAN /\ timers' = timers
    BY <1>5 DEF Shows, KioskTypeOK
  <2>5. KioskTypeOK'
    BY <1>1, <1>3, <2>3, <2>4 DEF KioskTypeOK
  <2>6. ConfirmedIsQueued'
    BY <1>1, <2>1, <2>3 DEF ConfirmedIsQueued
  <2>7. ASSUME ~doubleTap'
        PROVE  OneAtATime' /\ OneKey'
    <3>1. OneAtATime /\ OneKey /\ status = "idle"
      BY <1>2, <1>3, <2>7
    <3>2. timers = 0 /\ \A d \in Captures \ {c} : ~Running(d)'
      BY <2>3, <3>1 DEF OneAtATime, Running
    <3>3. OneAtATime'
      BY <2>4, <3>2 DEF OneAtATime
    <3>4. OneKey'
      BY <1>1, <2>1, <2>3, <3>1 DEF OneKey
    <3>. QED  BY <3>3, <3>4
  <2>. QED  BY <2>5, <2>6, <2>7
<1>. QED  BY <1>4, <1>5 DEF Tap

LEMMA RefusedInv ==
    ASSUME KioskInv, NEW c \in Captures, DetectRefuses(c) \/ MatchFails(c)
    PROVE  KioskInv'
<1>1. /\ Running(c) /\ Ends(c, "error")
      /\ UNCHANGED <<online, dbOpen, key, queue, sealed, doubleTap>>
  BY DEF DetectRefuses, MatchFails, Running
<1>2. queue \subseteq Captures /\ sealed \in [Captures -> Keys] /\ doubleTap \in BOOLEAN
  BY DEF KioskInv, KioskTypeOK
<1>. QED  BY <1>1, <1>2, EndsInv

\* A key found is the one stored; without one the capture will make its own.
LEMMA DetectInv ==
    ASSUME KioskInv, NEW c \in Captures, DetectOffline(c) \/ DetectOnline(c)
    PROVE  KioskInv'
<1>0. /\ Running(c) /\ UNCHANGED <<online, dbOpen, key, queue, sealed, doubleTap>>
      /\ capture[c] \in CaptureStates /\ key \in Keys
      /\ queue \subseteq Captures /\ sealed \in [Captures -> Keys] /\ doubleTap \in BOOLEAN
  BY DEF DetectOffline, DetectOnline, QueueAttendance, Running, KioskInv, KioskTypeOK
<1>1. CASE DetectOffline(c) /\ ~capture[c].db
  <2>1. Ends(c, "success")
    BY <1>1 DEF DetectOffline, QueueAttendance
  <2>. QED  BY <1>0, <1>1, <2>1, EndsInv
<1>2. CASE DetectOffline(c) /\ capture[c].db
  <2> DEFINE s == [capture[c] EXCEPT !.key = key,
                                     !.pc = IF key = NoKey THEN "generate" ELSE "put"]
  <2>1. s \in CaptureStates /\ s.key = key
        /\ s.pc = IF key = NoKey THEN "generate" ELSE "put"
    BY <1>0 DEF CaptureStates
  <2>2. capture' = [capture EXCEPT ![c] = s] /\ UNCHANGED <<status, leaving, timers>>
    BY <1>0, <1>2 DEF DetectOffline, QueueAttendance, CaptureStates
  <2> HIDE DEF s
  <2>. QED  BY <1>0, <2>1, <2>2, GoesOnInv
<1>3. CASE DetectOnline(c)
  <2> DEFINE s == [capture[c] EXCEPT !.pc = "match"]
  <2>1. s \in CaptureStates /\ s.pc = "match"
    BY <1>0 DEF CaptureStates
  <2>2. capture' = [capture EXCEPT ![c] = s] /\ UNCHANGED <<status, leaving, timers>>
    BY <1>3 DEF DetectOnline
  <2> HIDE DEF s
  <2>. QED  BY <1>0, <2>1, <2>2, GoesOnInv
<1>. QED  BY <1>1, <1>2, <1>3

\* There was no key, hence no record in the queue and no other capture.
LEMMA GenerateInv ==
    ASSUME KioskInv, NEW c \in Captures, GenerateKey(c)
    PROVE  KioskInv'
<1> USE DEF KioskInv
<1> DEFINE s == [capture[c] EXCEPT !.pc = "put", !.key = c]
<1>1. /\ capture[c].pc = "generate" /\ key' = c
      /\ UNCHANGED <<online, dbOpen, status, leaving, timers, queue, sealed, doubleTap>>
  BY DEF GenerateKey
<1>2. s \in CaptureStates /\ s.pc = "put" /\ s.key = c /\ c \in Keys /\ c # NoKey
  BY KioskAssumption DEF KioskTypeOK, CaptureStates, Keys
<1>3. capture' = [capture EXCEPT ![c] = s]
  BY DEF GenerateKey, KioskTypeOK, CaptureStates
<1> HIDE DEF s
<1>4. /\ capture' \in [Captures -> CaptureStates] /\ capture'[c] = s
      /\ \A d \in Captures \ {c} : capture'[d] = capture[d]
  BY <1>2, <1>3, CaptureEffect
<1>5. KioskTypeOK' /\ ConfirmedIsQueued'
  BY <1>1, <1>2, <1>4 DEF KioskTypeOK, ConfirmedIsQueued
<1>6. ASSUME ~doubleTap'
      PROVE  OneAtATime' /\ OneKey'
  <2>1. OneAtATime /\ OneKey /\ Running(c)
    BY <1>1, <1>6 DEF Running
  <2>2. \A d \in Captures \ {c} : ~Running(d)' /\ capture'[d].pc \notin {"generate", "put"}
    BY <1>4, <2>1 DEF OneAtATime, Running
  <2>3. OneAtATime'
    BY <1>1, <2>1, <2>2 DEF OneAtATime
  <2>4. queue = {}
    BY <1>1, <2>1 DEF OneKey
  <2>5. OneKey'
    BY <1>1, <1>2, <1>4, <2>2, <2>4 DEF OneKey
  <2>. QED  BY <2>3, <2>5
<1>. QED  BY <1>5, <1>6

LEMMA PutInv ==
    ASSUME KioskInv, NEW c \in Captures, Put(c) \/ PutFails(c)
    PROVE  KioskInv'
<1>0. /\ capture[c].pc = "put" /\ Running(c)
      /\ capture[c] \in CaptureStates /\ key \in Keys
      /\ queue \subseteq Captures /\ sealed \in [Captures -> Keys] /\ doubleTap \in BOOLEAN
  BY DEF Put, PutFails, Running, KioskInv, KioskTypeOK
<1>1. CASE Put(c)
  <2>1. /\ queue' = queue \cup {c} /\ sealed' = [sealed EXCEPT ![c] = capture[c].key]
        /\ Ends(c, "success") /\ UNCHANGED <<online, dbOpen, key, doubleTap>>
    BY <1>1 DEF Put
  <2>2. capture[c].key \in Keys
    BY <1>0 DEF CaptureStates
  <2>3. /\ sealed' \in [Captures -> Keys] /\ sealed'[c] = capture[c].key
        /\ \A d \in Captures \ {c} : sealed'[d] = sealed[d]
    BY <1>0, <2>1, <2>2
  <2>. QED  BY <1>0, <2>1, <2>3, EndsInv
<1>2. CASE PutFails(c)
  <2> DEFINE s == [capture[c] EXCEPT !.retried = TRUE,
                     !.pc = IF capture[c].retried THEN "thrown" ELSE "put",
                     !.key = IF capture[c].retried THEN @ ELSE key]
  <2>1. /\ s \in CaptureStates /\ s.pc \in {"thrown", "put"}
        /\ s.pc = "put" => s.key = key
    BY <1>0 DEF CaptureStates
  <2>2. /\ capture' = [capture EXCEPT ![c] = s]
        /\ UNCHANGED <<online, dbOpen, status, leaving, timers, key, queue, sealed, doubleTap>>
    BY <1>0, <1>2 DEF PutFails, CaptureStates
  <2>3. doubleTap \/ key # NoKey
    BY <1>0 DEF KioskInv, OneKey
  <2> HIDE DEF s
  <2>. QED  BY <1>0, <2>1, <2>2, <2>3, GoesOnInv
<1>. QED  BY <1>1, <1>2

-----------------------------------------------------------------------------
LEMMA NextKioskInv == KioskInv /\ [KioskNext]_kioskVars => KioskInv'
<1> SUFFICES ASSUME KioskInv, [KioskNext]_kioskVars PROVE KioskInv'
  OBVIOUS
<1>1. CASE OpenDb \/ HandleOnline \/ HandleOffline \/ ExitAnimationEnds
  BY <1>1, BrowserInv
<1>2. CASE TimerFires
  BY <1>2, TimerInv
<1>3. ASSUME NEW c \in Captures,
             \/ Tap(c) \/ DetectRefuses(c) \/ DetectOffline(c) \/ DetectOnline(c)
             \/ MatchFails(c) \/ GenerateKey(c) \/ Put(c) \/ PutFails(c)
      PROVE  KioskInv'
  BY <1>3, TapInv, RefusedInv, DetectInv, GenerateInv, PutInv
<1>4. CASE UNCHANGED kioskVars
  BY <1>4 DEF kioskVars, KioskInv, KioskTypeOK, ConfirmedIsQueued, OneAtATime, OneKey, Running
<1>. QED  BY <1>1, <1>2, <1>3, <1>4 DEF KioskNext

LEMMA KioskInvariant == KioskSpec => []KioskInv
BY InitKioskInv, NextKioskInv, PTL DEF KioskSpec

\* The variables of the kiosk page keep their types, however often it is tapped
\* (KioskControlPage.tsx, useOfflineSync.ts).
THEOREM KioskTypeCorrect == KioskSpec => []KioskTypeOK
BY KioskInvariant, PTL DEF KioskInv

\* An attendance the kiosk confirmed stays in its queue if its database was
\* open: nothing that answers a sync acknowledges a record (useOfflineSync.ts).
THEOREM ConfirmedStaysQueued == KioskSpec => []ConfirmedIsQueued
BY KioskInvariant, PTL DEF KioskInv

\* A record is sealed with a key that is gone only after a tap that the leaving
\* panel took (cryptoUtils.ts, getEncryptionKey; KioskControlPage.tsx).
THEOREM UnreadableTakesDoubleTap == KioskSpec => []UnreadableNeedsDoubleTap
<1>1. KioskInv => UnreadableNeedsDoubleTap
  BY DEF KioskInv, OneKey, UnreadableNeedsDoubleTap
<1>. QED  BY <1>1, KioskInvariant, PTL

-----------------------------------------------------------------------------
(* The enrolment page                                                      *)

\* Captures and the frame are those of the worker selected; an enrolment is
\* of one worker.
SameWorker ==
    /\ detecting \subseteq {selected}
    /\ frame \in {None, selected}
    /\ enrolling.step # "no" => enrolling.face = enrolling.worker
    /\ \A w \in Workers : localFaces[w] \in {w, None}

OnboardingInv ==
    /\ OnboardingTypeOK
    /\ ~switched => SameWorker

LEMMA NotEnrollingType ==
    /\ NotEnrolling \in [step : {"no", "face", "activate"}, worker : Choice, face : Choice]
    /\ NotEnrolling.step = "no"
BY DEF NotEnrolling, Choice

LEMMA InitOnboardingInv == OnboardingInit => OnboardingInv
<1> SUFFICES ASSUME OnboardingInit PROVE OnboardingInv
  OBVIOUS
<1>1. OnboardingTypeOK
  BY NotEnrollingType DEF OnboardingInit, OnboardingTypeOK, Choice
<1>2. SameWorker
  BY NotEnrollingType DEF OnboardingInit, SameWorker
<1>. QED  BY <1>1, <1>2 DEF OnboardingInv

\* Registering touches no face.
LEMMA ListInv ==
    ASSUME OnboardingInv, NEW w \in Workers, Submit(w) \/ RegisterAnswered(w) \/ RegisterFails(w)
    PROVE  OnboardingInv'
<1> USE DEF OnboardingInv
<1>1. UNCHANGED pageVars
  BY DEF Submit, RegisterAnswered, RegisterFails
<1>2. /\ rows' \subseteq Workers /\ rows \subseteq rows' /\ offline' \subseteq Workers
      /\ form' \in [Workers -> {"new", "sent", "confirmed"}]
  BY DEF Submit, RegisterAnswered, RegisterFails, Confirm, SaveOfflineRequest, OnboardingTypeOK
<1>3. OnboardingTypeOK'
  BY <1>1, <1>2 DEF OnboardingTypeOK, pageVars
<1>4. switched' = switched /\ (SameWorker => SameWorker')
  BY <1>1 DEF SameWorker, pageVars
<1>. QED  BY <1>3, <1>4

\* Another choice empties the frame, and is a switch if a capture waits.
LEMMA SelectInv ==
    ASSUME OnboardingInv, NEW w \in Choice, SelectRequest(w)
    PROVE  OnboardingInv'
<1> USE DEF OnboardingInv
<1>1. /\ selected' = w /\ frame' = None /\ liveness' = "none"
      /\ switched' = (switched \/ (detecting # {} /\ w # selected))
      /\ modal' \in BOOLEAN
      /\ UNCHANGED <<listVars, pending, detecting, checking, enrolling, localFaces>>
  BY DEF SelectRequest, StoreReset, OnboardingTypeOK
<1>2. switched' \in BOOLEAN
  BY <1>1 DEF OnboardingTypeOK
<1>3. OnboardingTypeOK'
  BY <1>1, <1>2 DEF OnboardingTypeOK, listVars, Choice
<1>4. ASSUME ~switched'
      PROVE  SameWorker'
  <2>1. SameWorker /\ (detecting = {} \/ w = selected)
    BY <1>1, <1>4
  <2>. QED  BY <1>1, <2>1 DEF SameWorker
<1>. QED  BY <1>3, <1>4

\* The list, the camera and the verdict.
LEMMA CameraInv ==
    ASSUME OnboardingInv,
           \/ FetchPending \/ Retake \/ Capture
           \/ \E w \in Workers : CaptureFrame(w) \/ LivenessVerdict(w)
    PROVE  OnboardingInv'
<1> USE DEF OnboardingInv
<1>1. CASE FetchPending \/ Retake
  BY <1>1 DEF FetchPending, PendingRequests, Retake, StoreReset, OnboardingTypeOK, SameWorker,
              listVars, Choice
<1>2. CASE Capture
  BY <1>2 DEF Capture, OnboardingTypeOK, SameWorker, listVars, Choice
<1>3. ASSUME NEW w \in Workers, CaptureFrame(w)
      PROVE  OnboardingInv'
  BY <1>3 DEF CaptureFrame, OnboardingTypeOK, SameWorker, listVars, Choice
<1>4. ASSUME NEW w \in Workers, LivenessVerdict(w)
      PROVE  OnboardingInv'
  BY <1>4 DEF LivenessVerdict, OnboardingTypeOK, SameWorker, listVars
<1>. QED  BY <1>1, <1>2, <1>3, <1>4

\* An enrolment stores the frame under the worker it was taken with.
LEMMA EnrolInv ==
    ASSUME OnboardingInv,
           SubmitEnrollment \/ EnrollFaceLocally \/ EnrollFaceFails \/ ActivateWorker
    PROVE  OnboardingInv'
<1> USE DEF OnboardingInv
<1>1. CASE SubmitEnrollment
  BY <1>1 DEF SubmitEnrollment, OnboardingTypeOK, SameWorker, listVars
<1>2. CASE EnrollFaceLocally
  BY <1>2 DEF EnrollFaceLocally, OnboardingTypeOK, SameWorker, listVars, Choice
<1>3. CASE EnrollFaceFails \/ ActivateWorker
  <2>1. /\ enrolling' = NotEnrolling /\ modal' \in BOOLEAN
        /\ UNCHANGED <<listVars, pending, selected, frame, liveness, detecting, checking,
                       localFaces, switched>>
    BY <1>3 DEF EnrollFaceFails, ActivateWorker, OnboardingTypeOK
  <2>2. OnboardingTypeOK'
    BY <2>1, NotEnrollingType DEF OnboardingTypeOK, listVars
  <2>3. SameWorker => SameWorker'
    BY <2>1, NotEnrollingType DEF SameWorker
  <2>. QED  BY <2>1, <2>2, <2>3
<1>. QED  BY <1>1, <1>2, <1>3

LEMMA NextOnboardingInv == OnboardingInv /\ [OnboardingNext]_onboardingVars => OnboardingInv'
<1> SUFFICES ASSUME OnboardingInv, [OnboardingNext]_onboardingVars PROVE OnboardingInv'
  OBVIOUS
<1>1. ASSUME NEW w \in Workers, Submit(w) \/ RegisterAnswered(w) \/ RegisterFails(w)
      PROVE  OnboardingInv'
  BY <1>1, ListInv
<1>2. ASSUME NEW w \in Choice, SelectRequest(w)
      PROVE  OnboardingInv'
  BY <1>2, SelectInv
<1>3. CASE \/ FetchPending \/ Retake \/ Capture
           \/ \E w \in Workers : CaptureFrame(w) \/ LivenessVerdict(w)
  BY <1>3, CameraInv
<1>4. CASE SubmitEnrollment \/ EnrollFaceLocally \/ EnrollFaceFails \/ ActivateWorker
  BY <1>4, EnrolInv
<1>5. CASE UNCHANGED onboardingVars
  BY <1>5 DEF onboardingVars, listVars, pageVars, OnboardingInv, OnboardingTypeOK, SameWorker
<1>. QED  BY <1>1, <1>2, <1>3, <1>4, <1>5 DEF OnboardingNext

LEMMA OnboardingInvariant == OnboardingSpec => []OnboardingInv
BY InitOnboardingInv, NextOnboardingInv, PTL DEF OnboardingSpec

\* The variables of the registration and enrolment pages keep their types, and
\* the list shown holds rows of the backend only (worker-request.service.ts).
THEOREM OnboardingTypeCorrect == OnboardingSpec => []OnboardingTypeOK
BY OnboardingInvariant, PTL DEF OnboardingInv

\* A face is stored under another worker only after a change of the selection
\* while a capture waited (useFaceCapture.ts, useEnrollment.ts).
THEOREM WrongFaceTakesSwitch == OnboardingSpec => []WrongFaceNeedsSwitch
<1>1. OnboardingInv => WrongFaceNeedsSwitch
  BY DEF OnboardingInv, SameWorker, WrongFaceNeedsSwitch
<1>. QED  BY <1>1, OnboardingInvariant, PTL

-----------------------------------------------------------------------------
(* Accounts                                                                *)

Kinds == {"login", "portal", "change", "remove", "create"}
Logins == {"login", "portal"}

\* Handlers that are in progress together have met.
InProgressMet ==
    \A c, d \in Calls : c # d /\ InProgress(c) /\ InProgress(d) => d \in call[c].met

\* Whose password was changed, who logs in and who has a token exists.
KnownExist ==
    /\ \A a \in tokens : standing[a] # "absent"
    /\ \A c \in Calls :
         (InProgress(c) \/ call[c].pc = "done") /\ call[c].kind \in Logins \cup {"change"}
           => standing[call[c].account] # "absent"

\* The change of c has been followed by one that was given it or met it.
Superseded(c, a) ==
    \E d \in Calls \ {c} : Confirmed(d, "change", a) /\ (call[d].given = c \/ d \in call[c].met)

\* A change in progress compares with the password of the last confirmed
\* change, unless the two have met.
ChangeReadsLast ==
    \A c, d \in Calls, a \in Accounts :
      /\ Confirmed(c, "change", a)
      /\ InProgress(d) /\ call[d].kind = "change" /\ call[d].account = a
      => call[d].stored = c \/ d \in call[c].met \/ Superseded(c, a)

MetConfirmed(c, kind, a) == \E d \in call[c].met : Confirmed(d, kind, a)

\* What a login in progress has read is changed only by a handler it met.
LoginReadsCurrent ==
    \A c \in Calls, a \in Accounts :
      InProgress(c) /\ call[c].kind \in Logins /\ call[c].account = a =>
        /\ call[c].open => Open(call[c].kind, a) \/ MetConfirmed(c, "remove", a)
        /\ password[a] = call[c].stored \/ MetConfirmed(c, "change", a)

AccessInv ==
    /\ AccessTypeOK
    /\ InProgressMet
    /\ KnownExist
    /\ ChangeReadsLast
    /\ LoginReadsCurrent
    /\ ConfirmedPasswordStands
    /\ StaleTokenNeedsOverlap

-----------------------------------------------------------------------------
(* What the operators do to the handlers, field by field.                  *)

\* All fields of d but met are as they were.
Same(d) ==
    /\ call'[d].pc = call[d].pc /\ call'[d].kind = call[d].kind
    /\ call'[d].account = call[d].account /\ call'[d].given = call[d].given
    /\ call'[d].open = call[d].open /\ call'[d].stored = call[d].stored
    /\ call'[d].stale = call[d].stale

\* A handler that is not started yet, or was refused, is a CallStates.
LEMMA NewCallType == NewCall \in CallStates
<1>1. (CHOOSE a \in Accounts : TRUE) \in Accounts
  BY AccessAssumption
<1>2. Initial \in Passwords
  BY DEF Passwords
<1>. QED  BY <1>1, <1>2 DEF NewCall, CallStates

\* The first statement of a handler: it has read the row, and has met whoever
\* is in progress.
LEMMA ReadEffect ==
    ASSUME AccessTypeOK, NEW c \in Calls, NEW kind \in Kinds, NEW a \in Accounts,
           NEW given \in Passwords \cup {Wrong}, Read(c, kind, a, given)
    PROVE  /\ AccessTypeOK'
           /\ call[c].pc = "new" /\ call'[c].pc = "busy" /\ call'[c].kind = kind
           /\ call'[c].account = a /\ call'[c].given = given
           /\ call'[c].open = Open(kind, a) /\ call'[c].stored = password[a]
           /\ call'[c].stale = FALSE
           /\ call'[c].met = {d \in Calls : InProgress(d)}
           /\ \A d \in Calls \ {c} :
                Same(d) /\ call'[d].met = IF InProgress(d) THEN call[d].met \cup {c} ELSE call[d].met
           /\ UNCHANGED <<standing, password, tokens>>
<1> DEFINE others == {d \in Calls : call[d].pc = "busy"}
           new == [NewCall EXCEPT !.pc = "busy", !.kind = kind, !.account = a,
                     !.given = given, !.open = Open(kind, a),
                     !.stored = password[a], !.met = others]
<1>1. call[c].pc = "new" /\ UNCHANGED <<standing, password, tokens>>
  BY DEF Read
<1>2. call' = [d \in Calls |-> IF d = c THEN new
                ELSE IF d \in others THEN [call[d] EXCEPT !.met = @ \cup {c}] ELSE call[d]]
  BY DEF Read
<1>3. new \in CallStates /\ new.stale = FALSE /\ new.pc = "busy" /\ new.kind = kind
      /\ new.account = a /\ new.given = given /\ new.open = Open(kind, a)
      /\ new.stored = password[a] /\ new.met = others
  <2>1. Open(kind, a) \in BOOLEAN /\ password[a] \in Passwords /\ others \in SUBSET Calls
    BY DEF Open, AccessTypeOK
  <2>2. NewCall.stale = FALSE
    BY DEF NewCall
  <2>. QED  BY NewCallType, <2>1, <2>2 DEF CallStates, Kinds
<1> HIDE DEF new
<1>4. call'[c] = new
  BY <1>2
<1>5. ASSUME NEW d \in Calls \ {c}
      PROVE  /\ call'[d] \in CallStates /\ Same(d)
             /\ call'[d].met = IF InProgress(d) THEN call[d].met \cup {c} ELSE call[d].met
  <2>1. call[d] \in CallStates
    BY DEF AccessTypeOK
  <2>2. call'[d] = IF call[d].pc = "busy" THEN [call[d] EXCEPT !.met = @ \cup {c}] ELSE call[d]
    BY <1>2
  <2>. QED  BY <2>1, <2>2 DEF CallStates, Same, InProgress
<1>6. call' \in [Calls -> CallStates]
  BY <1>2, <1>3, <1>4, <1>5
<1>7. AccessTypeOK'
  BY <1>1, <1>6 DEF AccessTypeOK
<1>. QED  BY <1>1, <1>3, <1>4, <1>5, <1>7 DEF InProgress

\* The answer of a handler changes its own progress only.
LEMMA AnswerEffect ==
    ASSUME AccessTypeOK, NEW c \in Calls, NEW s \in BOOLEAN,
           \/ call' = [call EXCEPT ![c].pc = "done", ![c].stale = s]
           \/ s = call[c].stale /\ Answer(c)
    PROVE  /\ call' \in [Calls -> CallStates]
           /\ call'[c].pc = "done" /\ call'[c].stale = s /\ call'[c].kind = call[c].kind
           /\ call'[c].account = call[c].account /\ call'[c].given = call[c].given
           /\ call'[c].met = call[c].met
           /\ \A d \in Calls \ {c} : Same(d) /\ call'[d].met = call[d].met
<1>1. call[c] \in CallStates /\ call \in [Calls -> CallStates]
  BY DEF AccessTypeOK
<1>2. \/ call'[c] = [call[c] EXCEPT !.pc = "done", !.stale = s]
      \/ s = call[c].stale /\ call'[c] = [call[c] EXCEPT !.pc = "done"]
  BY <1>1 DEF Answer
<1>3. call'[c] \in CallStates /\ call'[c].pc = "done" /\ call'[c].stale = s
      /\ call'[c].kind = call[c].kind /\ call'[c].account = call[c].account
      /\ call'[c].given = call[c].given /\ call'[c].met = call[c].met
  BY <1>1, <1>2 DEF CallStates
<1>4. \A d \in Calls \ {c} : call'[d] = call[d]
  BY <1>1 DEF Answer
<1>5. call' \in [Calls -> CallStates]
  <2>1. call' = [d \in Calls |-> call'[d]]
    BY <1>1 DEF Answer
  <2>. QED  BY <1>1, <1>3, <1>4, <2>1
<1>. QED  BY <1>3, <1>4, <1>5 DEF Same

\* A refused handler is as good as new.
LEMMA RefuseEffect ==
    ASSUME AccessTypeOK, NEW c \in Calls, Refuse(c)
    PROVE  /\ AccessTypeOK'
           /\ call'[c].pc = "refused" /\ call'[c].stale = FALSE
           /\ \A d \in Calls \ {c} : Same(d) /\ call'[d].met = call[d].met
           /\ UNCHANGED <<standing, password, tokens>>
<1>1. call \in [Calls -> CallStates]
  BY DEF AccessTypeOK
<1>2. call' = [call EXCEPT ![c] = [NewCall EXCEPT !.pc = "refused"]]
      /\ UNCHANGED <<standing, password, tokens>>
  BY DEF Refuse
<1>3. NewCall.stale = FALSE
  BY DEF NewCall
<1>4. call'[c] = [NewCall EXCEPT !.pc = "refused"]
  BY <1>1, <1>2
<1>5. call'[c] \in CallStates /\ call'[c].pc = "refused" /\ call'[c].stale = FALSE
  BY NewCallType, <1>3, <1>4 DEF CallStates
<1>6. \A d \in Calls \ {c} : call'[d] = call[d]
  BY <1>1, <1>2
<1>7. call' \in [Calls -> CallStates]
  BY <1>1, <1>2, <1>4, <1>5
<1>. QED  BY <1>2, <1>5, <1>6, <1>7 DEF Same, AccessTypeOK

-----------------------------------------------------------------------------
(* What is confirmed stays confirmed.                                      *)

Stable ==
    \A d \in Calls : call[d].pc = "done" => Same(d) /\ call'[d].met = call[d].met

LEMMA ConfirmedStays ==
    ASSUME Stable, NEW d \in Calls, NEW a, NEW kind, Confirmed(d, kind, a)
    PROVE  Confirmed(d, kind, a)' /\ call'[d].given = call[d].given /\ call'[d].met = call[d].met
BY DEF Stable, Same, Confirmed

LEMMA SupersededStays ==
    ASSUME Stable, NEW c \in Calls, NEW a, call[c].pc = "done", Superseded(c, a)
    PROVE  Superseded(c, a)'
<1>1. PICK d \in Calls \ {c} :
        Confirmed(d, "change", a) /\ (call[d].given = c \/ d \in call[c].met)
  BY DEF Superseded
<1>2. Confirmed(d, "change", a)' /\ call'[d].given = call[d].given /\ call'[c].met = call[c].met
  BY <1>1, ConfirmedStays DEF Stable
<1>. QED  BY <1>1, <1>2 DEF Superseded

LEMMA MetConfirmedStays ==
    ASSUME AccessTypeOK, Stable, NEW c \in Calls, NEW kind, NEW a,
           call[c].met \subseteq call'[c].met, MetConfirmed(c, kind, a)
    PROVE  MetConfirmed(c, kind, a)'
<1>1. PICK d \in call[c].met : Confirmed(d, kind, a)
  BY DEF MetConfirmed
<1>2. d \in Calls
  BY <1>1 DEF AccessTypeOK, CallStates
<1>. QED  BY <1>1, <1>2, ConfirmedStays DEF MetConfirmed

LEMMA TypeOfMet ==
    ASSUME AccessTypeOK, NEW c \in Calls
    PROVE  call[c].met \subseteq Calls /\ call[c].account \in Accounts
           /\ call[c].kind \in Kinds /\ call[c].stored \in Passwords
           /\ call[c].pc \in {"new", "busy", "done", "refused"}
BY DEF AccessTypeOK, CallStates, Kinds

-----------------------------------------------------------------------------
\* Nobody is in progress and nothing is confirmed at first.
LEMMA InitAccessInv == AccessInit => AccessInv
<1> SUFFICES ASSUME AccessInit PROVE AccessInv
  OBVIOUS
<1>1. \A c \in Calls : call[c] = NewCall /\ call[c].pc = "new" /\ ~call[c].stale
  BY DEF AccessInit, NewCall
<1>2. AccessTypeOK
  BY NewCallType DEF AccessInit, AccessTypeOK, Passwords
<1>3. InProgressMet /\ KnownExist /\ ChangeReadsLast /\ LoginReadsCurrent
  BY <1>1 DEF InProgressMet, KnownExist, ChangeReadsLast, LoginReadsCurrent, InProgress,
              Confirmed, AccessInit
<1>4. ConfirmedPasswordStands /\ StaleTokenNeedsOverlap
  BY <1>1 DEF ConfirmedPasswordStands, StaleTokenNeedsOverlap, Confirmed
<1>. QED  BY <1>2, <1>3, <1>4 DEF AccessInv

\* A handler that begins has read the row as it is and has met whoever could
\* change it.
LEMMA ReadInv ==
    ASSUME AccessInv, NEW c \in Calls, NEW kind \in Kinds, NEW a \in Accounts,
           NEW given \in Passwords \cup {Wrong}, Read(c, kind, a, given),
           kind \in Logins \cup {"change"} => standing[a] # "absent"
    PROVE  AccessInv'
<1> USE DEF AccessInv
<1>1. /\ AccessTypeOK'
      /\ call[c].pc = "new" /\ call'[c].pc = "busy" /\ call'[c].kind = kind
      /\ call'[c].account = a /\ call'[c].given = given
      /\ call'[c].open = Open(kind, a) /\ call'[c].stored = password[a]
      /\ call'[c].stale = FALSE
      /\ call'[c].met = {d \in Calls : InProgress(d)}
      /\ \A d \in Calls \ {c} :
           Same(d) /\ call'[d].met = IF InProgress(d) THEN call[d].met \cup {c} ELSE call[d].met
      /\ UNCHANGED <<standing, password, tokens>>
  BY ReadEffect
<1>2. Stable
  BY <1>1 DEF Stable, InProgress
<1>3. InProgressMet'
  <2> SUFFICES ASSUME NEW d \in Calls, NEW e \in Calls, d # e, InProgress(d)', InProgress(e)'
               PROVE  e \in call'[d].met
    BY DEF InProgressMet
  <2>0. /\ call'[c].met = {x \in Calls : call[x].pc = "busy"}
        /\ \A x \in Calls \ {c} : call'[x].pc = call[x].pc
        /\ \A x \in Calls \ {c} : call[x].pc = "busy" => call'[x].met = call[x].met \cup {c}
    BY <1>1 DEF InProgress, Same
  <2>1. call'[d].pc = "busy" /\ call'[e].pc = "busy"
    BY DEF InProgress
  <2>2. CASE d = c
    BY <2>0, <2>1, <2>2
  <2>3. CASE e = c
    BY <2>0, <2>1, <2>3
  <2>4. CASE d # c /\ e # c
    <3>1. e \in call[d].met
      BY <2>0, <2>1, <2>4 DEF InProgressMet, InProgress
    <3>. QED  BY <2>0, <2>1, <2>4, <3>1
  <2>. QED  BY <2>2, <2>3, <2>4
<1>4. KnownExist'
  <2>1. \A d \in Calls : d # c => Same(d)
    BY <1>1
  <2>. QED  BY <1>1, <2>1 DEF KnownExist, InProgress, Same, Logins
<1>5. ChangeReadsLast'
  <2> SUFFICES ASSUME NEW e \in Calls, NEW d \in Calls, NEW b \in Accounts,
                      Confirmed(e, "change", b)', InProgress(d)', call'[d].kind = "change",
                      call'[d].account = b
               PROVE  call'[d].stored = e \/ d \in call'[e].met \/ Superseded(e, b)'
    BY DEF ChangeReadsLast
  <2>1. e # c /\ Confirmed(e, "change", b) /\ call[e].pc = "done"
    BY <1>1 DEF Confirmed, Same
  <2>2. Superseded(e, b) => Superseded(e, b)'
    BY <1>2, <2>1, SupersededStays
  <2>3. CASE d = c
    <3>1. password[b] = e \/ Superseded(e, b)
      BY <2>1 DEF ConfirmedPasswordStands, Superseded
    <3>. QED  BY <1>1, <2>2, <2>3, <3>1
  <2>4. CASE d # c
    <3>1. InProgress(d) /\ call[d].kind = "change" /\ call[d].account = b
          /\ call'[d].stored = call[d].stored
      BY <1>1, <2>4 DEF InProgress, Same
    <3>2. call[d].stored = e \/ d \in call[e].met \/ Superseded(e, b)
      BY <2>1, <3>1 DEF ChangeReadsLast
    <3>. QED  BY <1>1, <2>1, <2>2, <3>1, <3>2
  <2>. QED  BY <2>3, <2>4
<1>6. LoginReadsCurrent'
  <2> SUFFICES ASSUME NEW d \in Calls, NEW b \in Accounts,
                      InProgress(d)', call'[d].kind \in Logins, call'[d].account = b,
                      NEW k, k = call'[d].kind
               PROVE  /\ call'[d].open => Open(k, b)' \/ MetConfirmed(d, "remove", b)'
                      /\ password'[b] = call'[d].stored \/ MetConfirmed(d, "change", b)'
    BY DEF LoginReadsCurrent, Open
  <2>0. Open(k, b)' <=> Open(k, b)
    BY <1>1 DEF Open
  <2>1. CASE d = c
    BY <1>1, <2>0, <2>1
  <2>2. CASE d # c
    <3>1. /\ InProgress(d) /\ call'[d].kind = call[d].kind /\ call'[d].account = call[d].account
          /\ call'[d].open = call[d].open /\ call'[d].stored = call[d].stored
          /\ call[d].met \subseteq call'[d].met
      BY <1>1, <2>2 DEF InProgress, Same
    <3>2. /\ MetConfirmed(d, "remove", b) => MetConfirmed(d, "remove", b)'
          /\ MetConfirmed(d, "change", b) => MetConfirmed(d, "change", b)'
      BY <1>2, <3>1, MetConfirmedStays
    <3>3. /\ call[d].open => Open(call[d].kind, b) \/ MetConfirmed(d, "remove", b)
          /\ password[b] = call[d].stored \/ MetConfirmed(d, "change", b)
      BY <3>1 DEF LoginReadsCurrent
    <3>. QED  BY <1>1, <2>0, <3>1, <3>2, <3>3
  <2>. QED  BY <2>1, <2>2
<1>7. ConfirmedPasswordStands'
  <2> SUFFICES ASSUME NEW e \in Calls, NEW b \in Accounts, Confirmed(e, "change", b)'
               PROVE  password[b] = e \/ Superseded(e, b)'
    BY <1>1 DEF ConfirmedPasswordStands, Superseded
  <2>1. e # c /\ Confirmed(e, "change", b) /\ call[e].pc = "done"
    BY <1>1 DEF Confirmed, Same
  <2>2. password[b] = e \/ Superseded(e, b)
    BY <2>1 DEF ConfirmedPasswordStands, Superseded
  <2>. QED  BY <1>2, <2>1, <2>2, SupersededStays
<1>8. StaleTokenNeedsOverlap'
  <2> SUFFICES ASSUME NEW d \in Calls, NEW b, b = call'[d].account, call'[d].stale
               PROVE  MetConfirmed(d, "remove", b)' \/ MetConfirmed(d, "change", b)'
    BY DEF StaleTokenNeedsOverlap, MetConfirmed
  <2>1. d # c
    BY <1>1
  <2>2. call[d].stale /\ call'[d].account = call[d].account /\ call[d].met \subseteq call'[d].met
    BY <1>1, <2>1 DEF Same
  <2>3. MetConfirmed(d, "remove", b) \/ MetConfirmed(d, "change", b)
    BY <2>2 DEF StaleTokenNeedsOverlap, MetConfirmed
  <2>. QED  BY <1>2, <2>2, <2>3, MetConfirmedStays
<1>. QED  BY <1>1, <1>3, <1>4, <1>5, <1>6, <1>7, <1>8

\* A handler that is refused leaves the row, and nobody relies on it.
LEMMA RefuseInv ==
    ASSUME AccessInv, NEW c \in Calls, InProgress(c), Refuse(c)
    PROVE  AccessInv'
<1> USE DEF AccessInv
<1>1. /\ AccessTypeOK'
      /\ call'[c].pc = "refused" /\ call'[c].stale = FALSE
      /\ \A d \in Calls \ {c} : Same(d) /\ call'[d].met = call[d].met
      /\ UNCHANGED <<standing, password, tokens>>
  BY RefuseEffect
<1>2. call[c].pc = "busy" /\ Stable
  BY <1>1 DEF Stable, InProgress
<1>3. InProgressMet' /\ KnownExist'
  BY <1>1 DEF InProgressMet, KnownExist, InProgress, Same
<1>4. ASSUME NEW d \in Calls, NEW kind, NEW b, MetConfirmed(d, kind, b), d # c
      PROVE  MetConfirmed(d, kind, b)'
  BY <1>1, <1>2, <1>4, MetConfirmedStays
<1>5. ASSUME NEW e \in Calls, NEW b, Confirmed(e, "change", b)'
      PROVE  e # c /\ Confirmed(e, "change", b) /\ (Superseded(e, b) => Superseded(e, b)')
  <2>1. e # c /\ Confirmed(e, "change", b)
    BY <1>1, <1>5 DEF Confirmed, Same
  <2>. QED  BY <1>2, <2>1, SupersededStays DEF Confirmed
<1>6. ChangeReadsLast'
  BY <1>1, <1>5 DEF ChangeReadsLast, InProgress, Same
<1>7. LoginReadsCurrent'
  <2> SUFFICES ASSUME NEW d \in Calls, NEW b \in Accounts,
                      InProgress(d)', call'[d].kind \in Logins, call'[d].account = b,
                      NEW k, k = call'[d].kind
               PROVE  /\ call'[d].open => Open(k, b)' \/ MetConfirmed(d, "remove", b)'
                      /\ password'[b] = call'[d].stored \/ MetConfirmed(d, "change", b)'
    BY DEF LoginReadsCurrent, Open
  <2>1. d # c /\ Same(d) /\ InProgress(d) /\ (Open(k, b)' <=> Open(k, b))
    BY <1>1 DEF InProgress, Same, Open
  <2>. QED  BY <1>1, <1>4, <2>1 DEF LoginReadsCurrent, Same
<1>8. ConfirmedPasswordStands'
  <2> SUFFICES ASSUME NEW e \in Calls, NEW b \in Accounts, Confirmed(e, "change", b)'
               PROVE  password'[b] = e \/ Superseded(e, b)'
    BY DEF ConfirmedPasswordStands, Superseded
  <2>1. password[b] = e \/ Superseded(e, b)
    BY <1>5 DEF ConfirmedPasswordStands, Superseded
  <2>. QED  BY <1>1, <1>5, <2>1
<1>9. StaleTokenNeedsOverlap'
  <2> SUFFICES ASSUME NEW d \in Calls, NEW b, b = call'[d].account, call'[d].stale
               PROVE  MetConfirmed(d, "remove", b)' \/ MetConfirmed(d, "change", b)'
    BY DEF StaleTokenNeedsOverlap, MetConfirmed
  <2>1. d # c /\ call[d].stale /\ call[d].account = b
    BY <1>1 DEF Same
  <2>. QED  BY <1>4, <2>1 DEF StaleTokenNeedsOverlap, MetConfirmed
<1>. QED  BY <1>1, <1>3, <1>6, <1>7, <1>8, <1>9

\* A handler that is done: it may change a password only as a change that
\* compared with the row it read, close an account only as a removal, and give
\* a stale token only if it met who made it stale.
LEMMA AnswerInv ==
    ASSUME AccessInv, NEW c \in Calls, InProgress(c), NEW s \in BOOLEAN,
           \/ call' = [call EXCEPT ![c].pc = "done", ![c].stale = s]
           \/ s = call[c].stale /\ Answer(c),
           standing' \in [Accounts -> {"absent", "open", "removed"}],
           password' \in [Accounts -> Passwords], tokens' \subseteq Accounts,
           \A b \in Accounts : standing[b] # "absent" => standing'[b] # "absent",
           \A b \in tokens' : standing'[b] # "absent",
           \A b \in Accounts :
             \/ password'[b] = password[b]
             \/ standing[b] = "absent"
             \/ /\ call[c].kind = "change" /\ call[c].account = b
                /\ call[c].given = call[c].stored,
           call[c].kind = "change" => password'[call[c].account] = c,
           \A b \in Accounts :
             \/ standing'[b] = standing[b]
             \/ standing[b] = "absent"
             \/ call[c].kind = "remove" /\ call[c].account = b,
           s => \/ call[c].stale
                \/ MetConfirmed(c, "remove", call[c].account)
                \/ MetConfirmed(c, "change", call[c].account)
    PROVE  AccessInv'
<1> USE DEF AccessInv
<1>1. /\ call' \in [Calls -> CallStates]
      /\ call'[c].pc = "done" /\ call'[c].stale = s /\ call'[c].kind = call[c].kind
      /\ call'[c].account = call[c].account /\ call'[c].given = call[c].given
      /\ call'[c].met = call[c].met
      /\ \A d \in Calls \ {c} : Same(d) /\ call'[d].met = call[d].met
  BY AnswerEffect
<1>2. AccessTypeOK' /\ call[c].pc = "busy" /\ Stable
  BY <1>1 DEF AccessTypeOK, Stable, InProgress
<1>3. InProgressMet'
  BY <1>1 DEF InProgressMet, InProgress, Same
<1>4. KnownExist'
  <2>1. \A b \in tokens' : standing'[b] # "absent"
    OBVIOUS
  <2>2. ASSUME NEW d \in Calls, InProgress(d)' \/ call'[d].pc = "done",
               call'[d].kind \in Logins \cup {"change"}
        PROVE  standing'[call'[d].account] # "absent"
    <3>1. (InProgress(d) \/ call[d].pc = "done") /\ call[d].kind = call'[d].kind
          /\ call[d].account = call'[d].account
      BY <1>1, <1>2, <2>2 DEF InProgress, Same
    <3>. QED  BY <2>2, <3>1, TypeOfMet DEF KnownExist
  <2>. QED  BY <2>1, <2>2 DEF KnownExist
<1>5. ASSUME NEW d \in Calls, NEW kind, NEW b, MetConfirmed(d, kind, b)
      PROVE  MetConfirmed(d, kind, b)'
  <2>1. call[d].met = call'[d].met
    BY <1>1
  <2>. QED  BY <1>2, <1>5, <2>1, MetConfirmedStays
<1>6. ASSUME NEW e \in Calls, NEW b, e # c, Confirmed(e, "change", b)'
      PROVE  Confirmed(e, "change", b) /\ (Superseded(e, b) => Superseded(e, b)')
  <2>1. Confirmed(e, "change", b)
    BY <1>1, <1>6 DEF Confirmed, Same
  <2>. QED  BY <1>2, <2>1, SupersededStays DEF Confirmed
<1>7. ASSUME NEW d \in Calls, InProgress(d)'
      PROVE  /\ d # c /\ InProgress(d) /\ Same(d) /\ call'[d].met = call[d].met
             /\ c \in call[d].met /\ d \in call[c].met
  BY <1>1, <1>2, <1>7 DEF InProgressMet, InProgress, Same
<1>8. ChangeReadsLast'
  <2> SUFFICES ASSUME NEW e \in Calls, NEW d \in Calls, NEW b \in Accounts,
                      Confirmed(e, "change", b)', InProgress(d)', call'[d].kind = "change",
                      call'[d].account = b
               PROVE  call'[d].stored = e \/ d \in call'[e].met \/ Superseded(e, b)'
    BY DEF ChangeReadsLast
  <2>1. CASE e = c
    BY <1>1, <1>7, <2>1
  <2>2. CASE e # c
    <3>1. call'[e].met = call[e].met
      BY <1>1, <2>2
    <3>2. call[d].stored = e \/ d \in call[e].met \/ Superseded(e, b)
      BY <1>6, <1>7, <2>2 DEF ChangeReadsLast, Same
    <3>. QED  BY <1>6, <1>7, <2>2, <3>1, <3>2 DEF Same
  <2>. QED  BY <2>1, <2>2
<1>9. LoginReadsCurrent'
  <2> SUFFICES ASSUME NEW d \in Calls, NEW b \in Accounts,
                      InProgress(d)', call'[d].kind \in Logins, call'[d].account = b,
                      NEW k, k = call'[d].kind
               PROVE  /\ call'[d].open => Open(k, b)' \/ MetConfirmed(d, "remove", b)'
                      /\ password'[b] = call'[d].stored \/ MetConfirmed(d, "change", b)'
    BY DEF LoginReadsCurrent, Open
  <2>1. /\ call[d].kind = k /\ call[d].account = b /\ InProgress(d)
        /\ call'[d].open = call[d].open /\ call'[d].stored = call[d].stored
        /\ call'[d].met = call[d].met /\ c \in call[d].met /\ standing[b] # "absent"
    BY <1>7 DEF Same, KnownExist
  <2>2. /\ call[d].open => Open(k, b) \/ MetConfirmed(d, "remove", b)
        /\ password[b] = call[d].stored \/ MetConfirmed(d, "change", b)
    BY <2>1 DEF LoginReadsCurrent
  <2>3. CASE call[c].kind = "remove" /\ call[c].account = b
    <3>1. MetConfirmed(d, "remove", b)'
      BY <1>1, <2>1, <2>3 DEF MetConfirmed, Confirmed
    <3>2. password'[b] = password[b]
      BY <2>1, <2>3
    <3>. QED  BY <1>5, <2>1, <2>2, <3>1, <3>2
  <2>4. CASE ~(call[c].kind = "remove" /\ call[c].account = b)
    <3>1. Open(k, b)' <=> Open(k, b)
      BY <2>1, <2>4 DEF Open
    <3>2. password'[b] # password[b] => MetConfirmed(d, "change", b)'
      BY <1>1, <2>1 DEF MetConfirmed, Confirmed
    <3>. QED  BY <1>5, <2>1, <2>2, <3>1, <3>2
  <2>. QED  BY <2>3, <2>4
<1>10. ConfirmedPasswordStands'
  <2> SUFFICES ASSUME NEW e \in Calls, NEW b \in Accounts, Confirmed(e, "change", b)'
               PROVE  password'[b] = e \/ Superseded(e, b)'
    BY DEF ConfirmedPasswordStands, Superseded
  <2>1. CASE e = c
    BY <1>1, <2>1 DEF Confirmed
  <2>2. CASE e # c
    <3>1. Confirmed(e, "change", b) /\ standing[b] # "absent"
      BY <1>6, <2>2 DEF KnownExist, Confirmed
    <3>2. password[b] = e \/ Superseded(e, b)
      BY <3>1 DEF ConfirmedPasswordStands, Superseded
    <3>3. CASE password[b] = e /\ password'[b] # e
      <4>1. call[c].kind = "change" /\ call[c].account = b /\ call[c].given = call[c].stored
        BY <3>1, <3>3
      <4>2. call[c].stored = e \/ c \in call[e].met \/ Superseded(e, b)
        BY <3>1, <4>1 DEF ChangeReadsLast
      <4>3. Confirmed(c, "change", b)' /\ call'[c].given = call[c].given /\ call'[e].met = call[e].met
        BY <1>1, <2>2, <4>1 DEF Confirmed
      <4>. QED  BY <1>6, <2>2, <4>1, <4>2, <4>3 DEF Superseded
    <3>. QED  BY <1>6, <2>2, <3>2, <3>3
  <2>. QED  BY <2>1, <2>2
<1>11. StaleTokenNeedsOverlap'
  <2> SUFFICES ASSUME NEW d \in Calls, NEW b, b = call'[d].account, call'[d].stale
               PROVE  MetConfirmed(d, "remove", b)' \/ MetConfirmed(d, "change", b)'
    BY DEF StaleTokenNeedsOverlap, MetConfirmed
  <2>1. call[d].account = b
    BY <1>1 DEF Same
  <2>2. call[d].stale => MetConfirmed(d, "remove", b) \/ MetConfirmed(d, "change", b)
    BY <2>1 DEF StaleTokenNeedsOverlap, MetConfirmed
  <2>3. call[d].stale \/ (d = c /\ s)
    BY <1>1 DEF Same
  <2>. QED  BY <1>5, <2>1, <2>2, <2>3
<1>. QED  BY <1>2, <1>3, <1>4, <1>8, <1>9, <1>10, <1>11

-----------------------------------------------------------------------------
\* Every step keeps the invariant.
LEMMA NextAccessInv == AccessInv /\ [AccessNext]_accessVars => AccessInv'
<1> SUFFICES ASSUME AccessInv, [AccessNext]_accessVars PROVE AccessInv'
  OBVIOUS
<1> USE DEF AccessInv
<1>1. CASE UNCHANGED accessVars
  BY <1>1 DEF accessVars, AccessTypeOK, InProgressMet, KnownExist, ChangeReadsLast,
              LoginReadsCurrent, ConfirmedPasswordStands, StaleTokenNeedsOverlap,
              InProgress, Confirmed, Superseded, MetConfirmed, Open
<1>2. ASSUME NEW a \in Accounts, TokenExpires(a) PROVE AccessInv'
  <2>1. UNCHANGED <<standing, password, call>> /\ tokens' \subseteq tokens
    BY <1>2 DEF TokenExpires
  <2>. QED  BY <2>1 DEF AccessTypeOK, InProgressMet, KnownExist, ChangeReadsLast,
              LoginReadsCurrent, ConfirmedPasswordStands, StaleTokenNeedsOverlap,
              InProgress, Confirmed, Superseded, MetConfirmed, Open
<1>3. ASSUME NEW c \in Calls, NEW a \in Accounts, NEW given \in {password[a], Wrong},
             LoginRead(c, a, given) \/ ChangeRead(c, a, given)
      PROVE  AccessInv'
  <2>1. given \in Passwords \cup {Wrong}
    BY DEF AccessTypeOK
  <2>2. CASE LoginRead(c, a, given)
    BY <2>1, <2>2, ReadInv DEF LoginRead, Kinds
  <2>3. CASE ChangeRead(c, a, given)
    <3>1. standing[a] # "absent" /\ "change" \in Kinds
      BY <2>3 DEF ChangeRead, KnownExist, Kinds
    <3>. QED  BY <2>1, <2>3, <3>1, ReadInv DEF ChangeRead
  <2>. QED  BY <1>3, <2>2, <2>3
<1>4. ASSUME NEW c \in Calls, NEW m \in Managers, NEW a \in Accounts,
             CreateBegin(c, m, a) \/ RemoveRead(c, m, a)
      PROVE  AccessInv'
  <2>1. Initial \in Passwords \cup {Wrong}
    BY DEF Passwords
  <2>. QED  BY <1>4, <2>1, ReadInv DEF CreateBegin, RemoveRead, Kinds, Logins
<1>5. ASSUME NEW c \in Calls, LoginAnswer(c) PROVE AccessInv'
  <2>1. InProgress(c) /\ call[c].kind \in Logins
    BY <1>5 DEF LoginAnswer, Logins
  <2>2. CASE ~Admitted(c)
    BY <1>5, <2>1, <2>2, RefuseInv DEF LoginAnswer
  <2>3. CASE Admitted(c)
    <3> DEFINE a == call[c].account
               s == ~Open(call[c].kind, a) \/ password[a] # call[c].given
    <3>1. /\ tokens' = tokens \cup {a} /\ UNCHANGED <<standing, password>>
          /\ call' = [call EXCEPT ![c].pc = "done", ![c].stale = s]
      BY <1>5, <2>3 DEF LoginAnswer
    <3>2. a \in Accounts /\ standing[a] # "absent"
      BY <2>1, TypeOfMet DEF KnownExist
    <3>3. s => MetConfirmed(c, "remove", a) \/ MetConfirmed(c, "change", a)
      BY <2>1, <2>3, <3>2 DEF Admitted, LoginReadsCurrent
    <3>4. s \in BOOLEAN /\ call[c].kind # "change"
      BY <2>1 DEF Open, Logins
    <3>5. \A b \in tokens' : standing'[b] # "absent"
      BY <3>1, <3>2 DEF KnownExist
    <3>6. tokens' \subseteq Accounts
      BY <3>1, <3>2 DEF AccessTypeOK
    <3> HIDE DEF a, s
    <3>7. call[c].account = a
      BY DEF a
    <3>. QED  BY <2>1, <3>1, <3>3, <3>4, <3>5, <3>6, <3>7, AnswerInv DEF AccessTypeOK
  <2>. QED  BY <2>2, <2>3
<1>6. ASSUME NEW c \in Calls, ChangeWrite(c) PROVE AccessInv'
  <2>1. InProgress(c) /\ call[c].kind = "change"
    BY <1>6 DEF ChangeWrite
  <2>2. CASE ~OldPassValid(call[c].given, call[c].stored)
    BY <1>6, <2>1, <2>2, RefuseInv DEF ChangeWrite
  <2>3. CASE OldPassValid(call[c].given, call[c].stored)
    <3>1. /\ password' = [password EXCEPT ![call[c].account] = c]
          /\ Answer(c) /\ UNCHANGED <<standing, tokens>> /\ call[c].given = call[c].stored
      BY <1>6, <2>3 DEF ChangeWrite, OldPassValid
    <3>2. call[c].stale \in BOOLEAN /\ call[c].account \in Accounts
      BY DEF AccessTypeOK, CallStates
    <3>3. password' \in [Accounts -> Passwords] /\ password'[call[c].account] = c
          /\ \A b \in Accounts : password'[b] = password[b] \/ b = call[c].account
      BY <3>1, <3>2 DEF AccessTypeOK, Passwords
    <3>4. standing' \in [Accounts -> {"absent", "open", "removed"}] /\ tokens' \subseteq Accounts
      BY <3>1 DEF AccessTypeOK
    <3>5. \A b \in tokens' : standing'[b] # "absent"
      BY <3>1 DEF KnownExist
    <3>. QED  BY <2>1, <3>1, <3>2, <3>3, <3>4, <3>5, AnswerInv
  <2>. QED  BY <2>2, <2>3
<1>7. ASSUME NEW c \in Calls, CreateInsert(c) PROVE AccessInv'
  <2>1. InProgress(c) /\ call[c].kind = "create"
    BY <1>7 DEF CreateInsert
  <2>2. CASE standing[call[c].account] # "absent"
    BY <1>7, <2>1, <2>2, RefuseInv DEF CreateInsert
  <2>3. CASE standing[call[c].account] = "absent"
    <3>1. /\ standing' = [standing EXCEPT ![call[c].account] = "open"]
          /\ password' = [password EXCEPT ![call[c].account] = c]
          /\ Answer(c) /\ UNCHANGED tokens
      BY <1>7, <2>3 DEF CreateInsert
    <3>2. call[c].stale \in BOOLEAN /\ call[c].account \in Accounts
      BY DEF AccessTypeOK, CallStates
    <3>3. password' \in [Accounts -> Passwords]
          /\ \A b \in Accounts : password'[b] = password[b] \/ standing[b] = "absent"
      BY <2>3, <3>1, <3>2 DEF AccessTypeOK, Passwords
    <3>4. standing' \in [Accounts -> {"absent", "open", "removed"}] /\ tokens' \subseteq Accounts
          /\ \A b \in Accounts : standing[b] # "absent" => standing'[b] = standing[b]
      BY <2>3, <3>1, <3>2 DEF AccessTypeOK
    <3>5. \A b \in tokens' : standing'[b] # "absent"
      BY <3>1, <3>4 DEF KnownExist, AccessTypeOK
    <3>. QED  BY <2>1, <3>1, <3>2, <3>3, <3>4, <3>5, AnswerInv
  <2>. QED  BY <2>2, <2>3
<1>8. ASSUME NEW c \in Calls, RemoveWrite(c) PROVE AccessInv'
  <2>1. InProgress(c) /\ call[c].kind = "remove"
    BY <1>8 DEF RemoveWrite
  <2>2. /\ standing' = [standing EXCEPT ![call[c].account] = "removed"]
        /\ Answer(c) /\ UNCHANGED <<password, tokens>>
    BY <1>8 DEF RemoveWrite
  <2>3. call[c].stale \in BOOLEAN /\ call[c].account \in Accounts
    BY DEF AccessTypeOK, CallStates
  <2>4. standing' \in [Accounts -> {"absent", "open", "removed"}]
        /\ \A b \in Accounts : standing'[b] = standing[b] \/ (b = call[c].account /\ standing'[b] = "removed")
    BY <2>2, <2>3 DEF AccessTypeOK
  <2>5. \A b \in tokens' : standing'[b] # "absent"
    BY <2>2, <2>4 DEF KnownExist, AccessTypeOK
  <2>. QED  BY <2>1, <2>2, <2>3, <2>4, <2>5, AnswerInv DEF AccessTypeOK
<1>9. ASSUME NEW c \in Calls, CallFails(c) PROVE AccessInv'
  BY <1>9, RefuseInv DEF CallFails
<1>. QED  BY <1>1, <1>2, <1>3, <1>4, <1>5, <1>6, <1>7, <1>8, <1>9 DEF AccessNext

\* The invariant holds in every reachable state.
LEMMA AccessInvariant == AccessSpec => []AccessInv
<1>. QED  BY InitAccessInv, NextAccessInv, PTL DEF AccessSpec

\* Accounts, passwords, tokens and handlers keep their types.
THEOREM AccessTypeCorrect == AccessSpec => []AccessTypeOK
<1>1. AccessInv => AccessTypeOK
  BY DEF AccessInv
<1>. QED  BY AccessInvariant, <1>1, PTL

\* A confirmed change of a password is undone only by a change that was given
\* it, or one of the account that was in progress together with it.
THEOREM PasswordChangeStands == AccessSpec => []ConfirmedPasswordStands
<1>1. AccessInv => ConfirmedPasswordStands
  BY DEF AccessInv
<1>. QED  BY AccessInvariant, <1>1, PTL

\* A token that is stale when it is issued comes from a login that overlapped
\* with the removal or the change that made it so.
THEOREM StaleTokensOverlap == AccessSpec => []StaleTokenNeedsOverlap
<1>1. AccessInv => StaleTokenNeedsOverlap
  BY DEF AccessInv
<1>. QED  BY AccessInvariant, <1>1, PTL

-----------------------------------------------------------------------------
(* BrowserSession: the invariant                                           *)

\* An interval that was displaced, or that goes on, was running at a second press.
AttemptOK(i, a) ==
    /\ a \in AttemptStates
    /\ a.ticking \/ a.repeated => a.overrun
    /\ a.pc = "scan" /\ a.ref # i => a.overrun
    /\ a.pc = "granted" => a.user \in Users

AttemptsOK == /\ attempt \in [Attempts -> AttemptStates]
              /\ \A i \in Attempts : AttemptOK(i, attempt[i])

CallOK(ask) == ask \in Waiting /\ (ask.user = Nobody => ask = NoCall)

\* What waits for an answer is of somebody.
CallsAreOfSomebody ==
    /\ CallOK(credentials)
    /\ asked \in [Asks -> Waiting] /\ \A k \in Asks : CallOK(asked[k])
    /\ changing \in Sessions /\ (changing.user = Nobody => changing = NoSession)

\* Nobody is behind the guard whom it blocks.
GuardHolds ==
    /\ location # "login" => session.user # Nobody
    /\ location = "dashboard" => ~Blocked(session)

\* Whatever will act on the session is of the user identified last.
WaitsForTheLast ==
    /\ Outstanding \subseteq {last}
    /\ (\A i \in Attempts : attempt[i].pc # "granted") => session.user \in {Nobody, last}
    /\ asked["skip"].user # Nobody => session.user = asked["skip"].user

\* A session that the guard admits, or will admit, is of somebody checked.
AreCleared ==
    /\ \A i \in Attempts : attempt[i].pc = "granted" => attempt[i].user \in cleared
    /\ changing.user # Nobody => changing.user \in cleared
    /\ session.user # Nobody /\ ~Blocked(session) => session.user \in cleared

Follows == crossed \/ (WaitsForTheLast /\ AreCleared)

Panels == [mode : {"select", "credentials", "choose", "face", "finger",
                   "direct_face", "direct_finger"},
           pending : Somebody, face : {"idle", "verifying", "success", "error"},
           print : {"idle", "success"}]

RestOK ==
    /\ session \in Sessions
    /\ page \in Panels
    /\ gate \in [face : BOOLEAN, finger : BOOLEAN, done : BOOLEAN]
    /\ location \in {"login", "setup", "dashboard"}
    /\ departing \in BOOLEAN
    /\ enrolled \in [Users -> [face : BOOLEAN, finger : Prints]]
    /\ started \in 0..MaxRequests

HistoryOK == last \in Somebody /\ cleared \subseteq Users /\ crossed \in BOOLEAN

SessionInv == AttemptsOK /\ CallsAreOfSomebody /\ GuardHolds /\ RestOK /\ HistoryOK /\ Follows

LEMMA SessionInvIsTyped == SessionInv => SessionTypeOK
BY DEF SessionInv, SessionTypeOK, AttemptsOK, CallsAreOfSomebody, CallOK, RestOK, HistoryOK, Panels

-----------------------------------------------------------------------------
(* Records                                                                 *)

Stages == {"new", "scan", "sent", "granted", "refused", "done"}

LEMMA AttemptFields ==
  \A a \in AttemptStates :
    /\ a.pc \in Stages /\ a.user \in Somebody /\ a.claimed \in Somebody /\ a.ref \in Attempts
    /\ a.live \in BOOLEAN /\ a.ticking \in BOOLEAN /\ a.overrun \in BOOLEAN /\ a.repeated \in BOOLEAN
BY Zenon DEF AttemptStates, Stages

LEMMA NewAttemptOK ==
  ASSUME NEW i \in Attempts
  PROVE  /\ AttemptOK(i, NewAttempt(i))
         /\ AttemptOK(i, [NewAttempt(i) EXCEPT !.pc = "done"])
<1> DEFINE done == [NewAttempt(i) EXCEPT !.pc = "done"]
<1>1. NewAttempt(i) \in AttemptStates
  BY Zenon DEF NewAttempt, AttemptStates, Somebody
<1>2. done \in AttemptStates
  BY Zenon DEF NewAttempt, AttemptStates, Somebody
<1>3. /\ NewAttempt(i).pc = "new" /\ NewAttempt(i).ticking = FALSE /\ NewAttempt(i).repeated = FALSE
      /\ done.pc = "done" /\ done.ticking = FALSE /\ done.repeated = FALSE
  BY Zenon DEF NewAttempt
<1> HIDE DEF done
<1> QED  BY <1>1, <1>2, <1>3 DEF AttemptOK, done

\* A check takes its next step and goes on as it was otherwise.
LEMMA AttemptStage ==
  ASSUME NEW i \in Attempts, NEW a, AttemptOK(i, a),
         NEW pc \in {"new", "sent", "refused", "done"}
  PROVE  LET b == [a EXCEPT !.pc = pc]
         IN  AttemptOK(i, b) /\ b.pc = pc /\ b.user = a.user
<1> DEFINE b == [a EXCEPT !.pc = pc]
<1>1. a \in AttemptStates
  BY DEF AttemptOK
<1>2. b \in AttemptStates
  BY <1>1, Zenon DEF AttemptStates
<1>3. b.pc = pc /\ b.user = a.user
  BY <1>1 DEF AttemptStates
<1>4. b.ticking = a.ticking /\ b.repeated = a.repeated /\ b.overrun = a.overrun
  BY <1>1, Zenon DEF AttemptStates
<1> HIDE DEF b
<1> QED  BY <1>2, <1>3, <1>4 DEF AttemptOK, b

LEMMA AttemptGranted ==
  ASSUME NEW i \in Attempts, NEW a, AttemptOK(i, a), NEW u \in Users
  PROVE  LET b == [a EXCEPT !.pc = "granted", !.user = u]
         IN  AttemptOK(i, b) /\ b.pc = "granted" /\ b.user = u
<1> DEFINE b == [a EXCEPT !.pc = "granted", !.user = u]
<1>1. a \in AttemptStates /\ u \in Somebody
  BY DEF AttemptOK, Somebody
<1>2. b \in AttemptStates
  BY <1>1, Zenon DEF AttemptStates
<1>3. b.pc = "granted" /\ b.user = u
  BY <1>1 DEF AttemptStates
<1>4. b.ticking = a.ticking /\ b.repeated = a.repeated /\ b.overrun = a.overrun
  BY <1>1, Zenon DEF AttemptStates
<1> HIDE DEF b
<1> QED  BY <1>2, <1>3, <1>4 DEF AttemptOK, b

LEMMA AttemptLost ==
  ASSUME NEW i \in Attempts, NEW a, AttemptOK(i, a)
  PROVE  LET b == [a EXCEPT !.live = FALSE]
         IN  AttemptOK(i, b) /\ b.pc = a.pc /\ b.user = a.user
<1> DEFINE b == [a EXCEPT !.live = FALSE]
<1>1. a \in AttemptStates
  BY DEF AttemptOK
<1>2. b \in AttemptStates
  BY <1>1, Zenon DEF AttemptStates
<1>3. b.pc = a.pc /\ b.user = a.user /\ b.ref = a.ref
  BY <1>1 DEF AttemptStates
<1>4. b.ticking = a.ticking /\ b.repeated = a.repeated /\ b.overrun = a.overrun
  BY <1>1, Zenon DEF AttemptStates
<1> HIDE DEF b
<1> QED  BY <1>2, <1>3, <1>4 DEF AttemptOK, b

\* A check that ended goes on only as an interval that was displaced.
LEMMA AttemptEnded ==
  ASSUME NEW i \in Attempts, AttemptOK(i, attempt[i])
  PROVE  AttemptOK(i, Ended(i)) /\ Ended(i).pc = "done"
<1> DEFINE a == attempt[i]
           b == [a EXCEPT !.pc = "done", !.user = Nobody]
<1>1. a \in AttemptStates /\ Nobody \in Somebody
  BY DEF AttemptOK, Somebody
<1>2. b \in AttemptStates
  BY <1>1, Zenon DEF AttemptStates
<1>3. b.pc = "done"
  BY <1>1 DEF AttemptStates
<1>4. b.ticking = a.ticking /\ b.repeated = a.repeated /\ b.overrun = a.overrun
  BY <1>1, Zenon DEF AttemptStates
<1>5. AttemptOK(i, b)
  <2> HIDE DEF b
  <2> QED  BY <1>2, <1>3, <1>4 DEF AttemptOK
<1>6. [NewAttempt(i) EXCEPT !.pc = "done"].pc = "done"
  BY DEF NewAttempt
<1>7. Ended(i) = b \/ Ended(i) = [NewAttempt(i) EXCEPT !.pc = "done"]
  BY DEF Ended
<1> HIDE DEF b
<1> QED  BY <1>3, <1>5, <1>6, <1>7, NewAttemptOK

LEMMA CallLost ==
  ASSUME NEW ask, CallOK(ask)
  PROVE  LET b == [ask EXCEPT !.live = FALSE] IN CallOK(b) /\ b.user = ask.user
<1> DEFINE b == [ask EXCEPT !.live = FALSE]
<1>1. ask \in Waiting
  BY DEF CallOK
<1>2. b \in Waiting
  BY <1>1, Zenon DEF Waiting
<1>3. b.user = ask.user
  BY <1>1 DEF Waiting
<1>4. ask = NoCall => b = NoCall
  <2>1. ASSUME NEW f PROVE [[user |-> Nobody, live |-> f] EXCEPT !.live = f] = [user |-> Nobody, live |-> f]
    OBVIOUS
  <2>2. [NoCall EXCEPT !.live = FALSE] = NoCall
    BY <2>1, Zenon DEF NoCall
  <2> QED  BY <2>2
<1> HIDE DEF b
<1> QED  BY <1>2, <1>3, <1>4 DEF CallOK, b

LEMMA CallOfUser == ASSUME NEW u \in Users PROVE CallOK([user |-> u, live |-> TRUE])
<1>1. [user |-> u, live |-> TRUE] \in Waiting
  BY Zenon DEF Waiting, Somebody
<1> QED  BY <1>1, SessionAssumption DEF CallOK

LEMMA NoCallOK == CallOK(NoCall) /\ NoCall.user = Nobody
<1>1. NoCall \in Waiting
  BY Zenon DEF Waiting, Somebody, NoCall
<1> QED  BY <1>1 DEF CallOK, NoCall

LEMMA NoSessionOK == NoSession \in Sessions /\ NoSession.user = Nobody /\ Blocked(NoSession)
<1>1. NoSession \in Sessions
  BY Zenon DEF Sessions, NoSession, Somebody
<1> QED  BY <1>1 DEF NoSession, Blocked

LEMMA LoggedInOK ==
  ASSUME NEW u \in Users, NEW face \in BOOLEAN, NEW method \in {"PASSWORD", "FACE", "FINGERPRINT"}
  PROVE  LET s == LoggedIn(u, face, method)
         IN  s \in Sessions /\ s.user = u /\ (method = "PASSWORD" /\ ~face => Blocked(s))
<1> DEFINE s == LoggedIn(u, face, method)
<1>1. s \in Sessions
  BY Zenon DEF Sessions, LoggedIn, Somebody
<1>2. s.user = u /\ s.method = method
  BY DEF LoggedIn
<1>3. s.face = face /\ s.skipped = FALSE
  BY Zenon DEF LoggedIn
<1> HIDE DEF s
<1> QED  BY <1>1, <1>2, <1>3 DEF Blocked, s

LEMMA SessionFields ==
  \A s \in Sessions : s.user \in Somebody /\ s.face \in BOOLEAN /\ s.skipped \in BOOLEAN
                      /\ s.method \in {"PASSWORD", "FACE", "FINGERPRINT"}
BY Zenon DEF Sessions

LEMMA ArriveFacts ==
  ASSUME NEW to \in {"login", "setup", "dashboard"}, NEW s \in Sessions
  PROVE  /\ Arrive(to, s) \in {"login", "setup", "dashboard"}
         /\ Arrive(to, s) # "login" => s.user # Nobody
         /\ Arrive(to, s) = "dashboard" => ~Blocked(s)
BY DEF Arrive

\* A navigation changes no check and no request but that they lose their page.
LEMMA GoEffect ==
  ASSUME NEW to \in {"login", "setup", "dashboard"}, NEW s \in Sessions, NEW att, NEW cred, NEW ask,
         \A i \in Attempts : AttemptOK(i, att[i]),
         CallOK(cred), \A k \in Asks : CallOK(ask[k]),
         RestOK, Go(to, s, att, cred, ask)
  PROVE  /\ AttemptsOK' /\ \A i \in Attempts : attempt'[i].pc = att[i].pc /\ attempt'[i].user = att[i].user
         /\ session' = s /\ session' \in Sessions
         /\ location' \in {"login", "setup", "dashboard"}
         /\ GuardHolds'
         /\ CallOK(credentials)' /\ asked' \in [Asks -> Waiting] /\ \A k \in Asks : CallOK(asked[k])'
         /\ \A k \in Asks : asked'[k].user = ask[k].user
         /\ page' \in Panels
         /\ gate' \in [face : BOOLEAN, finger : BOOLEAN, done : BOOLEAN]
<1> DEFINE moved == to # location \/ Arrive(to, s) # location
           Lost(r) == IF moved THEN [r EXCEPT !.live = FALSE] ELSE r
<1>1. /\ session' = s /\ location' = Arrive(to, s)
      /\ page' = IF moved THEN FreshPage ELSE page
      /\ gate' = IF moved THEN FreshGate ELSE gate
      /\ attempt' = [i \in Attempts |-> Lost(att[i])]
      /\ credentials' = Lost(cred)
      /\ asked' = [k \in Asks |-> Lost(ask[k])]
  BY DEF Go
<1>2. ASSUME NEW i \in Attempts
      PROVE  AttemptOK(i, Lost(att[i])) /\ Lost(att[i]).pc = att[i].pc /\ Lost(att[i]).user = att[i].user
  <2>1. AttemptOK(i, att[i])
    OBVIOUS
  <2>2. CASE moved
    <3> HIDE DEF moved
    <3> QED  BY <2>1, <2>2, AttemptLost
  <2>3. CASE ~moved
    BY <2>1, <2>3
  <2> QED  BY <2>2, <2>3
<1>3. ASSUME NEW c, CallOK(c) PROVE CallOK(Lost(c)) /\ Lost(c).user = c.user
  <2>1. CASE moved
    <3> HIDE DEF moved
    <3> QED  BY <1>3, <2>1, CallLost
  <2>2. CASE ~moved
    BY <1>3, <2>2
  <2> QED  BY <2>1, <2>2
<1>4. FreshPage \in Panels
  BY DEF FreshPage, Somebody, Panels
<1>5. FreshGate \in [face : BOOLEAN, finger : BOOLEAN, done : BOOLEAN]
  BY Zenon DEF FreshGate
<1>6. /\ location' \in {"login", "setup", "dashboard"} /\ GuardHolds'
  BY <1>1, ArriveFacts DEF GuardHolds, Blocked
<1> HIDE DEF Lost, moved
<1>7. /\ AttemptsOK'
      /\ \A i \in Attempts : attempt'[i].pc = att[i].pc /\ attempt'[i].user = att[i].user
  <2>1. \A i \in Attempts : Lost(att[i]) \in AttemptStates
    BY <1>2 DEF AttemptOK
  <2>2. attempt' \in [Attempts -> AttemptStates] /\ \A i \in Attempts : attempt'[i] = Lost(att[i])
    BY <1>1, <2>1
  <2>3. \A i \in Attempts : AttemptOK(i, attempt'[i])
    BY <1>2, <2>2
  <2> QED  BY <1>2, <2>2, <2>3 DEF AttemptsOK, AttemptOK
<1>8. /\ asked' \in [Asks -> Waiting] /\ \A k \in Asks : CallOK(asked[k])'
      /\ \A k \in Asks : asked'[k].user = ask[k].user
  <2>1. \A k \in Asks : CallOK(Lost(ask[k])) /\ Lost(ask[k]).user = ask[k].user
    BY <1>3
  <2>2. \A k \in Asks : asked'[k] = Lost(ask[k])
    BY <1>1
  <2>3. \A k \in Asks : Lost(ask[k]) \in Waiting
    BY <2>1 DEF CallOK
  <2>4. asked' \in [Asks -> Waiting]
    BY <1>1, <2>3
  <2> QED  BY <2>1, <2>2, <2>4 DEF CallOK
<1>9. CallOK(credentials)'
  BY <1>1, <1>3 DEF CallOK
<1> QED  BY <1>1, <1>4, <1>5, <1>6, <1>7, <1>8, <1>9 DEF RestOK

-----------------------------------------------------------------------------
(* Histories                                                               *)

LEMMA OutstandingIs ==
  \A u : u \in Outstanding <=> \/ \E i \in Attempts : attempt[i].pc = "granted" /\ attempt[i].user = u
                               \/ u # Nobody /\ (u = changing.user \/ u = asked["skip"].user)
BY DEF Outstanding

\* Nothing new waits, nothing acts.
LEMMA NothingActs ==
  ASSUME SessionInv, UNCHANGED history, session' = session,
         \A i \in Attempts : attempt'[i].pc = "granted" <=> attempt[i].pc = "granted",
         \A i \in Attempts : attempt[i].pc = "granted" => attempt'[i].user = attempt[i].user,
         changing'.user \in {changing.user, Nobody},
         asked'["skip"].user \in {asked["skip"].user, Nobody}
  PROVE  Follows' /\ HistoryOK'
<1>1. last' = last /\ cleared' = cleared /\ crossed' = crossed
  BY DEF history
<1>2. HistoryOK'
  BY <1>1 DEF SessionInv, HistoryOK
<1>3. CASE crossed
  BY <1>1, <1>2, <1>3 DEF Follows
<1>4. CASE ~crossed
  <2>1. WaitsForTheLast /\ AreCleared
    BY <1>4 DEF SessionInv, Follows
  <2>2. Outstanding' \subseteq Outstanding
    <3> SUFFICES ASSUME NEW u \in Outstanding' PROVE u \in Outstanding
      OBVIOUS
    <3>1. \/ \E i \in Attempts : attempt'[i].pc = "granted" /\ attempt'[i].user = u
          \/ u # Nobody /\ (u = changing'.user \/ u = asked'["skip"].user)
      BY DEF Outstanding
    <3>2. CASE \E i \in Attempts : attempt'[i].pc = "granted" /\ attempt'[i].user = u
      BY <3>2, OutstandingIs
    <3>3. CASE u # Nobody /\ (u = changing'.user \/ u = asked'["skip"].user)
      BY <3>3, OutstandingIs
    <3> QED  BY <3>1, <3>2, <3>3
  <2>3. WaitsForTheLast'
    BY <1>1, <2>1, <2>2 DEF WaitsForTheLast
  <2>4. AreCleared'
    BY <1>1, <2>1 DEF AreCleared, Blocked
  <2> QED  BY <1>2, <2>3, <2>4 DEF Follows
<1> QED  BY <1>3, <1>4

\* Somebody acts: from here on it is all about this user, or histories end.
LEMMA RecordsEffect ==
  ASSUME HistoryOK, NEW u, NEW who \in Somebody, NEW whom \in SUBSET Users, Records(u, who, whom)
  PROVE  /\ HistoryOK'
         /\ ~crossed' => /\ ~crossed /\ Outstanding \subseteq {u}
                         /\ last' = who /\ cleared' = whom
<1> DEFINE crossing == crossed \/ Outstanding \ {u} # {}
<1>1. /\ crossed' = crossing
      /\ last' = IF crossing THEN Nobody ELSE who
      /\ cleared' = IF crossing THEN {} ELSE whom
  BY DEF Records
<1>2. crossing \in BOOLEAN
  BY DEF HistoryOK
<1>3. ~crossing => ~crossed /\ Outstanding \subseteq {u}
  OBVIOUS
<1> HIDE DEF crossing
<1> QED  BY <1>1, <1>2, <1>3 DEF HistoryOK, Somebody

LEMMA GrantedIsOutstanding ==
  ASSUME NEW i \in Attempts, attempt[i].pc = "granted" PROVE attempt[i].user \in Outstanding
BY OutstandingIs

\* Whoever acts with a session is who was identified last.
LEMMA ActorIsLast ==
  ASSUME SessionInv, ~crossed, session.user # Nobody, Outstanding \subseteq {session.user}
  PROVE  session.user = last
<1>1. WaitsForTheLast
  BY DEF SessionInv, Follows
<1>2. CASE \E i \in Attempts : attempt[i].pc = "granted"
  BY <1>1, <1>2, GrantedIsOutstanding DEF WaitsForTheLast
<1>3. CASE \A i \in Attempts : attempt[i].pc # "granted"
  BY <1>1, <1>3 DEF WaitsForTheLast
<1> QED  BY <1>2, <1>3

LEMMA InitSessionInv == SessionInit => SessionInv
<1> SUFFICES ASSUME SessionInit PROVE SessionInv
  OBVIOUS
<1>1. /\ location = "login" /\ session = NoSession /\ page = FreshPage /\ gate = FreshGate
      /\ attempt = [i \in Attempts |-> NewAttempt(i)] /\ credentials = NoCall
      /\ asked = [k \in Asks |-> NoCall] /\ changing = NoSession /\ departing = FALSE
      /\ enrolled \in [Users -> [face : BOOLEAN, finger : Prints]]
      /\ last = Nobody /\ cleared = {} /\ crossed = FALSE /\ started = 0
  BY DEF SessionInit
<1>2. AttemptsOK /\ \A i \in Attempts : attempt[i].pc = "new"
  <2>1. \A i \in Attempts : AttemptOK(i, NewAttempt(i)) /\ NewAttempt(i).pc = "new"
    BY NewAttemptOK DEF NewAttempt
  <2> QED  BY <1>1, <2>1 DEF AttemptsOK, AttemptOK
<1>3. CallsAreOfSomebody /\ asked["skip"].user = Nobody
  BY <1>1, NoCallOK, NoSessionOK DEF CallsAreOfSomebody, CallOK, Asks
<1>4. GuardHolds
  BY <1>1 DEF GuardHolds
<1>5. FreshPage \in Panels
  BY DEF FreshPage, Panels, Somebody
<1>6. FreshGate \in [face : BOOLEAN, finger : BOOLEAN, done : BOOLEAN]
  BY Zenon DEF FreshGate
<1>7. RestOK
  <2>1. departing \in BOOLEAN /\ enrolled \in [Users -> [face : BOOLEAN, finger : Prints]]
    BY <1>1, Zenon
  <2>2. location \in {"login", "setup", "dashboard"} /\ started \in 0..MaxRequests
    BY <1>1, SessionAssumption
  <2>3. page \in Panels /\ session \in Sessions
        /\ gate \in [face : BOOLEAN, finger : BOOLEAN, done : BOOLEAN]
    BY <1>1, <1>5, <1>6, NoSessionOK
  <2> QED  BY <2>1, <2>2, <2>3 DEF RestOK
<1>8. HistoryOK
  BY <1>1 DEF HistoryOK, Somebody
<1>9. Outstanding = {}
  BY <1>1, <1>2, <1>3, NoSessionOK, OutstandingIs
<1>10. WaitsForTheLast /\ AreCleared
  BY <1>1, <1>2, <1>3, <1>9, NoSessionOK DEF WaitsForTheLast, AreCleared
<1> QED  BY <1>2, <1>3, <1>4, <1>7, <1>8, <1>10 DEF SessionInv, Follows

-----------------------------------------------------------------------------
(* Steps: the store and the guard                                          *)

\* A navigation that no request and no timer makes.
LEMMA MovesKeep ==
  ASSUME SessionInv, NEW to \in {"login", "setup", "dashboard"},
         Go(to, session, attempt, credentials, asked),
         UNCHANGED <<changing, enrolled, history, started>>, departing' \in BOOLEAN
  PROVE  SessionInv'
<1>1. /\ session \in Sessions /\ RestOK /\ \A i \in Attempts : AttemptOK(i, attempt[i])
      /\ CallOK(credentials) /\ \A k \in Asks : CallOK(asked[k])
      /\ changing \in Sessions /\ (changing.user = Nobody => changing = NoSession)
  BY DEF SessionInv, RestOK, AttemptsOK, CallsAreOfSomebody
<1>2. /\ AttemptsOK' /\ \A i \in Attempts : attempt'[i].pc = attempt[i].pc /\ attempt'[i].user = attempt[i].user
      /\ session' = session
      /\ location' \in {"login", "setup", "dashboard"}
      /\ GuardHolds'
      /\ CallOK(credentials)' /\ asked' \in [Asks -> Waiting] /\ \A k \in Asks : CallOK(asked[k])'
      /\ \A k \in Asks : asked'[k].user = asked[k].user
      /\ page' \in Panels
      /\ gate' \in [face : BOOLEAN, finger : BOOLEAN, done : BOOLEAN]
  BY <1>1, GoEffect
<1>3. CallsAreOfSomebody'
  BY <1>1, <1>2 DEF CallsAreOfSomebody
<1>4. RestOK'
  BY <1>1, <1>2 DEF RestOK
<1>5. Follows' /\ HistoryOK'
  BY <1>2, NothingActs DEF Asks
<1> QED  BY <1>2, <1>3, <1>4, <1>5 DEF SessionInv

LEMMA ReloadKeeps == ASSUME SessionInv, Reload PROVE SessionInv'
<1> DEFINE att == [i \in Attempts |-> IF attempt[i].pc = "new" THEN attempt[i]
                                     ELSE [NewAttempt(i) EXCEPT !.pc = "done"]]
           ask == [k \in Asks |-> NoCall]
<1>1. /\ session \in Sessions /\ RestOK /\ \A i \in Attempts : AttemptOK(i, attempt[i])
      /\ location \in {"login", "setup", "dashboard"} /\ HistoryOK /\ Follows
  BY DEF SessionInv, RestOK, AttemptsOK
<1>2. /\ Go(location, session, att, NoCall, ask)
      /\ changing' = NoSession /\ departing' = FALSE
      /\ last' = IF crossed THEN Nobody ELSE session.user
      /\ enrolled' = enrolled /\ cleared' = cleared /\ crossed' = crossed /\ started' = started
  BY DEF Reload
<1>3. \A i \in Attempts : AttemptOK(i, att[i]) /\ att[i].pc # "granted"
  <2> SUFFICES ASSUME NEW i \in Attempts PROVE AttemptOK(i, att[i]) /\ att[i].pc # "granted"
    OBVIOUS
  <2>1. [NewAttempt(i) EXCEPT !.pc = "done"].pc = "done"
    BY DEF NewAttempt
  <2>2. CASE attempt[i].pc = "new"
    BY <1>1, <2>2
  <2>3. CASE attempt[i].pc # "new"
    <3>1. att[i] = [NewAttempt(i) EXCEPT !.pc = "done"]
      BY <2>3
    <3> QED  BY <2>1, <3>1, NewAttemptOK
  <2> QED  BY <2>2, <2>3
<1>4. CallOK(NoCall) /\ \A k \in Asks : CallOK(ask[k]) /\ ask[k].user = Nobody
  BY NoCallOK
<1> HIDE DEF att, ask
<1>5. /\ AttemptsOK' /\ \A i \in Attempts : attempt'[i].pc = att[i].pc /\ attempt'[i].user = att[i].user
      /\ session' = session
      /\ location' \in {"login", "setup", "dashboard"}
      /\ GuardHolds'
      /\ CallOK(credentials)' /\ asked' \in [Asks -> Waiting] /\ \A k \in Asks : CallOK(asked[k])'
      /\ \A k \in Asks : asked'[k].user = ask[k].user
      /\ page' \in Panels
      /\ gate' \in [face : BOOLEAN, finger : BOOLEAN, done : BOOLEAN]
  BY <1>1, <1>2, <1>3, <1>4, GoEffect
<1>6. CallsAreOfSomebody'
  BY <1>2, <1>5, NoSessionOK DEF CallsAreOfSomebody
<1>7. RestOK'
  BY <1>1, <1>2, <1>5 DEF RestOK
<1>8. HistoryOK'
  BY <1>1, <1>2, SessionFields DEF HistoryOK, Somebody
<1>9. Follows'
  <2> SUFFICES ASSUME ~crossed PROVE WaitsForTheLast' /\ AreCleared'
    BY <1>2 DEF Follows
  <2>1. asked'["skip"].user = Nobody /\ changing'.user = Nobody
        /\ \A i \in Attempts : attempt'[i].pc # "granted"
    BY <1>2, <1>3, <1>4, <1>5, NoSessionOK DEF Asks
  <2>2. Outstanding' = {}
    BY <2>1 DEF Outstanding
  <2>3. last' = session.user
    BY <1>2
  <2> QED  BY <1>1, <1>2, <1>5, <2>1, <2>2, <2>3 DEF WaitsForTheLast, AreCleared, Follows, Blocked
<1> QED  BY <1>5, <1>6, <1>7, <1>8, <1>9 DEF SessionInv

LEMMA LogoutKeeps == ASSUME SessionInv, Logout PROVE SessionInv'
<1>1. /\ RestOK /\ \A i \in Attempts : AttemptOK(i, attempt[i])
      /\ location \in {"login", "setup", "dashboard"} /\ HistoryOK /\ Follows
      /\ CallOK(credentials) /\ \A k \in Asks : CallOK(asked[k])
      /\ changing \in Sessions /\ (changing.user = Nobody => changing = NoSession)
  BY DEF SessionInv, RestOK, AttemptsOK, CallsAreOfSomebody
<1>2. /\ Go(location, NoSession, attempt, credentials, asked)
      /\ Records(Nobody, Nobody, {})
      /\ changing' = changing /\ departing' = departing /\ enrolled' = enrolled /\ started' = started
  BY DEF Logout, LoggedOut
<1>3. /\ AttemptsOK' /\ \A i \in Attempts : attempt'[i].pc = attempt[i].pc /\ attempt'[i].user = attempt[i].user
      /\ session' = NoSession
      /\ location' \in {"login", "setup", "dashboard"}
      /\ GuardHolds'
      /\ CallOK(credentials)' /\ asked' \in [Asks -> Waiting] /\ \A k \in Asks : CallOK(asked[k])'
      /\ \A k \in Asks : asked'[k].user = asked[k].user
      /\ page' \in Panels
      /\ gate' \in [face : BOOLEAN, finger : BOOLEAN, done : BOOLEAN]
  BY <1>1, <1>2, NoSessionOK, GoEffect
<1>4. CallsAreOfSomebody'
  BY <1>1, <1>2, <1>3 DEF CallsAreOfSomebody
<1>5. RestOK'
  BY <1>1, <1>2, <1>3, NoSessionOK DEF RestOK
<1>6. HistoryOK' /\ (~crossed' => Outstanding \subseteq {Nobody})
  BY <1>1, <1>2, RecordsEffect DEF Somebody
<1>7. Follows'
  <2> SUFFICES ASSUME ~crossed' PROVE WaitsForTheLast' /\ AreCleared'
    BY DEF Follows
  <2>1. \A i \in Attempts : attempt[i].pc # "granted"
    BY <1>1, <1>6, SessionAssumption, GrantedIsOutstanding DEF AttemptOK
  <2>2. changing.user = Nobody /\ asked["skip"].user = Nobody
    BY <1>6, OutstandingIs
  <2>3. asked'["skip"].user = Nobody /\ changing'.user = Nobody
        /\ \A i \in Attempts : attempt'[i].pc # "granted"
    BY <1>2, <1>3, <2>1, <2>2 DEF Asks
  <2>4. Outstanding' = {}
    BY <2>3 DEF Outstanding
  <2> QED  BY <1>3, <2>3, <2>4, NoSessionOK DEF WaitsForTheLast, AreCleared
<1> QED  BY <1>3, <1>4, <1>5, <1>6, <1>7 DEF SessionInv

-----------------------------------------------------------------------------
(* Steps: LoginPage                                                        *)

\* A step of the page itself.
LEMMA PageKeeps ==
  ASSUME SessionInv,
         UNCHANGED <<location, session, gate, asked, changing, departing, enrolled>>,
         page' \in Panels, AttemptsOK', CallOK(credentials)', started' \in 0..MaxRequests,
         Follows', HistoryOK'
  PROVE  SessionInv'
<1>1. CallsAreOfSomebody' /\ GuardHolds'
  BY DEF SessionInv, CallsAreOfSomebody, GuardHolds, Blocked
<1>2. RestOK'
  BY DEF SessionInv, RestOK
<1> QED  BY <1>1, <1>2 DEF SessionInv

\* ... that starts or ends no grant.
LEMMA PageActs ==
  ASSUME SessionInv,
         UNCHANGED <<location, session, gate, asked, changing, departing, enrolled, history>>,
         page' \in Panels, AttemptsOK', CallOK(credentials)', started' \in 0..MaxRequests,
         \A i \in Attempts : attempt'[i].pc = "granted" <=> attempt[i].pc = "granted",
         \A i \in Attempts : attempt[i].pc = "granted" => attempt'[i].user = attempt[i].user
  PROVE  SessionInv'
<1>1. Follows' /\ HistoryOK'
  BY NothingActs
<1> QED  BY <1>1, PageKeeps

\* One check changes.
LEMMA OneAttempt ==
  ASSUME AttemptsOK, NEW i \in Attempts, NEW a, AttemptOK(i, a), attempt' = [attempt EXCEPT ![i] = a]
  PROVE  /\ AttemptsOK' /\ attempt'[i] = a
         /\ \A j \in Attempts : j # i => attempt'[j] = attempt[j]
<1>1. a \in AttemptStates /\ attempt \in [Attempts -> AttemptStates]
  BY DEF AttemptOK, AttemptsOK
<1>2. /\ attempt' \in [Attempts -> AttemptStates] /\ attempt'[i] = a
      /\ \A j \in Attempts : j # i => attempt'[j] = attempt[j]
  BY <1>1
<1>3. \A j \in Attempts : AttemptOK(j, attempt'[j])
  BY <1>2 DEF AttemptsOK
<1> QED  BY <1>2, <1>3 DEF AttemptsOK, AttemptOK

LEMMA Counted ==
  ASSUME RestOK
  PROVE  /\ started \in 0..MaxRequests
         /\ Starts => started' \in 0..MaxRequests
BY SessionAssumption DEF RestOK, Starts

LEMMA PanelFields ==
  \A p \in Panels : /\ p.pending \in Somebody /\ p.face \in {"idle", "verifying", "success", "error"}
                    /\ p.print \in {"idle", "success"}
BY DEF Panels

LEMMA ChooseKeeps ==
  ASSUME SessionInv, NEW m \in {"select", "credentials", "choose", "face", "finger",
                                "direct_face", "direct_finger"}, Choose(m)
  PROVE  SessionInv'
<1>1. page \in Panels /\ RestOK /\ AttemptsOK /\ CallOK(credentials)
  BY DEF SessionInv, RestOK, CallsAreOfSomebody
<1>2. \E f, p : page' = [page EXCEPT !.mode = m,
                          !.face = IF f THEN "idle" ELSE @, !.print = IF p THEN "idle" ELSE @]
  BY DEF Choose, Displays
<1>3. page' \in Panels
  BY <1>1, <1>2 DEF Panels
<1>4. /\ UNCHANGED <<location, session, gate, asked, changing, departing, enrolled, history>>
      /\ attempt' = attempt /\ credentials' = credentials /\ started' = started
  BY DEF Choose, Displays
<1>5. AttemptsOK' /\ CallOK(credentials)' /\ started' \in 0..MaxRequests
  BY <1>1, <1>4, Counted DEF AttemptsOK, AttemptOK, CallOK
<1> QED  BY <1>3, <1>4, <1>5, PageActs

LEMMA SubmitCredentialsKeeps ==
  ASSUME SessionInv, NEW u \in Users, SubmitCredentials(u) PROVE SessionInv'
<1>1. page \in Panels /\ RestOK /\ AttemptsOK
  BY DEF SessionInv, RestOK
<1>2. page' \in Panels
  BY <1>1 DEF Panels, SubmitCredentials, Displays
<1>3. /\ UNCHANGED <<location, session, gate, asked, changing, departing, enrolled, history>>
      /\ attempt' = attempt /\ credentials' = [user |-> u, live |-> TRUE] /\ Starts
  BY DEF SubmitCredentials, Displays
<1>4. AttemptsOK' /\ CallOK(credentials)' /\ started' \in 0..MaxRequests
  BY <1>1, <1>3, Counted, CallOfUser DEF AttemptsOK, AttemptOK, CallOK
<1> QED  BY <1>2, <1>3, <1>4, PageActs

LEMMA CredentialsRefusedKeeps == ASSUME SessionInv, CredentialsRefused PROVE SessionInv'
<1>1. page \in Panels /\ RestOK /\ AttemptsOK
  BY DEF SessionInv, RestOK
<1>2. /\ UNCHANGED <<location, session, gate, asked, changing, departing, enrolled, history>>
      /\ attempt' = attempt /\ credentials' = NoCall /\ page' = page /\ started' = started
  BY DEF CredentialsRefused
<1>3. AttemptsOK' /\ CallOK(credentials)' /\ started' \in 0..MaxRequests /\ page' \in Panels
  BY <1>1, <1>2, Counted, NoCallOK DEF AttemptsOK, AttemptOK, CallOK
<1> QED  BY <1>2, <1>3, PageActs

\* An account without a sample acts at once; another one is asked for it.
LEMMA CredentialsAcceptedKeeps == ASSUME SessionInv, CredentialsAccepted PROVE SessionInv'
<1> DEFINE u == credentials.user
<1>1. /\ page \in Panels /\ RestOK /\ AttemptsOK /\ HistoryOK /\ Follows
      /\ \A i \in Attempts : AttemptOK(i, attempt[i])
      /\ CallOK(credentials) /\ \A k \in Asks : CallOK(asked[k])
      /\ changing \in Sessions /\ (changing.user = Nobody => changing = NoSession)
  BY DEF SessionInv, RestOK, CallsAreOfSomebody, AttemptsOK
<1>2. u \in Users
  <2>1. credentials \in Waiting /\ credentials # NoCall
    BY <1>1 DEF CallOK, CredentialsAccepted
  <2>2. u \in Somebody
    BY <2>1 DEF Waiting
  <2> QED  BY <1>1, <2>1, <2>2 DEF CallOK, Somebody
<1>3. CASE Has(u, "face") \/ HasPrint(u)
  <2>1. /\ UNCHANGED <<location, session, gate, asked, changing, departing, enrolled, history>>
        /\ attempt' = attempt /\ credentials' = NoCall /\ started' = started
    BY <1>3 DEF CredentialsAccepted, Displays
  <2>2. page' \in Panels
    <3>1. \E m \in {"choose", "face", "finger"} :
            page' = IF credentials.live THEN [page EXCEPT !.pending = u, !.mode = m] ELSE page
      BY <1>3 DEF CredentialsAccepted, Displays
    <3> HIDE DEF u
    <3> QED  BY <1>1, <1>2, <3>1 DEF Panels, Somebody
  <2>3. AttemptsOK' /\ CallOK(credentials)' /\ started' \in 0..MaxRequests
    BY <1>1, <2>1, Counted, NoCallOK DEF AttemptsOK, AttemptOK, CallOK
  <2> QED  BY <2>1, <2>2, <2>3, PageActs
<1>4. CASE ~ (Has(u, "face") \/ HasPrint(u))
  <2> DEFINE s == LoggedIn(u, FALSE, "PASSWORD")
  <2>1. /\ Go("setup", s, attempt, NoCall, asked)
        /\ Records(u, u, cleared)
        /\ changing' = changing /\ departing' = departing /\ enrolled' = enrolled /\ started' = started
    BY <1>4 DEF CredentialsAccepted
  <2> HIDE DEF u
  <2>2. s \in Sessions /\ s.user = u /\ Blocked(s)
    BY <1>2, LoggedInOK
  <2> HIDE DEF s
  <2>3. /\ AttemptsOK' /\ \A i \in Attempts : attempt'[i].pc = attempt[i].pc /\ attempt'[i].user = attempt[i].user
        /\ session' = s
        /\ location' \in {"login", "setup", "dashboard"}
        /\ GuardHolds'
        /\ CallOK(credentials)' /\ asked' \in [Asks -> Waiting] /\ \A k \in Asks : CallOK(asked[k])'
        /\ \A k \in Asks : asked'[k].user = asked[k].user
        /\ page' \in Panels
        /\ gate' \in [face : BOOLEAN, finger : BOOLEAN, done : BOOLEAN]
    BY <1>1, <2>1, <2>2, NoCallOK, GoEffect
  <2>4. CallsAreOfSomebody'
    BY <1>1, <2>1, <2>3 DEF CallsAreOfSomebody
  <2>5. RestOK'
    BY <1>1, <2>1, <2>2, <2>3 DEF RestOK
  <2>6. HistoryOK' /\ (~crossed' => ~crossed /\ Outstanding \subseteq {u} /\ last' = u /\ cleared' = cleared)
    BY <1>1, <1>2, <2>1, RecordsEffect DEF Somebody, HistoryOK
  <2>7. Follows'
    <3> SUFFICES ASSUME ~crossed' PROVE WaitsForTheLast' /\ AreCleared'
      BY DEF Follows
    <3>1. WaitsForTheLast /\ AreCleared
      BY <1>1, <2>6 DEF Follows
    <3>2. asked'["skip"].user = asked["skip"].user
      BY <2>3 DEF Asks
    <3>3. Outstanding' = Outstanding
      BY <2>1, <2>3, <3>2 DEF Outstanding
    <3>4. asked["skip"].user # Nobody => asked["skip"].user = u
      BY <2>6, OutstandingIs
    <3>5. WaitsForTheLast'
      BY <2>2, <2>3, <2>6, <3>2, <3>3, <3>4 DEF WaitsForTheLast
    <3>6. AreCleared'
      BY <2>1, <2>2, <2>3, <2>6, <3>1 DEF AreCleared, Blocked
    <3> QED  BY <3>5, <3>6
  <2> QED  BY <2>3, <2>4, <2>5, <2>6, <2>7 DEF SessionInv
<1> QED  BY <1>3, <1>4

-----------------------------------------------------------------------------
(* Steps: the checks of LoginPage                                          *)

\* One check changes, without a grant before or after.
LEMMA OneActs ==
  ASSUME SessionInv, NEW i \in Attempts, NEW a, AttemptOK(i, a),
         attempt[i].pc # "granted", a.pc # "granted",
         attempt' = [attempt EXCEPT ![i] = a], page' \in Panels, started' \in 0..MaxRequests,
         UNCHANGED <<location, session, gate, credentials, asked, changing, departing, enrolled, history>>
  PROVE  SessionInv'
<1>1. AttemptsOK /\ CallOK(credentials)
  BY DEF SessionInv, CallsAreOfSomebody
<1>2. /\ AttemptsOK' /\ attempt'[i] = a
      /\ \A j \in Attempts : j # i => attempt'[j] = attempt[j]
  BY <1>1, OneAttempt
<1>3. CallOK(credentials)'
  BY <1>1 DEF CallOK
<1>4. /\ \A j \in Attempts : attempt'[j].pc = "granted" <=> attempt[j].pc = "granted"
      /\ \A j \in Attempts : attempt[j].pc = "granted" => attempt'[j].user = attempt[j].user
  BY <1>2
<1> QED  BY <1>2, <1>3, <1>4, PageActs

\* A check that its page sends: what it sends is of no consequence for the others.
LEMMA FaceSent ==
  ASSUME NEW i \in Attempts, NEW a, AttemptOK(i, a), NEW d \in BOOLEAN, NEW u \in Somebody
  PROVE  LET b == [a EXCEPT !.pc = "sent", !.live = TRUE, !.direct = d, !.claimed = u]
         IN  AttemptOK(i, b) /\ b.pc = "sent"
<1> DEFINE b == [a EXCEPT !.pc = "sent", !.live = TRUE, !.direct = d, !.claimed = u]
<1>1. a \in AttemptStates
  BY DEF AttemptOK
<1>2. b \in AttemptStates
  BY <1>1, Zenon DEF AttemptStates
<1>3. b.pc = "sent"
  BY <1>1 DEF AttemptStates
<1>4. b.ticking = a.ticking /\ b.repeated = a.repeated /\ b.overrun = a.overrun
  BY <1>1, Zenon DEF AttemptStates
<1> HIDE DEF b
<1> QED  BY <1>2, <1>3, <1>4 DEF AttemptOK, b

LEMMA StartFaceKeeps == ASSUME SessionInv, NEW i \in Attempts, StartFace(i) PROVE SessionInv'
<1> DEFINE d == page.mode = "direct_face"
           c == page.pending
           a == [attempt[i] EXCEPT !.pc = "sent", !.live = TRUE, !.direct = d, !.claimed = c]
<1>1. page \in Panels /\ RestOK /\ AttemptOK(i, attempt[i])
  BY DEF SessionInv, RestOK, AttemptsOK
<1>2. /\ attempt' = [attempt EXCEPT ![i] = a] /\ page' = [page EXCEPT !.face = "verifying"]
      /\ attempt[i].pc = "new" /\ Starts
      /\ UNCHANGED <<location, session, gate, credentials, asked, changing, departing, enrolled, history>>
  BY DEF StartFace, Tracked
<1>3. d \in BOOLEAN /\ c \in Somebody
  BY <1>1, PanelFields
<1>4. page' \in Panels
  BY <1>1, <1>2 DEF Panels
<1> HIDE DEF d, c
<1>5. AttemptOK(i, a) /\ a.pc = "sent"
  BY <1>1, <1>3, FaceSent
<1> HIDE DEF a
<1> QED  BY <1>1, <1>2, <1>4, <1>5, Counted, OneActs

DisplacedBy(i, a, o) == [a EXCEPT !.ref = i, !.overrun = o]

\* A second press takes scanIntervalRef from an interval that is running.
LEMMA Displaced ==
  ASSUME NEW i \in Attempts, NEW j \in Attempts, NEW a, AttemptOK(j, a),
         NEW o \in BOOLEAN, a.overrun \/ a.pc = "scan" => o
  PROVE  LET b == DisplacedBy(i, a, o)
         IN  AttemptOK(j, b) /\ b.pc = a.pc /\ b.user = a.user
<1> DEFINE b == DisplacedBy(i, a, o)
<1>1. a \in AttemptStates
  BY DEF AttemptOK
<1>2. b \in AttemptStates
  BY <1>1, Zenon DEF AttemptStates, DisplacedBy
<1>3. b.pc = a.pc /\ b.user = a.user
  BY <1>1 DEF AttemptStates, DisplacedBy
<1>4. b.ticking = a.ticking /\ b.repeated = a.repeated /\ b.overrun = o
  BY <1>1, Zenon DEF AttemptStates, DisplacedBy
<1> HIDE DEF b
<1>5. AttemptOK(j, b)
  BY <1>2, <1>3, <1>4 DEF AttemptOK
<1> QED  BY <1>3, <1>5 DEF b

LEMMA PressStarts ==
  ASSUME NEW i \in Attempts, NEW d \in BOOLEAN, NEW u \in Somebody
  PROVE  LET b == [NewAttempt(i) EXCEPT !.pc = "scan", !.kind = "finger", !.live = TRUE,
                                        !.direct = d, !.claimed = u]
         IN  AttemptOK(i, b) /\ b.pc = "scan"
<1> DEFINE b == [NewAttempt(i) EXCEPT !.pc = "scan", !.kind = "finger", !.live = TRUE,
                                      !.direct = d, !.claimed = u]
<1>1. NewAttempt(i) \in AttemptStates
  BY NewAttemptOK DEF AttemptOK
<1>2. b \in AttemptStates
  BY <1>1, Zenon DEF AttemptStates
<1>3. b.pc = "scan" /\ b.ref = i
  BY DEF NewAttempt
<1>4. b.ticking = FALSE /\ b.repeated = FALSE
  BY Zenon DEF NewAttempt
<1> HIDE DEF b
<1> QED  BY <1>2, <1>3, <1>4 DEF AttemptOK, b

LEMMA PressKeeps == ASSUME SessionInv, NEW i \in Attempts, Press(i) PROVE SessionInv'
<1> DEFINE d == page.mode = "direct_finger"
           c == page.pending
           a == [NewAttempt(i) EXCEPT !.pc = "scan", !.kind = "finger", !.live = TRUE,
                                      !.direct = d, !.claimed = c]
           Becomes(j) == IF j = i THEN a
                     ELSE IF attempt[j].live
                          THEN [attempt[j] EXCEPT !.ref = i, !.overrun = @ \/ attempt[j].pc = "scan"]
                          ELSE attempt[j]
<1>1. page \in Panels /\ RestOK /\ CallOK(credentials) /\ \A j \in Attempts : AttemptOK(j, attempt[j])
  BY DEF SessionInv, RestOK, AttemptsOK, CallsAreOfSomebody
<1>2. /\ attempt' = [j \in Attempts |-> Becomes(j)] /\ page' = page
      /\ attempt[i].pc = "new" /\ Starts
      /\ UNCHANGED <<location, session, gate, credentials, asked, changing, departing, enrolled, history>>
  BY DEF Press, Tracked
<1>3. d \in BOOLEAN /\ c \in Somebody
  BY <1>1, PanelFields
<1>4. AttemptOK(i, a) /\ a.pc = "scan"
  <2> HIDE DEF d, c
  <2> QED  BY <1>3, PressStarts
<1> HIDE DEF a
<1>5. ASSUME NEW j \in Attempts
      PROVE  /\ AttemptOK(j, Becomes(j))
             /\ Becomes(j).pc = "granted" <=> attempt[j].pc = "granted"
             /\ attempt[j].pc = "granted" => Becomes(j).user = attempt[j].user
  <2>1. CASE j = i
    BY <1>2, <1>4, <2>1
  <2>2. CASE j # i /\ ~attempt[j].live
    BY <1>1, <2>2
  <2>3. CASE j # i /\ attempt[j].live
    <3>1. Becomes(j) = [attempt[j] EXCEPT !.ref = i, !.overrun = @ \/ attempt[j].pc = "scan"]
      BY <2>3
    <3> DEFINE was == attempt[j]
               o == was.overrun \/ was.pc = "scan"
               becomes == Becomes(j)
    <3>2. AttemptOK(j, was) /\ o \in BOOLEAN /\ (was.overrun \/ was.pc = "scan" => o)
      BY <1>1
    <3>3. becomes = DisplacedBy(i, was, o)
      BY <3>1, Zenon DEF DisplacedBy
    <3> HIDE DEF becomes, was, o
    <3>4. AttemptOK(j, becomes) /\ becomes.pc = was.pc /\ becomes.user = was.user
      BY <3>2, <3>3, Displaced
    <3> QED  BY <3>4 DEF was, becomes
  <2> QED  BY <2>1, <2>2, <2>3
<1> HIDE DEF Becomes
<1>6. \A j \in Attempts : Becomes(j) \in AttemptStates
  BY <1>5 DEF AttemptOK
<1>7. attempt' \in [Attempts -> AttemptStates] /\ \A j \in Attempts : attempt'[j] = Becomes(j)
  BY <1>2, <1>6
<1>8. /\ AttemptsOK'
      /\ \A j \in Attempts : attempt'[j].pc = "granted" <=> attempt[j].pc = "granted"
      /\ \A j \in Attempts : attempt[j].pc = "granted" => attempt'[j].user = attempt[j].user
  BY <1>5, <1>7 DEF AttemptsOK, AttemptOK
<1>9. CallOK(credentials)' /\ page' \in Panels /\ started' \in 0..MaxRequests
  BY <1>1, <1>2, Counted DEF CallOK
<1> QED  BY <1>2, <1>8, <1>9, PageActs

LEMMA DoneAttempt ==
  ASSUME NEW i \in Attempts
  PROVE  AttemptOK(i, [NewAttempt(i) EXCEPT !.pc = "done"])
         /\ [NewAttempt(i) EXCEPT !.pc = "done"].pc = "done"
<1>1. [NewAttempt(i) EXCEPT !.pc = "done"].pc = "done"
  BY DEF NewAttempt
<1> QED  BY <1>1, NewAttemptOK

LEMMA ReleaseKeeps == ASSUME SessionInv, NEW i \in Attempts, Release(i) PROVE SessionInv'
<1> DEFINE a == [NewAttempt(i) EXCEPT !.pc = "done"]
<1>1. page \in Panels /\ RestOK
  BY DEF SessionInv, RestOK
<1>2. /\ attempt' = [attempt EXCEPT ![i] = a] /\ page' = page /\ started' = started
      /\ attempt[i].pc = "scan"
      /\ UNCHANGED <<location, session, gate, credentials, asked, changing, departing, enrolled, history>>
  BY DEF Release, Tracked
<1>3. AttemptOK(i, a) /\ a.pc = "done"
  BY DoneAttempt
<1> HIDE DEF a
<1> QED  BY <1>1, <1>2, <1>3, Counted, OneActs

\* An interval goes on only if another one's press took its place in the ref.
LEMMA ScanSent ==
  ASSUME NEW i \in Attempts, NEW a, AttemptOK(i, a), a.pc = "scan", NEW t \in BOOLEAN, t => a.ref # i
  PROVE  LET b == [a EXCEPT !.pc = "sent", !.ticking = t]
         IN  AttemptOK(i, b) /\ b.pc = "sent"
<1> DEFINE b == [a EXCEPT !.pc = "sent", !.ticking = t]
<1>1. a \in AttemptStates
  BY DEF AttemptOK
<1>2. b \in AttemptStates
  BY <1>1, Zenon DEF AttemptStates
<1>3. b.pc = "sent"
  BY <1>1 DEF AttemptStates
<1>4. b.ticking = t /\ b.repeated = a.repeated /\ b.overrun = a.overrun
  BY <1>1, Zenon DEF AttemptStates
<1> HIDE DEF b
<1> QED  BY <1>2, <1>3, <1>4 DEF AttemptOK, b

LEMMA SendPrintKeeps == ASSUME SessionInv, NEW i \in Attempts, SendPrint(i) PROVE SessionInv'
<1> DEFINE t == ~Clears(i, i)
           a == [attempt[i] EXCEPT !.pc = "sent", !.ticking = t]
           Becomes(j) == IF j = i THEN a
                     ELSE IF Clears(i, j) /\ attempt[j].pc = "scan"
                          THEN [NewAttempt(j) EXCEPT !.pc = "done"] ELSE attempt[j]
<1>1. page \in Panels /\ RestOK /\ CallOK(credentials) /\ \A j \in Attempts : AttemptOK(j, attempt[j])
  BY DEF SessionInv, RestOK, AttemptsOK, CallsAreOfSomebody
<1>2. /\ attempt' = [j \in Attempts |-> Becomes(j)] /\ page' = page /\ started' = started
      /\ attempt[i].pc = "scan"
      /\ UNCHANGED <<location, session, gate, credentials, asked, changing, departing, enrolled, history>>
  BY DEF SendPrint, Tracked
<1>3. t \in BOOLEAN /\ (t => attempt[i].ref # i)
  BY DEF Clears
<1>4. AttemptOK(i, a) /\ a.pc = "sent"
  <2> DEFINE was == attempt[i]
  <2>1. AttemptOK(i, was) /\ was.pc = "scan" /\ t \in BOOLEAN /\ (t => was.ref # i)
    BY <1>1, <1>2, <1>3
  <2>2. a = [was EXCEPT !.pc = "sent", !.ticking = t]
    OBVIOUS
  <2> HIDE DEF t, was, a
  <2> QED  BY <2>1, <2>2, ScanSent, Zenon
<1> HIDE DEF a
<1>5. ASSUME NEW j \in Attempts
      PROVE  /\ AttemptOK(j, Becomes(j))
             /\ Becomes(j).pc = "granted" <=> attempt[j].pc = "granted"
             /\ attempt[j].pc = "granted" => Becomes(j).user = attempt[j].user
  <2>1. CASE j = i
    BY <1>2, <1>4, <2>1
  <2>2. CASE j # i /\ Becomes(j) = attempt[j]
    BY <1>1, <2>2
  <2>3. CASE attempt[j].pc = "scan" /\ Becomes(j) = [NewAttempt(j) EXCEPT !.pc = "done"]
    <3> HIDE DEF Becomes
    <3> QED  BY <2>3, DoneAttempt
  <2> QED  BY <2>1, <2>2, <2>3
<1> HIDE DEF Becomes
<1>6. \A j \in Attempts : Becomes(j) \in AttemptStates
  BY <1>5 DEF AttemptOK
<1>7. attempt' \in [Attempts -> AttemptStates] /\ \A j \in Attempts : attempt'[j] = Becomes(j)
  BY <1>2, <1>6
<1>8. /\ AttemptsOK'
      /\ \A j \in Attempts : attempt'[j].pc = "granted" <=> attempt[j].pc = "granted"
      /\ \A j \in Attempts : attempt[j].pc = "granted" => attempt'[j].user = attempt[j].user
  BY <1>5, <1>7 DEF AttemptsOK, AttemptOK
<1>9. CallOK(credentials)' /\ page' \in Panels /\ started' \in 0..MaxRequests
  BY <1>1, <1>2, Counted DEF CallOK
<1> QED  BY <1>2, <1>8, <1>9, PageActs

LEMMA RepeatPrintKeeps == ASSUME SessionInv, NEW i \in Attempts, RepeatPrint(i) PROVE SessionInv'
<1> DEFINE a == [attempt[i] EXCEPT !.pc = "sent", !.repeated = TRUE]
<1>1. page \in Panels /\ RestOK /\ AttemptOK(i, attempt[i]) /\ attempt \in [Attempts -> AttemptStates]
  BY DEF SessionInv, RestOK, AttemptsOK
<1>2. /\ attempt' = [attempt EXCEPT ![i].pc = "sent", ![i].repeated = TRUE]
      /\ page' = page /\ started' = started
      /\ attempt[i].pc \in {"sent", "done"} /\ attempt[i].ticking
      /\ UNCHANGED <<location, session, gate, credentials, asked, changing, departing, enrolled, history>>
  BY DEF RepeatPrint, Tracked
<1>3. attempt' = [attempt EXCEPT ![i] = a]
  BY <1>1, <1>2
<1>4. a \in AttemptStates
  BY <1>1, Zenon DEF AttemptStates, AttemptOK
<1>5. a.pc = "sent"
  BY <1>1 DEF AttemptStates, AttemptOK
<1>6. a.overrun = attempt[i].overrun
  BY <1>1, Zenon DEF AttemptStates, AttemptOK
<1> HIDE DEF a
<1>7. AttemptOK(i, a)
  BY <1>1, <1>2, <1>4, <1>5, <1>6 DEF AttemptOK
<1> QED  BY <1>1, <1>2, <1>3, <1>5, <1>7, Counted, OneActs

LEMMA OutcomeIsPanel ==
  ASSUME page \in Panels, NEW i \in Attempts, NEW f \in {"success", "error"}, NEW s \in {"idle", "success"}
  PROVE  Outcome(i, f, s) \in Panels
BY DEF Outcome, Panels

LEMMA RefusedKeeps == ASSUME SessionInv, NEW i \in Attempts, Refused(i) PROVE SessionInv'
<1> DEFINE a == [attempt[i] EXCEPT !.pc = "refused"]
<1>1. page \in Panels /\ RestOK /\ AttemptOK(i, attempt[i]) /\ attempt \in [Attempts -> AttemptStates]
  BY DEF SessionInv, RestOK, AttemptsOK
<1>2. /\ attempt' = [attempt EXCEPT ![i].pc = "refused"]
      /\ page' = Outcome(i, "error", "idle") /\ started' = started
      /\ attempt[i].pc = "sent"
      /\ UNCHANGED <<location, session, gate, credentials, asked, changing, departing, enrolled, history>>
  BY DEF Refused, Tracked
<1>3. attempt' = [attempt EXCEPT ![i] = a]
  BY <1>1, <1>2
<1>4. AttemptOK(i, a) /\ a.pc = "refused"
  BY <1>1, AttemptStage
<1>5. page' \in Panels
  BY <1>1, <1>2, OutcomeIsPanel
<1> HIDE DEF a
<1> QED  BY <1>1, <1>2, <1>3, <1>4, <1>5, Counted, OneActs

LEMMA ResetFiresKeeps == ASSUME SessionInv, NEW i \in Attempts, ResetFires(i) PROVE SessionInv'
<1> DEFINE a == Ended(i)
<1>1. page \in Panels /\ RestOK /\ AttemptOK(i, attempt[i])
  BY DEF SessionInv, RestOK, AttemptsOK
<1>2. /\ attempt' = [attempt EXCEPT ![i] = a] /\ started' = started
      /\ attempt[i].pc = "refused"
      /\ UNCHANGED <<location, session, gate, credentials, asked, changing, departing, enrolled, history>>
  BY DEF ResetFires, Tracked
<1>3. AttemptOK(i, a) /\ a.pc = "done"
  BY <1>1, AttemptEnded
<1>4. page' \in Panels
  <2>1. \/ page' = page
        \/ \E m \in {"select", "credentials"}, p \in {"idle", page.print} :
             page' = [mode |-> m, pending |-> Nobody, face |-> "idle", print |-> p]
    BY DEF ResetFires, Tracked
  <2> QED  BY <1>1, <2>1, PanelFields DEF Panels, Somebody
<1> HIDE DEF a
<1> QED  BY <1>1, <1>2, <1>3, <1>4, Counted, OneActs

\* A grant: the user is checked, and nothing of another waits.
LEMMA GrantedKeeps ==
  ASSUME SessionInv, NEW i \in Attempts, NEW u \in Users, Granted(i, u) PROVE SessionInv'
<1> DEFINE a == [attempt[i] EXCEPT !.pc = "granted", !.user = u]
<1>1. /\ page \in Panels /\ RestOK /\ AttemptsOK /\ AttemptOK(i, attempt[i])
      /\ attempt \in [Attempts -> AttemptStates] /\ CallOK(credentials) /\ HistoryOK /\ Follows
  BY DEF SessionInv, RestOK, AttemptsOK, CallsAreOfSomebody
<1>2. /\ attempt' = [attempt EXCEPT ![i].pc = "granted", ![i].user = u]
      /\ page' = Outcome(i, "success", "success") /\ started' = started
      /\ Records(u, u, cleared \cup {u})
      /\ UNCHANGED <<location, session, gate, credentials, asked, changing, departing, enrolled>>
  BY DEF Granted, Tracked
<1>3. attempt' = [attempt EXCEPT ![i] = a]
  BY <1>1, <1>2
<1>4. AttemptOK(i, a) /\ a.pc = "granted" /\ a.user = u
  <2> DEFINE was == attempt[i]
  <2>1. AttemptOK(i, was) /\ a = [was EXCEPT !.pc = "granted", !.user = u]
    BY <1>1
  <2> HIDE DEF was, a
  <2>2. LET b == [was EXCEPT !.pc = "granted", !.user = u]
        IN  AttemptOK(i, b) /\ b.pc = "granted" /\ b.user = u
    BY <2>1, AttemptGranted
  <2> QED  BY <2>1, <2>2, Zenon
<1>5. page' \in Panels
  BY <1>1, <1>2, OutcomeIsPanel
<1> HIDE DEF a
<1>6. /\ AttemptsOK' /\ attempt'[i] = a
      /\ \A j \in Attempts : j # i => attempt'[j] = attempt[j]
  BY <1>1, <1>3, <1>4, OneAttempt
<1>7. CallOK(credentials)' /\ started' \in 0..MaxRequests
  BY <1>1, <1>2, Counted DEF CallOK
<1>8. HistoryOK' /\ (~crossed' => /\ ~crossed /\ Outstanding \subseteq {u}
                                  /\ last' = u /\ cleared' = cleared \cup {u})
  <2>1. u \in Somebody /\ cleared \cup {u} \in SUBSET Users
    BY <1>1 DEF HistoryOK, Somebody
  <2> QED  BY <1>1, <1>2, <2>1, RecordsEffect
<1>9. Follows'
  <2> SUFFICES ASSUME ~crossed' PROVE WaitsForTheLast' /\ AreCleared'
    BY DEF Follows
  <2>1. WaitsForTheLast /\ AreCleared
    BY <1>1, <1>8 DEF Follows
  <2>2. Outstanding' \subseteq {u}
    <3> SUFFICES ASSUME NEW v \in Outstanding' PROVE v = u
      OBVIOUS
    <3>1. \/ \E j \in Attempts : attempt'[j].pc = "granted" /\ attempt'[j].user = v
          \/ v # Nobody /\ (v = changing'.user \/ v = asked'["skip"].user)
      BY DEF Outstanding
    <3>2. CASE \E j \in Attempts : attempt'[j].pc = "granted" /\ attempt'[j].user = v
      BY <1>4, <1>6, <1>8, <3>2, OutstandingIs
    <3>3. CASE v # Nobody /\ (v = changing'.user \/ v = asked'["skip"].user)
      BY <1>2, <1>8, <3>3, OutstandingIs
    <3> QED  BY <3>1, <3>2, <3>3
  <2>3. attempt'[i].pc = "granted"
    BY <1>4, <1>6
  <2>4. WaitsForTheLast'
    BY <1>2, <1>8, <2>1, <2>2, <2>3 DEF WaitsForTheLast
  <2>5. AreCleared'
    BY <1>2, <1>4, <1>6, <1>8, <2>1 DEF AreCleared, Blocked
  <2> QED  BY <2>4, <2>5
<1> QED  BY <1>2, <1>5, <1>6, <1>7, <1>8, <1>9, PageKeeps

\* The timer of a match: the session becomes that of the user it granted.
LEMMA GrantFiresKeeps == ASSUME SessionInv, NEW i \in Attempts, GrantFires(i) PROVE SessionInv'
<1> DEFINE u == attempt[i].user
           s == LoggedIn(u, enrolled[u].face, IF attempt[i].kind = "face" THEN "FACE" ELSE "FINGERPRINT")
           att == [attempt EXCEPT ![i] = Ended(i)]
<1>1. /\ RestOK /\ AttemptsOK /\ HistoryOK /\ Follows
      /\ \A j \in Attempts : AttemptOK(j, attempt[j])
      /\ attempt \in [Attempts -> AttemptStates]
      /\ CallOK(credentials) /\ \A k \in Asks : CallOK(asked[k])
      /\ changing \in Sessions /\ (changing.user = Nobody => changing = NoSession)
  BY DEF SessionInv, RestOK, CallsAreOfSomebody, AttemptsOK
<1>2. /\ Go("dashboard", s, att, credentials, asked) /\ attempt[i].pc = "granted"
      /\ UNCHANGED <<changing, departing, enrolled, history, started>>
  BY DEF GrantFires
<1>3. u \in Users
  BY <1>1, <1>2 DEF AttemptOK
<1>4. s \in Sessions /\ s.user = u
  <2>1. enrolled[u].face \in BOOLEAN
    BY <1>1, <1>3 DEF RestOK
  <2>2. (IF attempt[i].kind = "face" THEN "FACE" ELSE "FINGERPRINT") \in {"PASSWORD", "FACE", "FINGERPRINT"}
    OBVIOUS
  <2> HIDE DEF u
  <2> QED  BY <1>3, <2>1, <2>2, LoggedInOK
<1>5. AttemptOK(i, Ended(i)) /\ Ended(i).pc = "done"
  BY <1>1, AttemptEnded
<1>6. \A j \in Attempts : /\ AttemptOK(j, att[j])
                          /\ att[j].pc = "granted" => att[j] = attempt[j]
  BY <1>1, <1>5
<1> HIDE DEF s, att
<1>7. /\ AttemptsOK' /\ \A j \in Attempts : attempt'[j].pc = att[j].pc /\ attempt'[j].user = att[j].user
      /\ session' = s
      /\ location' \in {"login", "setup", "dashboard"}
      /\ GuardHolds'
      /\ CallOK(credentials)' /\ asked' \in [Asks -> Waiting] /\ \A k \in Asks : CallOK(asked[k])'
      /\ \A k \in Asks : asked'[k].user = asked[k].user
      /\ page' \in Panels
      /\ gate' \in [face : BOOLEAN, finger : BOOLEAN, done : BOOLEAN]
  BY <1>1, <1>2, <1>4, <1>6, GoEffect
<1>8. CallsAreOfSomebody'
  BY <1>1, <1>2, <1>7 DEF CallsAreOfSomebody
<1>9. RestOK'
  BY <1>1, <1>2, <1>4, <1>7 DEF RestOK
<1>10. last' = last /\ cleared' = cleared /\ crossed' = crossed /\ HistoryOK'
  BY <1>1, <1>2 DEF history, HistoryOK
<1>11. Follows'
  <2> SUFFICES ASSUME ~crossed PROVE WaitsForTheLast' /\ AreCleared'
    BY <1>10 DEF Follows
  <2>1. WaitsForTheLast /\ AreCleared
    BY <1>1 DEF Follows
  <2>2. u = last /\ u \in cleared
    BY <1>2, <2>1, GrantedIsOutstanding DEF WaitsForTheLast, AreCleared
  <2>3. asked'["skip"].user = asked["skip"].user /\ changing' = changing
    BY <1>2, <1>7 DEF Asks
  <2>4. \A j \in Attempts : attempt'[j].pc = "granted" =>
          attempt[j].pc = "granted" /\ attempt'[j].user = attempt[j].user
    BY <1>6, <1>7
  <2>5. Outstanding' \subseteq Outstanding
    BY <2>3, <2>4 DEF Outstanding
  <2>6. asked["skip"].user # Nobody => asked["skip"].user = last
    BY <2>1, OutstandingIs DEF WaitsForTheLast
  <2> HIDE DEF u
  <2>7. WaitsForTheLast'
    BY <1>4, <1>7, <1>10, <2>1, <2>2, <2>3, <2>5, <2>6 DEF WaitsForTheLast
  <2>8. AreCleared'
    BY <1>4, <1>7, <1>10, <2>1, <2>2, <2>3, <2>4 DEF AreCleared
  <2> QED  BY <2>7, <2>8
<1> QED  BY <1>7, <1>8, <1>9, <1>10, <1>11 DEF SessionInv

-----------------------------------------------------------------------------
(* Steps: the gate and the password form                                   *)

GateOK(g) == g \in [face : BOOLEAN, finger : BOOLEAN, done : BOOLEAN]

\* A step of the gate or of the form, that navigates nowhere.
LEMMA GateKeeps ==
  ASSUME SessionInv, UNCHANGED <<location, page, attempt, credentials>>,
         session' \in Sessions, session'.user = session.user,
         Blocked(session') => Blocked(session),
         GateOK(gate'), asked' \in [Asks -> Waiting], \A k \in Asks : CallOK(asked'[k]),
         changing' \in Sessions, changing'.user = Nobody => changing' = NoSession,
         departing' \in BOOLEAN, enrolled' \in [Users -> [face : BOOLEAN, finger : Prints]],
         started' \in 0..MaxRequests, Follows', HistoryOK'
  PROVE  SessionInv'
<1>1. AttemptsOK'
  BY DEF SessionInv, AttemptsOK, AttemptOK
<1>2. CallsAreOfSomebody'
  BY DEF SessionInv, CallsAreOfSomebody, CallOK
<1>3. GuardHolds'
  BY DEF SessionInv, GuardHolds, Blocked
<1>4. RestOK'
  BY DEF SessionInv, RestOK, GateOK
<1> QED  BY <1>1, <1>2, <1>3, <1>4 DEF SessionInv

LEMMA GateFields ==
  ASSUME SessionInv
  PROVE  /\ session \in Sessions /\ GateOK(gate) /\ asked \in [Asks -> Waiting]
         /\ \A k \in Asks : CallOK(asked[k])
         /\ changing \in Sessions /\ (changing.user = Nobody => changing = NoSession)
         /\ departing \in BOOLEAN /\ enrolled \in [Users -> [face : BOOLEAN, finger : Prints]]
         /\ started \in 0..MaxRequests /\ HistoryOK /\ Follows /\ RestOK /\ GuardHolds
BY DEF SessionInv, RestOK, CallsAreOfSomebody, GateOK

\* One request of the gate changes.
LEMMA OneAsk ==
  ASSUME SessionInv, NEW k \in Asks, NEW ask, CallOK(ask), asked' = [asked EXCEPT ![k] = ask]
  PROVE  /\ asked' \in [Asks -> Waiting] /\ asked'[k] = ask
         /\ \A j \in Asks : j # k => asked'[j] = asked[j]
         /\ \A j \in Asks : CallOK(asked'[j])
<1>1. ask \in Waiting /\ asked \in [Asks -> Waiting] /\ \A j \in Asks : CallOK(asked[j])
  BY GateFields DEF CallOK
<1> QED  BY <1>1

\* A request that is answered: nobody acts.
LEMMA AskEnds ==
  ASSUME SessionInv, NEW k \in Asks, asked' = [asked EXCEPT ![k] = NoCall], GateOK(gate'),
         enrolled' \in [Users -> [face : BOOLEAN, finger : Prints]],
         UNCHANGED <<location, page, attempt, credentials, session, changing, departing, history, started>>
  PROVE  SessionInv'
<1>1. /\ asked' \in [Asks -> Waiting] /\ asked'[k].user = Nobody
      /\ \A j \in Asks : j # k => asked'[j] = asked[j]
      /\ \A j \in Asks : CallOK(asked'[j])
  BY OneAsk, NoCallOK
<1>2. asked'["skip"].user \in {asked["skip"].user, Nobody}
  BY <1>1 DEF Asks
<1>3. Follows' /\ HistoryOK'
  BY <1>2, NothingActs
<1> QED  BY <1>1, <1>3, GateFields, GateKeeps DEF Blocked

LEMMA AskRefusedKeeps == ASSUME SessionInv, NEW k \in Asks, AskRefused(k) PROVE SessionInv'
<1>1. GateOK(gate') /\ enrolled' \in [Users -> [face : BOOLEAN, finger : Prints]]
  BY GateFields DEF AskRefused, AtGate
<1> QED  BY <1>1, AskEnds DEF AskRefused, AtGate

LEMMA EnrolAnsweredKeeps == ASSUME SessionInv, NEW k \in Asks, EnrolAnswered(k) PROVE SessionInv'
<1>1. GateOK(gate')
  <2>1. gate' = IF asked[k].live THEN [gate EXCEPT ![k] = TRUE] ELSE gate
    BY DEF EnrolAnswered, AtGate
  <2>2. k \in {"face", "finger"}
    BY DEF EnrolAnswered, Asks
  <2>3. GateOK([gate EXCEPT !["face"] = TRUE]) /\ GateOK([gate EXCEPT !["finger"] = TRUE])
    BY GateFields, Zenon DEF GateOK
  <2> QED  BY <2>1, <2>2, <2>3, GateFields
<1>2. enrolled' \in [Users -> [face : BOOLEAN, finger : Prints]]
  <2> DEFINE u == asked[k].user
             T == [face : BOOLEAN, finger : Prints]
             f == [enrolled[u] EXCEPT !.face = TRUE]
             p == [enrolled[u] EXCEPT !.finger = "nest"]
  <2>1. enrolled \in [Users -> T]
    BY GateFields
  <2>2. enrolled' = [enrolled EXCEPT ![u] = f] \/ enrolled' = [enrolled EXCEPT ![u] = p]
    BY Zenon DEF EnrolAnswered
  <2>3. \A e \in T : [e EXCEPT !.face = TRUE] \in T /\ [e EXCEPT !.finger = "nest"] \in T
    BY Zenon DEF Prints
  <2>4. u \in Users => f \in T /\ p \in T
    <3> HIDE DEF u, T
    <3> QED  BY <2>1, <2>3
  <2> HIDE DEF u, T, f, p
  <2>5. enrolled' \in [Users -> T]
    BY <2>1, <2>2, <2>4
  <2> QED  BY <2>5 DEF T
<1> QED  BY <1>1, <1>2, AskEnds DEF EnrolAnswered, AtGate

LEMMA CompleteGateKeeps == ASSUME SessionInv, CompleteGate PROVE SessionInv'
<1>1. GateOK(gate')
  BY GateFields, Zenon DEF GateOK, CompleteGate, AtGate
<1>2. Follows' /\ HistoryOK'
  BY NothingActs DEF CompleteGate, AtGate
<1>3. departing' \in BOOLEAN
  BY DEF CompleteGate
<1> QED  BY <1>1, <1>2, <1>3, GateFields, GateKeeps DEF CompleteGate, AtGate, Blocked

\* Whoever sends a request that will act on the session is the last one, or
\* histories end.
LEMMA ActorRecords ==
  ASSUME SessionInv, session.user # Nobody, Records(session.user, last, cleared),
         attempt' = attempt, session' = session,
         changing' = changing \/ changing'.user = session.user,
         asked'["skip"] = asked["skip"] \/ asked'["skip"].user = session.user,
         ~crossed => changing' = changing \/ session.user \in cleared
  PROVE  Follows' /\ HistoryOK'
<1>1. HistoryOK /\ Follows /\ last \in Somebody /\ cleared \in SUBSET Users
  BY GateFields DEF HistoryOK
<1>2. HistoryOK' /\ (~crossed' => /\ ~crossed /\ Outstanding \subseteq {session.user}
                                  /\ last' = last /\ cleared' = cleared)
  BY <1>1, RecordsEffect
<1>3. SUFFICES ASSUME ~crossed' PROVE WaitsForTheLast' /\ AreCleared'
  BY <1>2 DEF Follows
<1>4. WaitsForTheLast /\ AreCleared /\ ~crossed
  BY <1>1, <1>2, <1>3 DEF Follows
<1>5. session.user = last
  BY <1>2, <1>3, ActorIsLast
<1>6. Outstanding' \subseteq {last}
  <2> SUFFICES ASSUME NEW u \in Outstanding' PROVE u = last
    OBVIOUS
  <2>1. \/ \E i \in Attempts : attempt[i].pc = "granted" /\ attempt[i].user = u
        \/ u # Nobody /\ (u = changing'.user \/ u = asked'["skip"].user)
    BY DEF Outstanding
  <2>2. CASE u = session.user
    BY <1>5, <2>2
  <2>3. CASE u # session.user
    <3>1. u \in Outstanding
      BY <2>1, <2>3, OutstandingIs
    <3> QED  BY <1>2, <1>3, <2>3, <3>1
  <2> QED  BY <2>2, <2>3
<1>7. WaitsForTheLast'
  BY <1>2, <1>3, <1>4, <1>5, <1>6 DEF WaitsForTheLast
<1>8. AreCleared'
  BY <1>2, <1>3, <1>4 DEF AreCleared, Blocked
<1> QED  BY <1>7, <1>8

LEMMA AskKeeps == ASSUME SessionInv, NEW k \in Asks, Ask(k) PROVE SessionInv'
<1> DEFINE ask == [user |-> session.user, live |-> TRUE]
<1>1. /\ asked' = [asked EXCEPT ![k] = ask] /\ gate' = gate /\ Starts /\ location = "setup"
      /\ asked[k] = NoCall
      /\ UNCHANGED <<location, page, attempt, credentials, session, changing, departing, enrolled>>
  BY DEF Ask, AtGate
<1>2. session.user # Nobody /\ session.user \in Users
  BY <1>1, GateFields, SessionFields DEF GuardHolds, Somebody
<1>3. CallOK(ask) /\ ask.user = session.user
  BY <1>2, CallOfUser
<1> HIDE DEF ask
<1>4. /\ asked' \in [Asks -> Waiting] /\ asked'[k] = ask
      /\ \A j \in Asks : j # k => asked'[j] = asked[j]
      /\ \A j \in Asks : CallOK(asked'[j])
  BY <1>1, <1>3, OneAsk
<1>5. Follows' /\ HistoryOK'
  <2>1. CASE k = "skip"
    <3>1. Records(session.user, last, cleared)
      BY <2>1 DEF Ask
    <3>2. asked'["skip"].user = session.user
      BY <1>3, <1>4, <2>1
    <3> QED  BY <1>1, <1>2, <3>1, <3>2, ActorRecords
  <2>2. CASE k # "skip"
    <3>1. UNCHANGED history
      BY <2>2 DEF Ask
    <3>2. asked'["skip"] = asked["skip"]
      BY <1>4, <2>2 DEF Asks
    <3> QED  BY <1>1, <3>1, <3>2, NothingActs
  <2> QED  BY <2>1, <2>2
<1>6. started' \in 0..MaxRequests
  BY <1>1, Counted, GateFields
<1> QED  BY <1>1, <1>4, <1>5, <1>6, GateFields, GateKeeps DEF Blocked

\* The user of the session has skipped, who is the one that asked.
LEMMA SkipAnsweredKeeps == ASSUME SessionInv, SkipAnswered PROVE SessionInv'
<1> DEFINE u == asked["skip"].user
<1>1. /\ asked' = [asked EXCEPT !["skip"] = NoCall] /\ gate' = gate
      /\ session' = IF session.user = Nobody THEN session ELSE [session EXCEPT !.skipped = TRUE]
      /\ cleared' = (IF crossed THEN {} ELSE cleared \cup {u})
      /\ departing' = TRUE /\ asked["skip"] # NoCall
      /\ UNCHANGED <<location, page, attempt, credentials, changing, enrolled, started>>
      /\ last' = last /\ crossed' = crossed
  BY DEF SkipAnswered, AtGate
<1>2. "skip" \in Asks
  BY DEF Asks
<1>3. u \in Users
  <2>1. CallOK(asked["skip"]) /\ asked["skip"] \in Waiting
    BY <1>2, GateFields
  <2>2. u \in Somebody
    BY <2>1 DEF Waiting
  <2> QED  BY <1>1, <2>1, <2>2 DEF CallOK, Somebody
<1>4. /\ asked' \in [Asks -> Waiting] /\ asked'["skip"].user = Nobody
      /\ \A j \in Asks : CallOK(asked'[j])
  BY <1>1, <1>2, OneAsk, NoCallOK
<1>5. session \in Sessions /\ HistoryOK /\ Follows
  BY GateFields
<1>6. session' \in Sessions /\ session'.user = session.user /\ (Blocked(session') => Blocked(session))
  <2> DEFINE t == [session EXCEPT !.skipped = TRUE]
  <2>1. t \in Sessions
    BY <1>5, Zenon DEF Sessions
  <2>2. t.user = session.user
    BY <1>5 DEF Sessions
  <2>3. t.skipped = TRUE
    BY <1>5, Zenon DEF Sessions
  <2>4. ~Blocked(t)
    BY <2>3 DEF Blocked
  <2>5. session' = session \/ session' = t
    BY <1>1, Zenon
  <2> HIDE DEF t
  <2> QED  BY <1>5, <2>1, <2>2, <2>4, <2>5
<1> HIDE DEF u
<1>7. HistoryOK'
  BY <1>1, <1>3, <1>5 DEF HistoryOK
<1>8. Follows'
  <2> SUFFICES ASSUME ~crossed PROVE WaitsForTheLast' /\ AreCleared'
    BY <1>1 DEF Follows
  <2>1. WaitsForTheLast /\ AreCleared /\ cleared' = cleared \cup {u}
    BY <1>1, <1>5 DEF Follows
  <2>2. session.user = u
    BY <1>3, <2>1, SessionAssumption DEF WaitsForTheLast, u
  <2>3. Outstanding' \subseteq Outstanding
    BY <1>1, <1>4 DEF Outstanding
  <2>4. WaitsForTheLast'
    BY <1>1, <1>4, <1>6, <2>1, <2>3 DEF WaitsForTheLast
  <2>5. AreCleared'
    BY <1>1, <1>6, <2>1, <2>2 DEF AreCleared
  <2> QED  BY <2>4, <2>5
<1>9. departing' \in BOOLEAN
  BY <1>1
<1> QED  BY <1>1, <1>4, <1>6, <1>7, <1>8, <1>9, GateFields, GateKeeps

LEMMA SubmitChangeKeeps == ASSUME SessionInv, SubmitChange PROVE SessionInv'
<1>1. /\ changing' = session /\ Starts /\ location = "dashboard"
      /\ Records(session.user, last, cleared)
      /\ UNCHANGED <<location, page, attempt, credentials, session, gate, asked, departing, enrolled>>
  BY DEF SubmitChange, pages
<1>2. session.user # Nobody /\ ~Blocked(session)
  BY <1>1, GateFields DEF GuardHolds
<1>3. ~crossed => session.user \in cleared
  BY <1>2, GateFields DEF Follows, AreCleared
<1>4. Follows' /\ HistoryOK'
  BY <1>1, <1>2, <1>3, ActorRecords
<1>5. started' \in 0..MaxRequests
  BY <1>1, Counted, GateFields
<1> QED  BY <1>1, <1>2, <1>4, <1>5, GateFields, GateKeeps DEF Blocked

LEMMA ChangeRefusedKeeps == ASSUME SessionInv, ChangeRefused PROVE SessionInv'
<1>1. /\ changing' = NoSession
      /\ UNCHANGED <<location, page, attempt, credentials, session, gate, asked, departing, enrolled,
                     history, started>>
  BY DEF ChangeRefused, pages
<1>2. Follows' /\ HistoryOK'
  BY <1>1, NoSessionOK, NothingActs
<1> QED  BY <1>1, <1>2, NoSessionOK, GateFields, GateKeeps DEF Blocked

\* The session becomes again what it was when the form was sent.
LEMMA ChangeAnsweredKeeps == ASSUME SessionInv, ChangeAnswered PROVE SessionInv'
<1> DEFINE u == changing.user
           s == [changing EXCEPT !.face = FALSE, !.method = "PASSWORD"]
<1>1. /\ RestOK /\ HistoryOK /\ Follows /\ location \in {"login", "setup", "dashboard"}
      /\ \A j \in Attempts : AttemptOK(j, attempt[j])
      /\ CallOK(credentials) /\ \A k \in Asks : CallOK(asked[k])
      /\ changing \in Sessions /\ (changing.user = Nobody => changing = NoSession)
  BY DEF SessionInv, RestOK, CallsAreOfSomebody, AttemptsOK
<1>2. /\ Go(location, s, attempt, credentials, asked)
      /\ changing # NoSession /\ changing' = NoSession
      /\ UNCHANGED <<departing, enrolled, history, started>>
  BY DEF ChangeAnswered
<1>3. u \in Users
  BY <1>1, <1>2, SessionFields DEF Somebody
<1>4. s \in Sessions /\ s.user = u
  <2>1. s \in Sessions
    BY <1>1, Zenon DEF Sessions
  <2>2. s.user = u
    BY <1>1 DEF Sessions
  <2> QED  BY <2>1, <2>2
<1> HIDE DEF s
<1>5. /\ AttemptsOK' /\ \A j \in Attempts : attempt'[j].pc = attempt[j].pc /\ attempt'[j].user = attempt[j].user
      /\ session' = s
      /\ location' \in {"login", "setup", "dashboard"}
      /\ GuardHolds'
      /\ CallOK(credentials)' /\ asked' \in [Asks -> Waiting] /\ \A k \in Asks : CallOK(asked[k])'
      /\ \A k \in Asks : asked'[k].user = asked[k].user
      /\ page' \in Panels
      /\ gate' \in [face : BOOLEAN, finger : BOOLEAN, done : BOOLEAN]
  BY <1>1, <1>2, <1>4, GoEffect
<1>6. CallsAreOfSomebody'
  BY <1>2, <1>5, NoSessionOK DEF CallsAreOfSomebody
<1>7. RestOK'
  BY <1>1, <1>2, <1>4, <1>5 DEF RestOK
<1>8. last' = last /\ cleared' = cleared /\ crossed' = crossed /\ HistoryOK'
  BY <1>1, <1>2 DEF history, HistoryOK
<1>9. Follows'
  <2> SUFFICES ASSUME ~crossed PROVE WaitsForTheLast' /\ AreCleared'
    BY <1>8 DEF Follows
  <2>1. WaitsForTheLast /\ AreCleared
    BY <1>1 DEF Follows
  <2>2. u = last /\ u \in cleared
    BY <1>3, <2>1, SessionAssumption, OutstandingIs DEF WaitsForTheLast, AreCleared
  <2>3. asked'["skip"].user = asked["skip"].user /\ changing'.user = Nobody
    BY <1>2, <1>5, NoSessionOK DEF Asks
  <2>4. Outstanding' \subseteq Outstanding
    BY <1>5, <2>3 DEF Outstanding
  <2>5. asked["skip"].user # Nobody => asked["skip"].user = last
    BY <2>1, OutstandingIs DEF WaitsForTheLast
  <2> HIDE DEF u
  <2>6. WaitsForTheLast'
    BY <1>4, <1>5, <1>8, <2>1, <2>2, <2>3, <2>4, <2>5 DEF WaitsForTheLast
  <2>7. AreCleared'
    BY <1>4, <1>5, <1>8, <2>1, <2>2, <2>3 DEF AreCleared
  <2> QED  BY <2>6, <2>7
<1> QED  BY <1>5, <1>6, <1>7, <1>8, <1>9 DEF SessionInv

LEMMA SessionStep == SessionInv /\ [SessionNext]_sessionVars => SessionInv'
<1> SUFFICES ASSUME SessionInv, [SessionNext]_sessionVars PROVE SessionInv'
  OBVIOUS
<1>1. ASSUME NEW to \in {"login", "setup", "dashboard"}, Navigate(to) PROVE SessionInv'
  BY <1>1, GateFields, MovesKeep DEF Navigate
<1>2. CASE Reload \/ Logout
  BY <1>2, ReloadKeeps, LogoutKeeps
<1>3. ASSUME NEW m \in {"select", "credentials", "choose", "face", "finger", "direct_face", "direct_finger"},
             Choose(m)
      PROVE  SessionInv'
  BY <1>3, ChooseKeeps
<1>4. ASSUME NEW u \in Users, SubmitCredentials(u) PROVE SessionInv'
  BY <1>4, SubmitCredentialsKeeps
<1>5. CASE CredentialsRefused \/ CredentialsAccepted
  BY <1>5, CredentialsRefusedKeeps, CredentialsAcceptedKeeps
<1>6. ASSUME NEW i \in Attempts,
             StartFace(i) \/ Press(i) \/ Release(i) \/ SendPrint(i) \/ RepeatPrint(i)
      PROVE  SessionInv'
  BY <1>6, StartFaceKeeps, PressKeeps, ReleaseKeeps, SendPrintKeeps, RepeatPrintKeeps
<1>7. ASSUME NEW i \in Attempts, NEW u \in Users, Granted(i, u) PROVE SessionInv'
  BY <1>7, GrantedKeeps
<1>8. ASSUME NEW i \in Attempts, Refused(i) \/ GrantFires(i) \/ ResetFires(i) PROVE SessionInv'
  BY <1>8, RefusedKeeps, GrantFiresKeeps, ResetFiresKeeps
<1>9. ASSUME NEW k \in Asks, Ask(k) \/ AskRefused(k) \/ EnrolAnswered(k) PROVE SessionInv'
  BY <1>9, AskKeeps, AskRefusedKeeps, EnrolAnsweredKeeps
<1>10. CASE LeaveGate
  <2>1. departing' \in BOOLEAN
    BY <1>10 DEF LeaveGate
  <2> QED  BY <1>10, <2>1, MovesKeep DEF LeaveGate
<1>11. CASE SkipAnswered \/ CompleteGate
  BY <1>11, SkipAnsweredKeeps, CompleteGateKeeps
<1>12. CASE SubmitChange \/ ChangeRefused \/ ChangeAnswered
  BY <1>12, SubmitChangeKeeps, ChangeRefusedKeeps, ChangeAnsweredKeeps
<1>13. CASE UNCHANGED sessionVars
  <2>1. UNCHANGED <<location, page, attempt, credentials, session, gate, asked, changing, departing,
                    enrolled, history, started>>
    BY <1>13 DEF sessionVars, pages
  <2>2. Follows' /\ HistoryOK'
    BY <2>1, NothingActs
  <2> QED  BY <2>1, <2>2, GateFields, GateKeeps DEF Blocked
<1> QED
  BY <1>1, <1>2, <1>3, <1>4, <1>5, <1>6, <1>7, <1>8, <1>9, <1>10, <1>11, <1>12, <1>13 DEF SessionNext

\* What waits for an answer or a timer is of the user identified last, as long
\* as nothing of another has waited when somebody acted; an interval goes on
\* only if it was displaced (LoginPage.tsx, BiometricSetupGate.tsx).
LEMMA SessionInvariant == SessionSpec => []SessionInv
<1> QED  BY InitSessionInv, SessionStep, PTL DEF SessionSpec

\* Variables of the session have their types.
THEOREM SessionTypeCorrect == SessionSpec => []SessionTypeOK
<1> QED  BY SessionInvIsTyped, SessionInvariant, PTL

\* Whoever is behind the guard has passed a check or skipped since the last
\* logout, and the session is that of the user identified last (RoleRoute.tsx).
THEOREM SessionFollowsTheChecksHolds == SessionSpec => []SessionFollowsTheChecks
<1>1. SessionInv => SessionFollowsTheChecks
  BY GateFields DEF GuardHolds, Follows, WaitsForTheLast, AreCleared, SessionFollowsTheChecks
<1> QED  BY <1>1, SessionInvariant, PTL

\* An interval that goes on sending was displaced by a second press
\* (LoginPage.tsx, startFingerprintScan).
THEOREM RepeatTakesSecondPress == SessionSpec => []RepeatNeedsSecondPress
<1>1. SessionInv => RepeatNeedsSecondPress
  BY DEF SessionInv, AttemptsOK, AttemptOK, RepeatNeedsSecondPress
<1> QED  BY <1>1, SessionInvariant, PTL

-----------------------------------------------------------------------------
(* The run of the components                                               *)

\* A component that is not followed stays as it is.
LEMMA StepOfEach ==
  ASSUME [Next]_componentVars
  PROVE  /\ [NonceNext]_nonceVars /\ [KioskNext]_kioskVars /\ [OnboardingNext]_onboardingVars
         /\ [EdgeNext]_edgeVars /\ [AccessNext]_accessVars /\ [SessionNext]_sessionVars
         /\ [CaptureNext]_captureVars /\ [SiteNext]_siteVars
<1>1. CASE UNCHANGED componentVars
  BY <1>1, Zenon DEF componentVars
<1>2. CASE Next
  <2>1. CASE focus = "nonce" /\ NonceNext /\ OthersStay
    BY <2>1, Zenon DEF OthersStay
  <2>2. CASE focus = "kiosk" /\ KioskNext /\ OthersStay
    BY <2>2, Zenon DEF OthersStay
  <2>3. CASE focus = "onboarding" /\ OnboardingNext /\ OthersStay
    BY <2>3, Zenon DEF OthersStay
  <2>4. CASE focus = "edge" /\ EdgeNext /\ OthersStay
    BY <2>4, Zenon DEF OthersStay
  <2>5. CASE focus = "access" /\ AccessNext /\ OthersStay
    BY <2>5, Zenon DEF OthersStay
  <2>6. CASE focus = "session" /\ SessionNext /\ OthersStay
    BY <2>6, Zenon DEF OthersStay
  <2>7. CASE focus = "capture" /\ CaptureNext /\ OthersStay
    BY <2>7, Zenon DEF OthersStay
  <2>8. CASE focus = "site" /\ SiteNext /\ OthersStay
    BY <2>8, Zenon DEF OthersStay
  <2> QED
    BY <1>2, <2>1, <2>2, <2>3, <2>4, <2>5, <2>6, <2>7, <2>8, Zenon DEF Next
<1> QED
  BY <1>1, <1>2

\* A behaviour of the run is a behaviour of each of the eight components: what is
\* proved of one of them holds of the run, whichever the run follows.
THEOREM RunImplementsEach ==
  Spec => /\ NonceSpec /\ KioskSpec /\ OnboardingSpec /\ EdgeSpec
          /\ AccessSpec /\ SessionSpec /\ CaptureSpec /\ SiteSpec
<1>1. Init => /\ NonceInit /\ KioskInit /\ OnboardingInit /\ EdgeInit
              /\ AccessInit /\ SessionInit /\ CaptureInit /\ SiteInit
  BY Zenon DEF Init
<1>2. [Next]_componentVars =>
         /\ [NonceNext]_nonceVars /\ [KioskNext]_kioskVars /\ [OnboardingNext]_onboardingVars
         /\ [EdgeNext]_edgeVars /\ [AccessNext]_accessVars /\ [SessionNext]_sessionVars
         /\ [CaptureNext]_captureVars /\ [SiteNext]_siteVars
  BY StepOfEach
<1> QED
  BY <1>1, <1>2, PTL
  DEF Spec, NonceSpec, KioskSpec, OnboardingSpec, EdgeSpec, AccessSpec, SessionSpec, CaptureSpec, SiteSpec

\* The variables of the eight components have their types throughout the run.
THEOREM ComponentsTypeCorrect == Spec => []TypeOK
<1>1. ASSUME NonceTypeOK, KioskTypeOK, OnboardingTypeOK, EdgeTypeOK,
             AccessTypeOK, SessionTypeOK, CaptureTypeOK, SiteTypeOK
      PROVE  TypeOK
  BY <1>1, Zenon DEF TypeOK
<1> QED
  BY <1>1, RunImplementsEach, NonceTypeCorrect, KioskTypeCorrect, OnboardingTypeCorrect, EdgeTypeCorrect,
     AccessTypeCorrect, SessionTypeCorrect, CaptureTypeCorrect, SiteTypeCorrect, PTL
=============================================================================
