-------------------------- MODULE KioskAttendance --------------------------
(***************************************************************************)
(* The kiosk page and its offline queue in the browser: captureAndMatch of *)
(* KioskControlPage.tsx, useOfflineSync.ts (records in IndexedDB) and the  *)
(* encryption key that cryptoUtils.ts keeps in local storage.  JavaScript  *)
(* runs one callback at a time; every await ends an action.                *)
(*                                                                         *)
(* Abstractions.  A capture is one tap on the button; the record it queues *)
(* and the key it may generate bear its name.  The email, the position and *)
(* the scores of a record are left out.                                    *)
(***************************************************************************)
EXTENDS Naturals, FiniteSets

CONSTANTS Captures,   \* taps on "Tap to Authenticate"
          NoKey       \* local storage holds no key

ASSUME KioskAssumption == NoKey \notin Captures

VARIABLES
    online,     \* navigator.onLine and the page's isOnline
    dbOpen,     \* whether the page has its IndexedDB handle
    status,     \* status of the page
    leaving,    \* the idle panel is still on screen, in its exit animation
    timers,     \* pending setTimeout(() => setStatus('idle'), 3000)
    key,        \* the key in local storage: the capture that generated it
    queue,      \* records in attendance_queue
    sealed,     \* sealed[c]: the key c's record is encrypted with
    capture,    \* capture[c]: progress and closure of captureAndMatch
    doubleTap   \* history: a tap was taken by the panel that was leaving

kioskVars == <<online, dbOpen, status, leaving, timers, key, queue, sealed,
               capture, doubleTap>>

Keys == Captures \cup {NoKey}

\* "put" has its key, "generate" waits for a new one; retried: in the catch
\* branch.  online and db are the values the closure of the tap holds.
CaptureStates == [pc : {"new", "detect", "match", "generate", "put", "success", "error", "thrown"},
                  online : BOOLEAN, db : BOOLEAN, retried : BOOLEAN, key : Keys]

KioskTypeOK ==
    /\ online \in BOOLEAN /\ dbOpen \in BOOLEAN
    /\ status \in {"idle", "scanning", "success", "error"}
    /\ leaving \in BOOLEAN
    /\ timers \in Nat
    /\ key \in Keys
    /\ queue \subseteq Captures
    /\ sealed \in [Captures -> Keys]
    /\ capture \in [Captures -> CaptureStates]
    /\ doubleTap \in BOOLEAN

KioskInit ==
    /\ online \in BOOLEAN
    /\ dbOpen = FALSE
    /\ status = "idle"
    /\ leaving = FALSE
    /\ timers = 0
    /\ key = NoKey
    /\ queue = {}
    /\ sealed = [c \in Captures |-> NoKey]
    /\ capture = [c \in Captures |-> [pc |-> "new", online |-> FALSE, db |-> FALSE,
                                      retried |-> FALSE, key |-> NoKey]]
    /\ doubleTap = FALSE

-----------------------------------------------------------------------------
(* Faulty variants: what TLC must catch when one replaces the code's rule. *)

PanelTakesTap_always == TRUE

SyncDeletes_anyAnswer(db) == queue

-----------------------------------------------------------------------------
(* useOfflineSync                                                          *)

OpenDb ==
    /\ ~dbOpen
    /\ dbOpen' = TRUE
    /\ UNCHANGED <<online, status, leaving, timers, key, queue, sealed, capture, doubleTap>>

\* The fetch of syncQueue carries no Authorization header and the attendance
\* controller is behind JwtAuthGuard; or the request fails in the network.
SyncAnswer == "unauthorized"

\* What syncQueue deletes from the store: records it can decrypt and that are
\* answered ok or 400.  Without a handle it returns at once.
SyncDeletes(db) ==
    {c \in queue : db /\ sealed[c] = key /\ SyncAnswer \in {"ok", "bad_request"}}

\* The listener holds the syncQueue of the first render, where db is null.
HandleOnline ==
    /\ ~online
    /\ online' = TRUE
    /\ queue' = queue \ SyncDeletes(FALSE)
    /\ UNCHANGED <<dbOpen, status, leaving, timers, key, sealed, capture, doubleTap>>

HandleOffline ==
    /\ online
    /\ online' = FALSE
    /\ UNCHANGED <<dbOpen, status, leaving, timers, key, queue, sealed, capture, doubleTap>>

-----------------------------------------------------------------------------
(* KioskControlPage                                                        *)

Shows(s) ==
    /\ status' = s
    /\ leaving' = (leaving \/ (status = "idle" /\ s # "idle"))

\* Every way captureAndMatch returns sets the timer.
Ends(c, s) ==
    /\ capture' = [capture EXCEPT ![c].pc = s]
    /\ Shows(s)
    /\ timers' = timers + 1

\* The button is part of the idle panel.  AnimatePresence keeps the panel that
\* leaves, with a handler whose closure still reads status "idle".
PanelTakesTap == status = "idle" \/ leaving

\* The first four tests refuse without an await.
Tap(c) ==
    /\ capture[c].pc = "new"
    /\ PanelTakesTap
    /\ \/ Ends(c, "error")
       \/ /\ capture' = [capture EXCEPT ![c].pc = "detect", ![c].online = online,
                                        ![c].db = dbOpen]
          /\ Shows("scanning")
          /\ UNCHANGED timers
    /\ doubleTap' = (doubleTap \/ (status # "idle" /\ leaving))
    /\ UNCHANGED <<online, dbOpen, key, queue, sealed>>

ExitAnimationEnds ==
    /\ leaving
    /\ leaving' = FALSE
    /\ UNCHANGED <<online, dbOpen, status, timers, key, queue, sealed, capture, doubleTap>>

TimerFires ==
    /\ timers > 0
    /\ timers' = timers - 1
    /\ status' = "idle"
    /\ UNCHANGED <<online, dbOpen, leaving, key, queue, sealed, capture, doubleTap>>

\* No face, several faces, a spoof or no screenshot.
DetectRefuses(c) ==
    /\ capture[c].pc = "detect"
    /\ Ends(c, "error")
    /\ UNCHANGED <<online, dbOpen, key, queue, sealed, doubleTap>>

\* queueAttendance up to its first await: encryptData reads the key.
QueueAttendance(c) ==
    /\ IF ~capture[c].db THEN Ends(c, "success")      \* it returned false
       ELSE /\ capture' = [capture EXCEPT ![c].key = key,
                             ![c].pc = IF key = NoKey THEN "generate" ELSE "put"]
            /\ UNCHANGED <<status, leaving, timers>>
    /\ UNCHANGED <<online, dbOpen, key, queue, sealed, doubleTap>>

\* Offline, both a detected face and an exception queue a record.
DetectOffline(c) ==
    /\ capture[c].pc = "detect"
    /\ ~capture[c].online
    /\ QueueAttendance(c)

\* Online: the answer of POST /biometrics/match, sent without a token.
DetectOnline(c) ==
    /\ capture[c].pc = "detect"
    /\ capture[c].online
    /\ capture' = [capture EXCEPT ![c].pc = "match"]
    /\ UNCHANGED <<online, dbOpen, status, leaving, timers, key, queue, sealed, doubleTap>>

\* 401 has no data, reading it throws; a failed request and an exception of
\* the detection end in the same branch.
MatchFails(c) ==
    /\ capture[c].pc = "match" \/ (capture[c].pc = "detect" /\ capture[c].online)
    /\ Ends(c, "error")
    /\ UNCHANGED <<online, dbOpen, key, queue, sealed, doubleTap>>

\* getEncryptionKey: whatever was stored meanwhile is overwritten.
GenerateKey(c) ==
    /\ capture[c].pc = "generate"
    /\ key' = c
    /\ capture' = [capture EXCEPT ![c].pc = "put", ![c].key = c]
    /\ UNCHANGED <<online, dbOpen, status, leaving, timers, queue, sealed, doubleTap>>

Put(c) ==
    /\ capture[c].pc = "put"
    /\ queue' = queue \cup {c}
    /\ sealed' = [sealed EXCEPT ![c] = capture[c].key]
    /\ Ends(c, "success")
    /\ UNCHANGED <<online, dbOpen, key, doubleTap>>

\* The put is rejected: the catch branch queues again, and what it throws
\* leaves the page in "scanning" without a timer.
PutFails(c) ==
    /\ capture[c].pc = "put"
    /\ capture' = [capture EXCEPT ![c].retried = TRUE,
                     ![c].pc = IF capture[c].retried THEN "thrown" ELSE "put",
                     ![c].key = IF capture[c].retried THEN @ ELSE key]
    /\ UNCHANGED <<online, dbOpen, status, leaving, timers, key, queue, sealed, doubleTap>>

KioskNext ==
    \/ OpenDb \/ HandleOnline \/ HandleOffline \/ ExitAnimationEnds \/ TimerFires
    \/ \E c \in Captures :
         \/ Tap(c) \/ DetectRefuses(c) \/ DetectOffline(c) \/ DetectOnline(c)
         \/ MatchFails(c) \/ GenerateKey(c) \/ Put(c) \/ PutFails(c)

KioskSpec == KioskInit /\ [][KioskNext]_kioskVars

-----------------------------------------------------------------------------
\* Two captures that find no key both generate one, and the record sealed with
\* the one that was overwritten can never be read again.  The page shows its
\* button only while nothing runs, so this takes a tap on the panel that is
\* fading out (cryptoUtils.ts, getEncryptionKey; KioskControlPage.tsx, guard).
UnreadableNeedsDoubleTap == (\E c \in queue : sealed[c] # key) => doubleTap

\* An attendance that the kiosk confirmed is in the queue and stays there,
\* whatever the network and the syncs do, because no answer of the backend
\* acknowledges it; the exception is a kiosk whose database had not opened
\* when the button was tapped, which confirms what it does not store.
ConfirmedIsQueued ==
    \A c \in Captures : capture[c].pc = "success" => c \in queue \/ ~capture[c].db
=============================================================================
