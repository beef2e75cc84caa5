--------------------------- MODULE BrowserSession ---------------------------
(***************************************************************************)
(* The session of a browser that several people share: LoginPage.tsx, the  *)
(* gate in front of the dashboard (BiometricSetupGate.tsx), the password   *)
(* form (ChangePassword.tsx), the store that keeps the session             *)
(* (useAuthStore.ts) and the guard of the dashboard (RoleRoute.tsx), with  *)
(* the answers of app.py they wait for.  Requests and timers are not       *)
(* cancelled when their page is left: what they set in the page is lost,   *)
(* but they still call login, updateUser and navigate.                     *)
(*                                                                         *)
(* Abstractions.  All pages behind the guard are the dashboard; roles are  *)
(* left out.  One request of each kind is waiting at a time; of those that *)
(* an interval repeats, one answer is followed.  Tokens go with the user.  *)
(* At the gate, holding the finger and sending its print is one action.    *)
(***************************************************************************)
EXTENDS Naturals

CONSTANTS Users,
          Attempts,   \* bound: face matches and fingerprint presses
          MaxRequests,  \* bound: requests that are sent, a press among them
          Nobody

ASSUME SessionAssumption == Nobody \notin Users /\ MaxRequests \in Nat

VARIABLES
    location,     \* the page shown
    session,      \* the persisted store fencein-auth-storage
    page,         \* state of LoginPage
    gate,         \* state of BiometricSetupGate
    attempt,      \* attempt[i]: a biometric check of the login page
    credentials,  \* the POST /auth/login that is waiting
    asked,        \* asked[k]: request of the gate that is waiting
    changing,     \* the store as the waiting password change captured it
    departing,    \* whether a timer will navigate from the gate to the dashboard
    enrolled,     \* enrolled[u]: faceRegistered, and who wrote fingerprintTemplate
    last,         \* history: who was identified last, Nobody after a logout
    cleared,      \* history: who was checked or has skipped since the last logout
    started,      \* number of requests sent, for the bound
    crossed       \* history: see Records

history == <<last, cleared, crossed>>
pages == <<location, session, page, gate, attempt, credentials, asked>>
sessionVars == <<pages, changing, departing, enrolled, history, started>>

Somebody == Users \cup {Nobody}
Asks == {"face", "finger", "skip"}

Sessions == [user : Somebody, face : BOOLEAN, method : {"PASSWORD", "FACE", "FINGERPRINT"},
             skipped : BOOLEAN]
NoSession == [user |-> Nobody, face |-> FALSE, method |-> "PASSWORD", skipped |-> FALSE]

FreshPage == [mode |-> "select", pending |-> Nobody, face |-> "idle", print |-> "idle"]
FreshGate == [face |-> FALSE, finger |-> FALSE, done |-> FALSE]

\* live: the page that sent it is still mounted.
NoCall == [user |-> Nobody, live |-> FALSE]
Waiting == [user : Somebody, live : BOOLEAN]

\* "scan": the interval of a press runs; "granted" and "refused": the timers
\* after an answer.  ref: what scanIntervalRef of its page holds; ticking: the
\* interval was not cleared when it was through; overrun, repeated: histories.
NewAttempt(i) == [pc |-> "new", kind |-> "face", direct |-> FALSE, claimed |-> Nobody,
                  user |-> Nobody, live |-> FALSE, ref |-> i, ticking |-> FALSE,
                  overrun |-> FALSE, repeated |-> FALSE]
\* A print is stored by the Python service from an image, or by the NestJS
\* backend, whose ciphertext the Python service deciphers to something else.
Prints == {"none", "python", "nest"}
HasPrint(u) == enrolled[u].finger # "none"
Has(u, k) == IF k = "face" THEN enrolled[u].face ELSE HasPrint(u)

AttemptStates == [pc : {"new", "scan", "sent", "granted", "refused", "done"},
                  kind : {"face", "finger"}, direct : BOOLEAN, claimed : Somebody,
                  user : Somebody, live : BOOLEAN, ref : Attempts, ticking : BOOLEAN,
                  overrun : BOOLEAN, repeated : BOOLEAN]

SessionTypeOK ==
    /\ location \in {"login", "setup", "dashboard"}
    /\ session \in Sessions
    /\ page \in [mode : {"select", "credentials", "choose", "face", "finger",
                         "direct_face", "direct_finger"},
                 pending : Somebody, face : {"idle", "verifying", "success", "error"},
                 print : {"idle", "success"}]
    /\ gate \in [face : BOOLEAN, finger : BOOLEAN, done : BOOLEAN]
    /\ attempt \in [Attempts -> AttemptStates]
    /\ credentials \in Waiting
    /\ asked \in [Asks -> Waiting]
    /\ changing \in Sessions
    /\ departing \in BOOLEAN
    /\ enrolled \in [Users -> [face : BOOLEAN, finger : Prints]]
    /\ last \in Somebody /\ cleared \subseteq Users /\ crossed \in BOOLEAN
    /\ started \in 0..MaxRequests

SessionInit ==
    /\ location = "login"
    /\ session = NoSession
    /\ page = FreshPage
    /\ gate = FreshGate
    /\ attempt = [i \in Attempts |-> NewAttempt(i)]
    /\ credentials = NoCall
    /\ asked = [k \in Asks |-> NoCall]
    /\ changing = NoSession
    /\ departing = FALSE
    /\ enrolled \in [Users -> [face : BOOLEAN, finger : Prints]]
    /\ last = Nobody /\ cleared = {} /\ crossed = FALSE
    /\ started = 0

-----------------------------------------------------------------------------
(* The store and the guard                                                 *)

\* login(): an answer without an authMethod counts as PASSWORD.
LoggedIn(u, face, method) == [user |-> u, face |-> face, method |-> method, skipped |-> FALSE]

\* Faulty variants: logout keeps the user; no interval is cleared.
LoggedOut_keepsUser(s) == [s EXCEPT !.method = "PASSWORD"]
Clears_nothing(i, j) == FALSE

LoggedOut(s) == NoSession

\* RoleRoute: biometricStatus is what the login answered.
Blocked(s) == s.method = "PASSWORD" /\ ~s.face /\ ~s.skipped

\* Where a navigation to a page ends with session s.
Arrive(to, s) ==
    IF to = "login" \/ s.user = Nobody THEN "login"
    ELSE IF to = "dashboard" /\ Blocked(s) THEN "setup" ELSE to

\* The store becomes s and the browser goes to a page: a page that is left
\* forgets its state, and what it had started loses touch with it.
Go(to, s, att, cred, ask) ==
    LET moved == to # location \/ Arrive(to, s) # location
        Lost(r) == IF moved THEN [r EXCEPT !.live = FALSE] ELSE r
    IN /\ session' = s
       /\ location' = Arrive(to, s)
       /\ page' = IF moved THEN FreshPage ELSE page
       /\ gate' = IF moved THEN FreshGate ELSE gate
       /\ attempt' = [i \in Attempts |-> Lost(att[i])]
       /\ credentials' = Lost(cred)
       /\ asked' = [k \in Asks |-> Lost(ask[k])]

\* Users for whom something waits that will act on the session.
Outstanding == {attempt[i].user : i \in {j \in Attempts : attempt[j].pc = "granted"}}
                 \cup ({changing.user, asked["skip"].user} \ {Nobody})

\* u acts while something of another waits: histories end there.
Records(u, who, whom) ==
    LET crossing == crossed \/ Outstanding \ {u} # {}
    IN /\ crossed' = crossing
       /\ last' = IF crossing THEN Nobody ELSE who
       /\ cleared' = IF crossing THEN {} ELSE whom

Starts == started < MaxRequests /\ started' = started + 1

Navigate(to) ==
    /\ to # location
    /\ Go(to, session, attempt, credentials, asked)
    /\ UNCHANGED <<changing, departing, enrolled, history, started>>

\* Only the store survives a reload.
Reload ==
    /\ Go(location, session,
          [i \in Attempts |-> IF attempt[i].pc = "new" THEN attempt[i]
                              ELSE [NewAttempt(i) EXCEPT !.pc = "done"]],
          NoCall, [k \in Asks |-> NoCall])
    /\ changing' = NoSession /\ departing' = FALSE
    /\ last' = IF crossed THEN Nobody ELSE session.user
    /\ UNCHANGED <<enrolled, cleared, crossed, started>>

\* Sign out in the sidebar.
Logout ==
    /\ location = "dashboard"
    /\ Go(location, LoggedOut(session), attempt, credentials, asked)
    /\ Records(Nobody, Nobody, {})
    /\ UNCHANGED <<changing, departing, enrolled, started>>

-----------------------------------------------------------------------------
(* LoginPage: the panels                                                   *)

Displays(p) ==
    /\ page' = p
    /\ UNCHANGED <<location, session, gate, attempt, asked>>

\* Buttons that lead from a panel to another.  None of them looks at what is
\* still waiting.
Choose(m) ==
    /\ location = "login"
    /\ \/ page.mode = "select" /\ m \in {"credentials", "direct_face", "direct_finger"}
       \/ page.mode = "choose" /\ m \in {"credentials", "face", "finger"}
       \/ page.mode \in {"credentials", "direct_face", "direct_finger"} /\ m = "select"
       \/ page.mode = "face" /\ m = IF HasPrint(page.pending) THEN "choose" ELSE "credentials"
       \/ page.mode = "finger" /\ m = IF enrolled[page.pending].face THEN "choose" ELSE "credentials"
    /\ Displays([page EXCEPT
                !.mode = m,
                !.face = IF m = "direct_face" \/ page.mode \in {"face", "direct_face"}
                              \/ (page.mode = "choose" /\ m = "credentials") THEN "idle" ELSE @,
                !.print = IF m = "direct_finger" \/ page.mode \in {"finger", "direct_finger"}
                          THEN "idle" ELSE @])
    /\ UNCHANGED <<credentials, changing, departing, enrolled, history, started>>

\* handleLogin
SubmitCredentials(u) ==
    /\ location = "login" /\ page.mode = "credentials"
    /\ Starts
    /\ credentials = NoCall
    /\ credentials' = [user |-> u, live |-> TRUE]
    /\ Displays([page EXCEPT !.face = "idle", !.print = "idle"])
    /\ UNCHANGED <<changing, departing, enrolled, history>>

CredentialsRefused ==
    /\ credentials # NoCall
    /\ credentials' = NoCall
    /\ UNCHANGED <<location, session, page, gate, attempt, asked, changing, departing, enrolled, history, started>>

\* An account without a sample is logged in at once and sent to the gate.
CredentialsAccepted ==
    /\ credentials # NoCall
    /\ LET u == credentials.user
       IN IF Has(u, "face") \/ HasPrint(u)
          THEN /\ credentials' = NoCall
               /\ Displays(IF credentials.live
                        THEN [page EXCEPT !.pending = u,
                                !.mode = CASE Has(u, "face") /\ HasPrint(u) -> "choose"
                                           [] Has(u, "face") /\ ~HasPrint(u) -> "face"
                                           [] OTHER -> "finger"]
                        ELSE page)
               /\ UNCHANGED history
          ELSE /\ Go("setup", LoggedIn(u, FALSE, "PASSWORD"), attempt, NoCall, asked)
               /\ Records(u, u, cleared)
    /\ UNCHANGED <<changing, departing, enrolled, started>>

-----------------------------------------------------------------------------
(* LoginPage: biometric checks                                             *)

Tracked(p, att) ==
    /\ page' = p
    /\ attempt' = att
    /\ UNCHANGED <<location, session, gate, credentials, asked, changing, departing, enrolled>>

\* handleFaceBiometricMatch, by the scan loop or the button.
StartFace(i) ==
    /\ location = "login" /\ page.mode \in {"face", "direct_face"}
    /\ page.face \in {"idle", "error"}
    /\ Starts
    /\ attempt[i].pc = "new"
    /\ Tracked([page EXCEPT !.face = "verifying"],
               [attempt EXCEPT ![i] = [@ EXCEPT !.pc = "sent", !.live = TRUE,
                  !.direct = page.mode = "direct_face", !.claimed = page.pending]])
    /\ UNCHANGED history

\* startFingerprintScan does not ask whether an interval is running.
Press(i) ==
    /\ location = "login" /\ page.mode \in {"finger", "direct_finger"}
    /\ page.print # "success"
    /\ Starts
    /\ attempt[i].pc = "new"
    /\ Tracked(page,
         [j \in Attempts |->
            IF j = i THEN [NewAttempt(i) EXCEPT !.pc = "scan", !.kind = "finger", !.live = TRUE,
                             !.direct = page.mode = "direct_finger", !.claimed = page.pending]
            ELSE IF attempt[j].live
                 THEN [attempt[j] EXCEPT !.ref = i, !.overrun = @ \/ attempt[j].pc = "scan"]
                 ELSE attempt[j]])
    /\ UNCHANGED history

\* What clearInterval(scanIntervalRef.current) stops, called by i.
Clears(i, j) == attempt[i].ref = j

\* cancelFingerprintScan, while the scanner is on screen.
Release(i) ==
    /\ location = "login" /\ page.mode \in {"finger", "direct_finger"}
    /\ page.print # "success"
    /\ attempt[i].pc = "scan" /\ attempt[i].live /\ Clears(i, i)
    /\ Tracked(page, [attempt EXCEPT ![i] = [NewAttempt(i) EXCEPT !.pc = "done"]])
    /\ UNCHANGED <<history, started>>

\* The interval of i reaches 100 and sends the print; a displaced interval
\* stops the later one and goes on.
SendPrint(i) ==
    /\ attempt[i].pc = "scan"
    /\ Tracked(page,
         [j \in Attempts |->
            IF j = i THEN [attempt[i] EXCEPT !.pc = "sent", !.ticking = ~Clears(i, i)]
            ELSE IF Clears(i, j) /\ attempt[j].pc = "scan"
                 THEN [NewAttempt(j) EXCEPT !.pc = "done"] ELSE attempt[j]])
    /\ UNCHANGED <<history, started>>

RepeatPrint(i) ==
    /\ attempt[i].ticking /\ attempt[i].pc \in {"sent", "done"}
    /\ Tracked(page, [attempt EXCEPT ![i].pc = "sent", ![i].repeated = TRUE])
    /\ UNCHANGED <<history, started>>

\* The page shows the outcome of a check, if it is still the one that asked.
Outcome(i, f, s) ==
    IF ~attempt[i].live THEN page
    ELSE IF attempt[i].kind = "face" THEN [page EXCEPT !.face = f] ELSE [page EXCEPT !.print = s]

\* verify compares with the claimed user only, the direct logins with everyone
\* who has a sample they can read.  verify-fingerprint answers 422: the page
\* sends no fingerprintTemplate.
Granted(i, u) ==
    /\ attempt[i].pc = "sent"
    /\ IF attempt[i].kind = "face"
       THEN enrolled[u].face /\ (attempt[i].direct \/ u = attempt[i].claimed)
       ELSE enrolled[u].finger = "python" /\ attempt[i].direct
    /\ Tracked(Outcome(i, "success", "success"),
               [attempt EXCEPT ![i].pc = "granted", ![i].user = u])
    /\ Records(u, u, cleared \cup {u})
    /\ UNCHANGED started

Refused(i) ==
    /\ attempt[i].pc = "sent"
    /\ Tracked(Outcome(i, "error", "idle"), [attempt EXCEPT ![i].pc = "refused"])
    /\ UNCHANGED <<history, started>>

Ended(i) == IF attempt[i].ticking THEN [attempt[i] EXCEPT !.pc = "done", !.user = Nobody]
            ELSE [NewAttempt(i) EXCEPT !.pc = "done"]

\* 1200 ms after a match: login and navigate.
GrantFires(i) ==
    /\ attempt[i].pc = "granted"
    /\ LET u == attempt[i].user
       IN Go("dashboard",
             LoggedIn(u, enrolled[u].face, IF attempt[i].kind = "face" THEN "FACE" ELSE "FINGERPRINT"),
             [attempt EXCEPT ![i] = Ended(i)], credentials, asked)
    /\ UNCHANGED <<changing, departing, enrolled, history, started>>

\* 2500 ms after a mismatch: the claim is dropped, whoever's it is by now.
ResetFires(i) ==
    /\ attempt[i].pc = "refused"
    /\ Tracked(IF attempt[i].live
               THEN [mode |-> IF attempt[i].direct THEN "select" ELSE "credentials",
                     pending |-> Nobody, face |-> "idle",
                     print |-> IF attempt[i].kind = "finger" THEN "idle" ELSE page.print]
               ELSE page,
               [attempt EXCEPT ![i] = Ended(i)])
    /\ UNCHANGED <<history, started>>

-----------------------------------------------------------------------------
(* BiometricSetupGate                                                      *)

AtGate(g, a) ==
    /\ gate' = g
    /\ asked' = a
    /\ UNCHANGED <<location, page, attempt, credentials>>

\* captureFace, the end of a fingerprint scan, handleSkip.
Ask(k) ==
    /\ location = "setup"
    /\ Starts
    /\ asked[k] = NoCall
    /\ IF k = "skip" THEN ~gate.face /\ ~gate.finger ELSE ~gate[k]
    /\ AtGate(gate, [asked EXCEPT ![k] = [user |-> session.user, live |-> TRUE]])
    /\ IF k = "skip" THEN Records(session.user, last, cleared) ELSE UNCHANGED history
    /\ UNCHANGED <<session, changing, departing, enrolled>>

AskRefused(k) ==
    /\ asked[k] # NoCall
    /\ AtGate(gate, [asked EXCEPT ![k] = NoCall])
    /\ UNCHANGED <<session, changing, departing, enrolled, history, started>>

\* The backend refuses whom it has a sample of.  updateUser({faceEnrolled: true})
\* sets a field of the user: biometricStatus, which the guard reads, stays as
\* the login set it.
EnrolAnswered(k) ==
    /\ k # "skip" /\ asked[k] # NoCall
    /\ ~Has(asked[k].user, k)
    /\ enrolled' = IF k = "face" THEN [enrolled EXCEPT ![asked[k].user].face = TRUE]
                   ELSE [enrolled EXCEPT ![asked[k].user].finger = "nest"]
    /\ AtGate(IF asked[k].live THEN [gate EXCEPT ![k] = TRUE] ELSE gate,
              [asked EXCEPT ![k] = NoCall])
    /\ UNCHANGED <<session, changing, departing, history, started>>

\* updateUser({biometricSkipped: true}), whoever is the user by now.
SkipAnswered ==
    /\ asked["skip"] # NoCall
    /\ session' = IF session.user = Nobody THEN session ELSE [session EXCEPT !.skipped = TRUE]
    /\ cleared' = IF crossed THEN {} ELSE cleared \cup {asked["skip"].user}
    /\ AtGate(gate, [asked EXCEPT !["skip"] = NoCall])
    /\ departing' = TRUE
    /\ UNCHANGED <<changing, enrolled, last, crossed, started>>

\* handleCompleteGate
CompleteGate ==
    /\ location = "setup"
    /\ gate.face \/ gate.finger
    /\ AtGate([gate EXCEPT !.done = TRUE], asked)
    /\ departing' = TRUE
    /\ UNCHANGED <<session, changing, enrolled, history, started>>

LeaveGate ==
    /\ departing
    /\ departing' = FALSE
    /\ Go("dashboard", session, attempt, credentials, asked)
    /\ UNCHANGED <<changing, enrolled, history, started>>

-----------------------------------------------------------------------------
(* ChangePassword                                                          *)

SubmitChange ==
    /\ location = "dashboard"
    /\ Starts
    /\ changing = NoSession
    /\ changing' = session
    /\ Records(session.user, last, cleared)
    /\ UNCHANGED <<pages, departing, enrolled>>

ChangeRefused ==
    /\ changing # NoSession
    /\ changing' = NoSession
    /\ UNCHANGED <<pages, departing, enrolled, history, started>>

\* login({ ...user, mustChangePassword: false }, token): biometricStatus and
\* authMethod fall back to null and PASSWORD.
ChangeAnswered ==
    /\ changing # NoSession
    /\ changing' = NoSession
    /\ Go(location, [changing EXCEPT !.face = FALSE, !.method = "PASSWORD"],
          attempt, credentials, asked)
    /\ UNCHANGED <<departing, enrolled, history, started>>

SessionNext ==
    \/ \E to \in {"login", "setup", "dashboard"} : Navigate(to)
    \/ Reload \/ Logout
    \/ \E m \in {"select", "credentials", "choose", "face", "finger", "direct_face", "direct_finger"} : Choose(m)
    \/ \E u \in Users : SubmitCredentials(u)
    \/ CredentialsRefused \/ CredentialsAccepted
    \/ \E i \in Attempts :
         \/ StartFace(i) \/ Press(i) \/ Release(i) \/ SendPrint(i) \/ RepeatPrint(i)
         \/ \E u \in Users : Granted(i, u)
         \/ Refused(i) \/ GrantFires(i) \/ ResetFires(i)
    \/ \E k \in Asks : Ask(k) \/ AskRefused(k) \/ EnrolAnswered(k)
    \/ SkipAnswered \/ CompleteGate \/ LeaveGate
    \/ SubmitChange \/ ChangeRefused \/ ChangeAnswered

SessionSpec == SessionInit /\ [][SessionNext]_sessionVars

-----------------------------------------------------------------------------
\* Whoever is behind the guard has passed a biometric check or skipped the
\* gate since the last logout, and the session is that of the user identified
\* last, once no match waits for its timer.  Only a request or a timer that
\* outlives a logout, or another's identification, can make it otherwise
\* (RoleRoute.tsx; LoginPage.tsx, setTimeout; ChangePassword.tsx and
\* BiometricSetupGate.tsx, whose answers apply to whoever is in the store).
SessionFollowsTheChecks ==
    \/ crossed
    \/ /\ location = "dashboard" => session.user \in cleared
       /\ (\A i \in Attempts : attempt[i].pc # "granted") => session.user \in {Nobody, last}

\* A press on the scanner sends one print.  An interval that goes on sending
\* was displaced from scanIntervalRef by a second press while it was running,
\* and then cleared the other instead of itself (LoginPage.tsx,
\* startFingerprintScan).
RepeatNeedsSecondPress == \A i \in Attempts : attempt[i].repeated => attempt[i].overrun

\* BiometricSetupGate.tsx: "Biometric compliance verified. Accessing
\* Dashboard...": the guard of the dashboard admits whom the gate lets go.
CompletedGateAdmits == location = "setup" /\ gate.done => ~Blocked(session)
=============================================================================
