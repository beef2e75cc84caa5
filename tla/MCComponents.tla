---------------------------- MODULE MCComponents ----------------------------
(***************************************************************************)
(* Eight components that share no state, checked in one run: a behaviour   *)
(* follows the one that focus names, the others stay in an initial state.  *)
(***************************************************************************)
EXTENDS LivenessNonce, KioskAttendance, WorkerOnboarding, EdgeMonitor,
        AccountAccess, BrowserSession, CaptureVerdicts, SiteDay, TLC

VARIABLE focus

componentVars == <<focus, nonceVars, kioskVars, onboardingVars, edgeVars, accessVars, sessionVars,
                   captureVars, siteVars>>

\* What two users have enrolled: one of them everything and the other nothing,
\* both everything, or each one of the two samples.
Nothing == [face |-> FALSE, finger |-> "none"]
Everything == [face |-> TRUE, finger |-> "python"]
Enrolments == {{Nothing, Everything}, {Everything},
               {[Nothing EXCEPT !.face = TRUE], [Nothing EXCEPT !.finger = "nest"]}}

\* Where a component has several initial states, all count when it is followed.
Init ==
    /\ focus \in {"nonce", "kiosk", "onboarding", "edge", "access", "session", "capture", "site"}
    /\ NonceInit /\ KioskInit /\ OnboardingInit /\ EdgeInit /\ AccessInit /\ SessionInit
    /\ CaptureInit /\ SiteInit
    /\ focus = "kiosk" \/ online
    /\ focus = "access" \/ \A a \in Accounts : standing[a] = "open"
    /\ {enrolled[u] : u \in Users} \in IF focus = "session" THEN Enrolments ELSE {{Nothing}}

\* The components that are not followed.
OthersStay ==
    /\ IF focus = "nonce" THEN TRUE ELSE UNCHANGED nonceVars
    /\ IF focus = "kiosk" THEN TRUE ELSE UNCHANGED kioskVars
    /\ IF focus = "onboarding" THEN TRUE ELSE UNCHANGED onboardingVars
    /\ IF focus = "edge" THEN TRUE ELSE UNCHANGED edgeVars
    /\ IF focus = "access" THEN TRUE ELSE UNCHANGED accessVars
    /\ IF focus = "session" THEN TRUE ELSE UNCHANGED sessionVars
    /\ IF focus = "capture" THEN TRUE ELSE UNCHANGED captureVars
    /\ IF focus = "site" THEN TRUE ELSE UNCHANGED siteVars

Next ==
    /\ UNCHANGED focus
    /\ \/ focus = "nonce" /\ NonceNext /\ OthersStay
       \/ focus = "kiosk" /\ KioskNext /\ OthersStay
       \/ focus = "onboarding" /\ OnboardingNext /\ OthersStay
       \/ focus = "edge" /\ EdgeNext /\ OthersStay
       \/ focus = "access" /\ AccessNext /\ OthersStay
       \/ focus = "session" /\ SessionNext /\ OthersStay
       \/ focus = "capture" /\ CaptureNext /\ OthersStay
       \/ focus = "site" /\ SiteNext /\ OthersStay

Spec == Init /\ [][Next]_componentVars

\* The type invariants of the eight modules.
TypeOK ==
    /\ focus = "nonce" => NonceTypeOK
    /\ focus = "kiosk" => KioskTypeOK
    /\ focus = "onboarding" => OnboardingTypeOK
    /\ focus = "edge" => EdgeTypeOK
    /\ focus = "access" => AccessTypeOK
    /\ focus = "session" => SessionTypeOK
    /\ focus = "capture" => CaptureTypeOK
    /\ focus = "site" => SiteTypeOK

\* What the callers of a site report.  Entries with trust 1 and, where the checks
\* failed, with so much that the trust outweighs what the failure costs.  Nobody
\* is turned away at an exit, and another event is of interest where it failed;
\* no figure reads the trust score of either.
SiteEvents == {<<"ENTRY", TRUE, Full>>, <<"ENTRY", FALSE, 4 * Full>>,
               <<"EXIT", TRUE, 0>>, <<"OTHER", FALSE, 0>>}

CONSTANTS p1, p2   \* model values that several components use

\* Pool, Captures, Workers, Requests, Attempts, Crew and Recorders are {p1, p2},
\* and Calls contains it; nothing else mentions these values.
Symmetric == Permutations({p1, p2}) \cup Permutations(Users)
=============================================================================
