---------------------------- MODULE MCTenantPages ----------------------------
(***************************************************************************)
(* TenantOnboarding with two components that work inside tenants: the live *)
(* pages of a browser and the biometric checks of both services.  They     *)
(* share no state with it; a behaviour follows the one that focus names,   *)
(* and the others stay in their initial state.                             *)
(***************************************************************************)
EXTENDS MCTenantOnboarding, LivePages, BiometricChecks

VARIABLE focus

\* One user has enrolled a face when the checks begin.
ServicesInit ==
    /\ focus \in {"onboarding", "live", "checks"}
    /\ Init /\ LiveInit /\ ChecksInit
    /\ IF focus = "checks" THEN Cardinality({u \in Profiles : HasFace(profile[u])}) = 1
       ELSE accounts = {}

ServicesNext ==
    /\ UNCHANGED focus
    /\ \/ focus = "onboarding" /\ Next /\ UNCHANGED <<liveVars, checkVars>>
       \/ focus = "live" /\ LiveNext /\ UNCHANGED <<vars, checkVars>>
       \/ focus = "checks" /\ ChecksNext /\ UNCHANGED <<vars, liveVars>>

ServicesSpec == ServicesInit /\ [][ServicesNext]_<<focus, vars, liveVars, checkVars>>

=============================================================================
