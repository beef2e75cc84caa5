-------------------------- MODULE MCEnrollmentPages --------------------------
(***************************************************************************)
(* BiometricEnrollment with two pages that enrol: the settings page and    *)
(* the sign-up wizard.  They share no state with it; a behaviour follows   *)
(* the one that focus names, and the others stay in their initial state.   *)
(***************************************************************************)
EXTENDS MCBiometricEnrollment, SettingsPanels, SignupWizard

VARIABLE focus

PagesInit ==
    /\ focus \in {"enrollment", "settings", "signup"}
    /\ Init /\ SettingsInit /\ SignupInit
    /\ focus = "enrollment" \/ exists = [u \in Users |-> TRUE]
    /\ focus = "signup" \/ mode = "register"

PagesNext ==
    /\ UNCHANGED focus
    /\ \/ focus = "enrollment" /\ Next /\ UNCHANGED <<settingsVars, signupVars>>
       \/ focus = "settings" /\ SettingsNext /\ UNCHANGED <<vars, signupVars>>
       \/ focus = "signup" /\ SignupNext /\ UNCHANGED <<vars, settingsVars>>

PagesSpec == PagesInit /\ [][PagesNext]_<<focus, vars, settingsVars, signupVars>>

=============================================================================
