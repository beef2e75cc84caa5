--------------------------- MODULE AccountAccess ---------------------------
(***************************************************************************)
(* Accounts, passwords and tokens: login and enrollmentLogin of the NestJS *)
(* backend, POST /api/v1/auth/login of the Python service ("portal"), the  *)
(* change of a password (which both have), the creation and removal of     *)
(* workers, and the guards in front of them.  A handler works on the row   *)
(* it read while bcrypt compares and hashes; nothing locks a row.  The two *)
(* services share their tokens.                                            *)
(*                                                                         *)
(* Abstractions.  One tenant; roles do not change, nothing writes them.    *)
(* The state of an account is ACTIVE: what is created here is, and removal *)
(* leaves it.  Every new password differs from all others: it bears the    *)
(* name of the request that brings it.  A token names its user only;       *)
(* another one changes nothing.                                            *)
(***************************************************************************)
CONSTANTS Accounts,   \* email addresses
          Managers,   \* those whose role may create and remove workers
          Calls,      \* calls of the handlers
          Initial,    \* the password of an account nobody changed yet
          Wrong       \* a password that is not the account's

ASSUME AccessAssumption ==
    /\ Accounts # {} /\ Managers \subseteq Accounts
    /\ Initial \notin Calls /\ Wrong \notin Calls \cup {Initial}

VARIABLES
    standing,   \* standing[a]: whether the row exists, and isActive
    password,   \* password[a]: what the stored hash was made from
    tokens,     \* accounts with a token that has not expired
    call        \* call[c]: progress and local variables of a handler

accessVars == <<standing, password, tokens, call>>

Passwords == Calls \cup {Initial}

NewCall == [pc |-> "new", kind |-> "login", account |-> CHOOSE a \in Accounts : TRUE,
            given |-> Initial, open |-> FALSE, stored |-> Initial, stale |-> FALSE, met |-> {}]

\* open: the row passed the tests of the login; stored: its password then.
\* Histories: met, the calls that were in progress at the same time; stale, a
\* token issued when the row had become another.
CallStates == [pc : {"new", "busy", "done", "refused"},
               kind : {"login", "portal", "change", "remove", "create"},
               account : Accounts, given : Passwords \cup {Wrong}, open : BOOLEAN,
               stored : Passwords, stale : BOOLEAN, met : SUBSET Calls]

AccessTypeOK ==
    /\ standing \in [Accounts -> {"absent", "open", "removed"}]
    /\ password \in [Accounts -> Passwords]
    /\ tokens \subseteq Accounts
    /\ call \in [Calls -> CallStates]

\* Managers exist; whoever exists has logged in.
AccessInit ==
    /\ standing \in [Accounts -> {"absent", "open"}]
    /\ \A m \in Managers : standing[m] = "open"
    /\ password = [a \in Accounts |-> Initial]
    /\ tokens = {a \in Accounts : standing[a] = "open"}
    /\ call = [c \in Calls |-> NewCall]

-----------------------------------------------------------------------------
(* Faulty variants: what TLC must catch when one replaces the code's rule. *)

Admitted_anyState(c) == call[c].stored = call[c].given

OldPassValid_unchecked(given, stored) == TRUE

-----------------------------------------------------------------------------
InProgress(c) == call[c].pc = "busy"

\* The portal selects state = 'ACTIVE' and does not look at isActive.
Open(kind, a) ==
    \/ standing[a] = "open"
    \/ kind = "portal" /\ standing[a] = "removed"

\* The first statement of a handler has read the row of a.
Read(c, kind, a, given) ==
    /\ call[c].pc = "new"
    /\ LET others == {d \in Calls : call[d].pc = "busy"}
       IN call' = [d \in Calls |->
                     IF d = c THEN [NewCall EXCEPT !.pc = "busy", !.kind = kind, !.account = a,
                                      !.given = given, !.open = Open(kind, a),
                                      !.stored = password[a], !.met = others]
                     ELSE IF d \in others THEN [call[d] EXCEPT !.met = @ \cup {c}] ELSE call[d]]
    /\ UNCHANGED <<standing, password, tokens>>

Answer(c) == call' = [call EXCEPT ![c].pc = "done"]

Refuse(c) ==
    /\ call' = [call EXCEPT ![c] = [NewCall EXCEPT !.pc = "refused"]]
    /\ UNCHANGED <<standing, password, tokens>>

\* The handler throws, or the process dies.
CallFails(c) == InProgress(c) /\ Refuse(c)

-----------------------------------------------------------------------------
(* login, enrollmentLogin, login_user                                      *)

LoginRead(c, a, given) ==
    /\ standing[a] # "absent"
    /\ \E kind \in {"login", "portal"} : Read(c, kind, a, given)

Admitted(c) == call[c].stored = call[c].given /\ call[c].open

LoginAnswer(c) ==
    /\ InProgress(c) /\ call[c].kind \in {"login", "portal"}
    /\ IF Admitted(c)
       THEN LET a == call[c].account
            IN /\ tokens' = tokens \cup {a}
               /\ call' = [call EXCEPT ![c].pc = "done",
                             ![c].stale = ~Open(call[c].kind, a) \/ password[a] # call[c].given]
               /\ UNCHANGED <<standing, password>>
       ELSE Refuse(c)

TokenExpires(a) ==
    /\ a \in tokens
    /\ tokens' = tokens \ {a}
    /\ UNCHANGED <<standing, password, call>>

-----------------------------------------------------------------------------
(* changePassword: JwtStrategy asks for a row, not for an open account.    *)

ChangeRead(c, a, given) ==
    /\ a \in tokens
    /\ Read(c, "change", a, given)

OldPassValid(given, stored) == given = stored

ChangeWrite(c) ==
    /\ InProgress(c) /\ call[c].kind = "change"
    /\ IF OldPassValid(call[c].given, call[c].stored)
       THEN /\ password' = [password EXCEPT ![call[c].account] = c]
            /\ Answer(c)
            /\ UNCHANGED <<standing, tokens>>
       ELSE Refuse(c)

-----------------------------------------------------------------------------
(* POST and DELETE /workers                                                *)

CreateBegin(c, m, a) ==
    /\ m \in tokens \cap Managers
    /\ Read(c, "create", a, Initial)

\* The address is unique: a second insert throws.
CreateInsert(c) ==
    /\ InProgress(c) /\ call[c].kind = "create"
    /\ IF standing[call[c].account] = "absent"
       THEN /\ standing' = [standing EXCEPT ![call[c].account] = "open"]
            /\ password' = [password EXCEPT ![call[c].account] = c]
            /\ Answer(c)
            /\ UNCHANGED tokens
       ELSE Refuse(c)

RemoveRead(c, m, a) ==
    /\ m \in tokens \cap Managers
    /\ standing[a] # "absent"
    /\ Read(c, "remove", a, Initial)

\* isActive := false; tokens are left as they are.
RemoveWrite(c) ==
    /\ InProgress(c) /\ call[c].kind = "remove"
    /\ standing' = [standing EXCEPT ![call[c].account] = "removed"]
    /\ Answer(c)
    /\ UNCHANGED <<password, tokens>>

AccessNext ==
    \/ \E a \in Accounts : TokenExpires(a)
    \/ \E c \in Calls :
         \/ \E a \in Accounts : \E p \in {password[a], Wrong} : LoginRead(c, a, p) \/ ChangeRead(c, a, p)
         \/ \E m \in Managers, a \in Accounts : CreateBegin(c, m, a) \/ RemoveRead(c, m, a)
         \/ LoginAnswer(c) \/ ChangeWrite(c) \/ CreateInsert(c) \/ RemoveWrite(c) \/ CallFails(c)

AccessSpec == AccessInit /\ [][AccessNext]_accessVars

-----------------------------------------------------------------------------
Confirmed(c, kind, a) == call[c].pc = "done" /\ call[c].kind = kind /\ call[c].account = a

\* A password change that was confirmed is in force until a later change
\* that was given it: another outcome takes a second change of the account
\* that was in progress together with it (changePassword compares with the row
\* it read, hashes, and writes whatever the row holds by then).
ConfirmedPasswordStands ==
    \A c \in Calls, a \in Accounts :
      Confirmed(c, "change", a) =>
        \/ password[a] = c
        \/ \E d \in Calls \ {c} :
             Confirmed(d, "change", a) /\ (call[d].given = c \/ d \in call[c].met)

\* A login gives a token to an account it would by now refuse, or for a
\* password that is no longer the account's, only if the removal or the change
\* was in progress during the login (auth.service.ts, login: the row it tests
\* was read before bcrypt ran; the portal never refuses a removed account).
StaleTokenNeedsOverlap ==
    \A c \in Calls :
      call[c].stale => \E d \in call[c].met :
                         \/ Confirmed(d, "remove", call[c].account)
                         \/ Confirmed(d, "change", call[c].account)
=============================================================================
