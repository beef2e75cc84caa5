-------------------------- MODULE TenantOnboarding --------------------------
(***************************************************************************)
(* How organisations come to exist: AuthService.submitAccessRequest,       *)
(* reviewAccessRequest, provisionTenant and registerOrganization.  The     *)
(* last two create a tenant and its super admin in one database            *)
(* transaction whose numbers (OG001, SA001, ...) are read from the highest *)
(* committed row.  Transactions run at READ COMMITTED: a reader does not   *)
(* see the inserts of a transaction still open, and an insert of a key     *)
(* that an open transaction has inserted waits for that transaction to     *)
(* end.  The checks before the transaction are separate statements.        *)
(*                                                                         *)
(* Abstractions.  A code is its number; string order is SortKey.  Slugs    *)
(* are left out: a slug looked up after the code is free whenever the code *)
(* is.  So are requests refused on their own contents (passwords, a face   *)
(* the Python service rejects, an unknown id), which write nothing.        *)
(***************************************************************************)
EXTENDS Naturals, Sequences, FiniteSets

CONSTANTS Emails,
          Handlers,       \* requests that can be in flight at the same time
          FirstCode,      \* organisations that exist initially, numbered 1..FirstCode
          LastPadded,     \* 999: the last number that padStart(3) keeps in order
          MaxRequests,    \* bound: access requests on file
          MaxTenants,     \* bound: no new transaction starts beyond
          Nil

ASSUME OnboardingAssumption ==
    /\ FirstCode \in Nat /\ LastPadded \in Nat
    /\ MaxRequests \in Nat /\ MaxTenants \in Nat
    /\ Nil \notin Emails

VARIABLES
    requests,    \* table organization_requests, in order of insertion
    tenants,     \* tenants created, each with its super admin (committed)
    users,       \* emails in table users (unique)
    pc,          \* handlers: next statement
    email, row,  \* handlers: the email, the request provisioned (0: none)
    code, admin  \* handlers: the numbers of the open transaction

handlerVars == <<pc, email, row, code, admin>>
vars == <<requests, tenants, users, handlerVars>>

Statuses == {"PENDING", "UNDER_REVIEW", "APPROVED", "REJECTED", "ONBOARDED", "SUSPENDED"}
Steps == {"idle", "sr_create", "tx_code", "tx_tenant", "tx_admin", "tx_user", "tx_commit"}

TypeOK ==
    /\ requests \in Seq([email : Emails, status : Statuses])
    /\ tenants \subseteq [code : Nat, admin : Nat, email : Emails, request : Nat]
    /\ users \subseteq Emails
    /\ pc \in [Handlers -> Steps]
    /\ email \in [Handlers -> Emails \cup {Nil}]
    /\ row \in [Handlers -> Nat]
    /\ code \in [Handlers -> Nat]
    /\ admin \in [Handlers -> Nat]

Init ==
    /\ requests = << >>
    /\ tenants = {}
    /\ users = {}
    /\ pc = [h \in Handlers |-> "idle"]
    /\ email = [h \in Handlers |-> Nil]
    /\ row = [h \in Handlers |-> 0]
    /\ code = [h \in Handlers |-> 0]
    /\ admin = [h \in Handlers |-> 0]

Codes == 1..FirstCode \cup {t.code : t \in tenants}
Admins == 1..FirstCode \cup {t.admin : t \in tenants}

\* Transactions whose insert of the tenant has succeeded.
Creators == {h \in Handlers : pc[h] \in {"tx_admin", "tx_user", "tx_commit"}}

-----------------------------------------------------------------------------
(* Faulty variants: what TLC must catch when one replaces the code's rule. *)

CodeTaken_noConstraint(h) == FALSE

EmailTaken_noConstraint(h) == FALSE

-----------------------------------------------------------------------------
\* "OG" and the number: three digits, four beyond 999 (compared as strings).
SortKey(n) == IF n <= LastPadded THEN 20 * n ELSE 2 * n + 1

Goto(h, step) == pc' = [pc EXCEPT ![h] = step]

\* The handler answers or throws; an open transaction that has not committed
\* is rolled back with it.
Finish(h) ==
    /\ pc' = [pc EXCEPT ![h] = "idle"]
    /\ email' = [email EXCEPT ![h] = Nil]
    /\ row' = [row EXCEPT ![h] = 0]
    /\ code' = [code EXCEPT ![h] = 0]
    /\ admin' = [admin EXCEPT ![h] = 0]

\* A statement fails, the transaction times out, the process dies.
Abort(h) ==
    /\ pc[h] # "idle"
    /\ Finish(h)
    /\ UNCHANGED <<requests, tenants, users>>

\* Another endpoint creates an account; the unique email makes it wait for an
\* open transaction that has inserted the same one.
NewUser(e) ==
    /\ e \notin users
    /\ \A h \in Handlers : pc[h] = "tx_commit" => email[h] # e
    /\ users' = users \cup {e}
    /\ UNCHANGED <<requests, tenants, handlerVars>>

-----------------------------------------------------------------------------
(* submitAccessRequest and reviewAccessRequest                             *)

RequestsOf(e) == {i \in DOMAIN requests : requests[i].email = e}

\* findFirst without an order looks at one row of the email, whichever.
MaySubmit(e) ==
    \/ RequestsOf(e) = {}
    \/ \E i \in RequestsOf(e) : requests[i].status = "REJECTED"

Submit(h, e) ==
    /\ pc[h] = "idle"
    /\ Len(requests) < MaxRequests
    /\ MaySubmit(e)
    /\ Goto(h, "sr_create")
    /\ email' = [email EXCEPT ![h] = e]
    /\ UNCHANGED <<requests, tenants, users, row, code, admin>>

SubmitCreate(h) ==
    /\ pc[h] = "sr_create"
    /\ requests' = Append(requests, [email |-> email[h], status |-> "PENDING"])
    /\ Finish(h)
    /\ UNCHANGED <<tenants, users>>

\* Any status follows any other.
Review(i, status) ==
    /\ requests' = [requests EXCEPT ![i].status = status]
    /\ UNCHANGED <<tenants, users, handlerVars>>

-----------------------------------------------------------------------------
(* provisionTenant and registerOrganization                                *)

Open(h, e, i) ==
    /\ pc[h] = "idle"
    /\ Cardinality(tenants) < MaxTenants
    /\ Goto(h, "tx_code")
    /\ email' = [email EXCEPT ![h] = e]
    /\ row' = [row EXCEPT ![h] = i]
    /\ UNCHANGED <<requests, tenants, users, code, admin>>

\* Only ONBOARDED is refused.
Provision(h, i) ==
    /\ requests[i].status # "ONBOARDED"
    /\ Open(h, requests[i].email, i)

RegisterOrganization(h, e) ==
    /\ e \notin users
    /\ Open(h, e, 0)

\* orderBy desc: the code that sorts last as a string.
LastCode(S) == CHOOSE c \in S : \A d \in S : SortKey(d) <= SortKey(c)

NextCode(S) == IF S = {} THEN 1 ELSE LastCode(S) + 1

ReadCode(h) ==
    /\ pc[h] = "tx_code"
    /\ code' = [code EXCEPT ![h] = NextCode(Codes)]
    /\ Goto(h, "tx_tenant")
    /\ UNCHANGED <<requests, tenants, users, email, row, admin>>

CodeHeld(h) == \E g \in Creators : code[g] = code[h]

CodeTaken(h) == code[h] \in Codes

\* The unique index on organizationCode: wait, fail, or go on.
InsertTenant(h) ==
    /\ pc[h] = "tx_tenant"
    /\ ~CodeHeld(h)
    /\ IF CodeTaken(h)
       THEN Finish(h)
       ELSE Goto(h, "tx_admin") /\ UNCHANGED <<email, row, code, admin>>
    /\ UNCHANGED <<requests, tenants, users>>

ReadAdmin(h) ==
    /\ pc[h] = "tx_admin"
    /\ admin' = [admin EXCEPT ![h] = NextCode(Admins)]
    /\ Goto(h, "tx_user")
    /\ UNCHANGED <<requests, tenants, users, email, row, code>>

AdminHeld(h) ==
    \E g \in Handlers \ {h} : /\ pc[g] = "tx_commit"
                              /\ admin[g] = admin[h] \/ email[g] = email[h]

EmailTaken(h) == email[h] \in users

\* The unique indexes on user_id and email.
InsertAdmin(h) ==
    /\ pc[h] = "tx_user"
    /\ ~AdminHeld(h)
    /\ IF EmailTaken(h) \/ admin[h] \in Admins
       THEN Finish(h)
       ELSE Goto(h, "tx_commit") /\ UNCHANGED <<email, row, code, admin>>
    /\ UNCHANGED <<requests, tenants, users>>

\* The request becomes ONBOARDED in the same transaction.
Commit(h) ==
    /\ pc[h] = "tx_commit"
    /\ tenants' = tenants \cup {[code |-> code[h], admin |-> admin[h],
                                 email |-> email[h], request |-> row[h]]}
    /\ users' = users \cup {email[h]}
    /\ requests' = IF row[h] = 0 THEN requests
                   ELSE [requests EXCEPT ![row[h]].status = "ONBOARDED"]
    /\ Finish(h)

-----------------------------------------------------------------------------
Transaction(h) == \/ ReadCode(h) \/ InsertTenant(h) \/ ReadAdmin(h)
                  \/ InsertAdmin(h) \/ Commit(h)

Next ==
    \/ \E h \in Handlers :
         \/ \E e \in Emails : Submit(h, e) \/ RegisterOrganization(h, e)
         \/ \E i \in DOMAIN requests : Provision(h, i)
         \/ SubmitCreate(h) \/ Transaction(h) \/ Abort(h)
    \/ \E i \in DOMAIN requests, status \in Statuses : Review(i, status)
    \/ \E e \in Emails : NewUser(e)

Spec == Init /\ [][Next]_vars

-----------------------------------------------------------------------------
(* Properties.                                                             *)

\* The insert of the tenant works as a lock: nothing else serialises the
\* transactions, yet from that insert to its commit a transaction is alone, so
\* the super admin's number, read later, cannot be taken by a rival.
OneCreatorAtATime == \A g, h \in Creators : g = h

\* Whatever fails, rolls back or overlaps, the organisations are numbered
\* without a gap and without a repetition, and so are their super admins.
SequentialCodes ==
    LET last == FirstCode + Cardinality(tenants)
    IN  Codes = 1..last /\ Admins = 1..last

\* An access request yields at most one organisation, although its status is
\* read outside the transaction and can be set back by a reviewer.
ProvisionedAtMostOnce ==
    \A s, t \in tenants : s.request = t.request /\ s.request # 0 => s = t

\* The number a new organisation is given is not in use.
NextCodeIsFree == NextCode(Codes) \notin Codes /\ NextCode(Admins) \notin Admins
=============================================================================
