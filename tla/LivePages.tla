------------------------------ MODULE LivePages ------------------------------
(***************************************************************************)
(* Live pages of one browser: the socket that SocketContext.tsx keeps for  *)
(* the session, the gateway that announces attendances to it               *)
(* (events.gateway.ts), and what DynamicRolePage.tsx and                   *)
(* RoleBasedDashboard.tsx read, post and read again.                       *)
(*                                                                         *)
(* Abstractions.  What a tenant's pages read is a number of changes; the   *)
(* console of the platform reads the access requests in the same way.  The *)
(* list stands for what is read at one time: figures, charts and dashboard *)
(* keep what they showed when they fail.  Messages and the chat are left   *)
(* out.                                                                    *)
(***************************************************************************)
EXTENDS Naturals, Sequences, SequencesExt

CONSTANTS Tenants, Platform,  \* whose sessions there are; Platform is its head's
          MaxSessions,        \* bound: changes of the stored session
          MaxCalls,           \* bound: requests of pages
          MaxChanges          \* bound: changes of one tenant's data

ASSUME LiveAssumption ==
    /\ Platform \notin Tenants /\ Tenants \cap {"out", "pre"} = {} /\ Platform \notin {"out", "pre"}
    /\ MaxSessions \in Nat /\ MaxCalls \in Nat /\ MaxChanges \in Nat

VARIABLES
    holder,    \* the session of the auth store: whose it is, its number, whether it expired
    bound,     \* the session the provider's effect has seen
    wire,      \* the socket of that session
    mail,      \* announcements on their way to it
    content,   \* changes of the data of each tenant, and of the access requests
    view,      \* the page shown, its list, and the request that answered it
    known,     \* history: changes of its tenant's data that the page was told of
    query,     \* query[i]: its i-th request
    calls,     \* number of requests so far
    lastAsked, \* the last of them that reads the list
    toast      \* the last announcement shown, and in which session

liveVars == <<holder, bound, wire, mail, content, view, known, query, calls, lastAsked, toast>>

Owners == Tenants \cup {Platform}
CallIds == 1..MaxCalls
Opened(page) == [page |-> page, list |-> 0, from |-> 0, failed |-> FALSE, loading |-> TRUE]
NoView == Opened("none")
NoQuery == [pc |-> "none", kind |-> "list", ok |-> FALSE, number |-> 0]
NoToast == [from |-> Platform, to |-> Platform, settled |-> FALSE]

Holders == Owners \cup {"out", "pre"}
Sessions == [of : Holders, n : 0..MaxSessions, expired : BOOLEAN]
Bindings == [of : Holders, n : 0..MaxSessions]
Announcements == [from : Tenants, number : 0..MaxChanges]
Views == [page : {"none", "directory", "console", "overview"}, list : 0..MaxChanges,
          from : 0..MaxCalls, failed : BOOLEAN, loading : BOOLEAN]
Kinds == {"list", "row", "admin", "vendor", "review", "provision"}
Queries == [pc : {"none", "sent", "served"}, kind : Kinds, ok : BOOLEAN, number : 0..MaxChanges]
Toasts == [from : Owners, to : Holders, settled : BOOLEAN]

LiveTypeOK ==
    /\ holder \in Sessions /\ bound \in Bindings
    /\ wire \in {"none", "connecting", "open", "down", "rejected"}
    /\ mail \in Seq(Announcements)
    /\ content \in [Owners -> 0..MaxChanges]
    /\ view \in Views /\ known \in 0..MaxChanges
    /\ query \in [CallIds -> Queries]
    /\ calls \in 0..MaxCalls /\ lastAsked \in 0..MaxCalls
    /\ toast \in Toasts

LiveInit ==
    /\ holder = [of |-> "out", n |-> 0, expired |-> FALSE] /\ bound = [of |-> "out", n |-> 0]
    /\ wire = "none" /\ mail = <<>>
    /\ content = [s \in Owners |-> 0]
    /\ view = NoView /\ known = 0
    /\ query = [i \in CallIds |-> NoQuery] /\ calls = 0 /\ lastAsked = 0
    /\ toast = NoToast

\* A page that is gone: nothing becomes of the answers to what it sent.
Gone ==
    /\ view' = NoView /\ known' = 0
    /\ query' = [i \in CallIds |-> NoQuery] /\ lastAsked' = 0
    /\ UNCHANGED calls

Newer(a, b) == IF a < b THEN b ELSE a

-----------------------------------------------------------------------------
(* Session and socket                                                      *)

\* login and logout of the store; the guards of the routes take the page away,
\* and with it what its requests would have been answered.
ChangeSession(who) ==
    /\ holder.n < MaxSessions /\ ~(who = "out" /\ holder.of = "out")
    /\ holder' = [of |-> who, n |-> holder.n + 1, expired |-> FALSE]
    /\ Gone
    /\ UNCHANGED <<bound, wire, mail, content, toast>>

TokenRunsOut ==
    /\ holder.of \in Owners /\ ~holder.expired
    /\ holder' = [holder EXCEPT !.expired = TRUE]
    /\ UNCHANGED <<bound, wire, mail, content, view, known, query, calls, lastAsked, toast>>

\* The effect on the token: the cleanup disconnects the socket of the session
\* before; isPreAuthToken keeps the new one from connecting too early.
EffectRuns ==
    /\ bound # [of |-> holder.of, n |-> holder.n]
    /\ bound' = [of |-> holder.of, n |-> holder.n]
    /\ wire' = IF holder.of \in Owners THEN "connecting" ELSE "none"
    /\ mail' = <<>>
    /\ UNCHANGED <<holder, content, view, known, query, calls, lastAsked, toast>>

\* handleConnection: the token is verified when a socket connects, and never
\* again; a socket that the gateway disconnects does not connect again.
Connects ==
    /\ wire = "connecting"
    /\ wire' = IF holder.n = bound.n /\ holder.expired THEN "rejected" ELSE "open"
    /\ UNCHANGED <<holder, bound, mail, content, view, known, query, calls, lastAsked, toast>>

\* What was announced meanwhile is not announced again.
Disconnects ==
    /\ wire \in {"connecting", "open"} /\ wire' = "down"
    /\ mail' = <<>>
    /\ UNCHANGED <<holder, bound, content, view, known, query, calls, lastAsked, toast>>

Reconnects ==
    /\ wire = "down" /\ wire' = "connecting"
    /\ UNCHANGED <<holder, bound, mail, content, view, known, query, calls, lastAsked, toast>>

-----------------------------------------------------------------------------
(* Announcements                                                           *)

\* Faulty variant: an announcement without a tenant is for everybody.
Addressed_everybody(t) == wire = "open"

\* The room that the socket joined when it connected.  The gateway would announce
\* to every socket what has no tenant, but users.tenantId is NOT NULL and both
\* callers pass that of the user's row.
Addressed(t) == wire = "open" /\ bound.of = t

\* emitAttendanceEvent, after the check-in or check-out was stored.
Announce(t) ==
    /\ content[t] < MaxChanges
    /\ content' = [content EXCEPT ![t] = @ + 1]
    /\ mail' = IF Addressed(t) THEN Append(mail, [from |-> t, number |-> content[t] + 1]) ELSE mail
    /\ UNCHANGED <<holder, bound, wire, view, known, query, calls, lastAsked, toast>>

-----------------------------------------------------------------------------
(* Pages                                                                   *)

\* The requests of some kinds, sent at one time, when the calls so far are c.
SendingAfter(c, kinds) ==
    /\ calls + Len(kinds) <= MaxCalls
    /\ calls' = calls + Len(kinds)
    /\ query' = [i \in CallIds |-> IF i \in (calls + 1)..(calls + Len(kinds))
                                  THEN [pc |-> "sent", kind |-> kinds[i - calls], ok |-> FALSE, number |-> 0]
                                  ELSE c[i]]
    /\ lastAsked' = IF "list" \in ToSet(kinds) THEN calls + 1 ELSE lastAsked
Sending(kinds) == SendingAfter(query, kinds)

\* What an announcement, or a request that was confirmed, makes the page read again.
Reloaded == <<"list">>

OpenDirectory ==
    /\ holder.of \in Tenants /\ view.page = "none"
    /\ view' = Opened("directory")
    /\ Sending(<<"list">>)
    /\ UNCHANGED <<holder, bound, wire, mail, content, known, toast>>

\* The overview of a super admin is read once.
OpenOverview ==
    /\ holder.of \in Tenants /\ view.page = "none"
    /\ view' = Opened("overview")
    /\ Sending(<<"list">>)
    /\ UNCHANGED <<holder, bound, wire, mail, content, known, toast>>

OpenConsole ==
    /\ holder.of = Platform /\ view.page = "none"
    /\ view' = Opened("console")
    /\ Sending(<<"list">>)
    /\ UNCHANGED <<holder, bound, wire, mail, content, known, toast>>

ClosePage ==
    /\ view.page # "none" /\ Gone
    /\ UNCHANGED <<holder, bound, wire, mail, content, toast>>

\* The button of the console, disabled until an answer has come.
Refresh ==
    /\ view.page = "console" /\ ~view.loading
    /\ view' = [view EXCEPT !.loading = TRUE]
    /\ Sending(<<"list">>)
    /\ UNCHANGED <<holder, bound, wire, mail, content, known, toast>>

\* An incident that is reported is not sent anywhere.
ReportIncident ==
    /\ view.page = "directory"
    /\ Sending(Reloaded)
    /\ UNCHANGED <<holder, bound, wire, mail, content, view, known, toast>>

\* handleAttendanceUpdate; without a directory nobody listens.
Hear ==
    /\ mail # <<>> /\ mail' = Tail(mail)
    /\ IF view.page = "directory"
       THEN /\ toast' = [from |-> Head(mail).from, to |-> holder.of, settled |-> bound.n = holder.n]
            /\ known' = IF Head(mail).from = holder.of THEN Newer(known, Head(mail).number) ELSE known
            /\ Sending(Reloaded)
       ELSE UNCHANGED <<toast, known, query, calls, lastAsked>>
    /\ UNCHANGED <<holder, bound, wire, content, view>>

\* handleFormSubmit closes its form first, so that several may be under way; an
\* organisation takes two requests.
SubmitForm(kind) ==
    /\ view.page = "directory" /\ kind \in {"row", "admin"}
    /\ Sending(<<kind>>)
    /\ UNCHANGED <<holder, bound, wire, mail, content, view, known, toast>>

\* handleReviewSubmit and handleProvisionSubmit, each with its flag.
SubmitReview(kind) ==
    /\ view.page = "console" /\ kind \in {"review", "provision"}
    /\ \A i \in CallIds : query[i].kind = kind => query[i].pc = "none"
    /\ Sending(<<kind>>)
    /\ UNCHANGED <<holder, bound, wire, mail, content, view, known, toast>>

\* The services; the second request of an organisation is always refused, since
\* its manager is no vendor manager.  An answer may be lost although all was done.
Serve(i, done, ok) ==
    /\ query[i].pc = "sent"
    /\ ok => done
    /\ done => ~holder.expired /\ query[i].kind # "vendor"
    /\ LET writes == done /\ query[i].kind # "list"
           after == [content EXCEPT ![holder.of] = IF writes THEN @ + 1 ELSE @]
       IN /\ writes => content[holder.of] < MaxChanges
          /\ content' = after
          /\ query' = [query EXCEPT ![i] = [pc |-> "served", kind |-> @.kind, ok |-> ok,
                                           number |-> IF ok THEN after[holder.of] ELSE 0]]
    /\ UNCHANGED <<holder, bound, wire, mail, view, known, calls, lastAsked, toast>>

\* fetchDatabaseData shows an empty list when it failed, the others keep theirs.
ListAnswered(i) ==
    /\ query[i].pc = "served" /\ query[i].kind = "list"
    /\ query' = [query EXCEPT ![i] = NoQuery]
    /\ view' = [page |-> view.page, from |-> i, failed |-> ~query[i].ok, loading |-> FALSE,
                list |-> IF query[i].ok THEN query[i].number
                         ELSE IF view.page = "directory" THEN 0 ELSE view.list]
    /\ UNCHANGED <<holder, bound, wire, mail, content, known, calls, lastAsked, toast>>

\* Faulty variant: a review or an organisation set up is not read back.
Follow_rowsOnly(i) ==
    IF query[i].kind = "admin" THEN <<"vendor">>
    ELSE IF query[i].ok /\ query[i].kind = "row" THEN Reloaded ELSE <<>>

\* Further requests of a form or a review, once its answer has come.
Follow(i) ==
    IF query[i].kind = "admin" THEN <<"vendor">>
    ELSE IF query[i].ok THEN Reloaded ELSE <<>>

\* The second request of an organisation follows whatever was answered to the
\* first, but not the loss of an answer.
PostAnswered(i) ==
    /\ query[i].pc = "served" /\ query[i].kind # "list"
    /\ known' = IF query[i].ok /\ query[i].kind # "admin" THEN Newer(known, query[i].number) ELSE known
    /\ \/ SendingAfter([query EXCEPT ![i] = NoQuery], Follow(i))
       \/ ~query[i].ok /\ SendingAfter([query EXCEPT ![i] = NoQuery], <<>>)
    /\ view' = [view EXCEPT !.loading = @ \/ lastAsked' # lastAsked]
    /\ UNCHANGED <<holder, bound, wire, mail, content, toast>>

LiveNext ==
    \/ \E who \in Holders : ChangeSession(who)
    \/ TokenRunsOut \/ EffectRuns \/ Connects \/ Disconnects \/ Reconnects
    \/ \E t \in Tenants : Announce(t)
    \/ OpenDirectory \/ OpenOverview \/ OpenConsole \/ ClosePage \/ Refresh \/ Hear
    \/ ReportIncident
    \/ \E kind \in {"row", "admin"} : SubmitForm(kind)
    \/ \E kind \in {"review", "provision"} : SubmitReview(kind)
    \/ \E i \in CallIds : \/ \E done, ok \in BOOLEAN : Serve(i, done, ok)
                         \/ ListAnswered(i) \/ PostAnswered(i)

LiveSpec == LiveInit /\ [][LiveNext]_liveVars

-----------------------------------------------------------------------------
\* An announcement is shown to a session of the tenant it is about only, unless
\* it comes before the provider has seen that the session changed ("cross-org
\* data leakage is impossible", events.gateway.ts).
AnnouncementsStayHome == toast.settled => toast.from = toast.to

\* When a page waits for no answer its list shows every change the page was told
\* of, by an announcement or by the answer to its own request, unless the answer
\* it shows was overtaken or failed (DynamicRolePage.tsx, reloadTrigger;
\* RoleBasedDashboard.tsx, fetchPlatformData).
ListShowsWhatIsKnown ==
    (\A i \in CallIds : query[i].pc = "none") => view.list >= known \/ view.failed \/ view.from < lastAsked
=============================================================================
