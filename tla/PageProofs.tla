----------------------------- MODULE PageProofs -----------------------------
(***************************************************************************)
(* Theorems about pages of the browser, for any number of requests, scans  *)
(* and presses.                                                            *)
(*                                                                         *)
(* The live pages: what is on its way to the browser was addressed to the  *)
(* room of the session its socket is bound to, and the request for the     *)
(* list that was sent last will bring, or has brought, all the page was    *)
(* told of.                                                                *)
(*                                                                         *)
(* The sign-up wizard: while nothing strays, the interval that runs is the *)
(* one the ref names, and what a submission carries is what was taken.     *)
(*                                                                         *)
(* The settings page: an enrolment ends the life of its scan, a camera is  *)
(* pending, or shown, or its scan was cancelled before it opened, and the  *)
(* newest row has been shown or is on its way.  No more is served or       *)
(* handled than was sent.                                                  *)
(***************************************************************************)
EXTENDS LivePages, SignupWizard, SettingsPanels, FiniteSets, FiniteSetTheorems, TLAPS

-----------------------------------------------------------------------------
(* Live pages                                                              *)

\* While the effect has not run since the session changed, bound is an older
\* session; otherwise it is the same.
EffectFollows ==
    /\ bound.n <= holder.n
    /\ bound.n = holder.n => bound.of = holder.of

\* What is on its way was addressed to the room of the bound session.
MailIsAddressed == \A i \in 1..Len(mail) : mail[i].from = bound.of

\* Pages and their requests belong to a session.
PagesNeedSession ==
    (view.page # "none" \/ \E i \in CallIds : query[i].pc # "none") => holder.of \in Owners

LiveInv == LiveTypeOK /\ PagesNeedSession /\ EffectFollows /\ MailIsAddressed /\ AnnouncementsStayHome

LEMMA NothingYet == NoQuery \in Queries /\ NoView \in Views /\ NoToast \in Toasts
  BY LiveAssumption, SMT
  DEF NoQuery, NoView, Opened, NoToast, Queries, Kinds, Views, Toasts, Holders, Owners

LEMMA SessionExpires ==
  ASSUME NEW h \in Sessions
  PROVE  /\ [h EXCEPT !.expired = TRUE] \in Sessions
         /\ [h EXCEPT !.expired = TRUE].of = h.of /\ [h EXCEPT !.expired = TRUE].n = h.n
  <1>1. [h EXCEPT !.expired = TRUE] \in Sessions
    BY Zenon DEF Sessions
  <1>2. [h EXCEPT !.expired = TRUE].of = h.of /\ [h EXCEPT !.expired = TRUE].n = h.n
    BY SMT DEF Sessions
  <1> QED
    BY <1>1, <1>2

LEMMA ViewLoads ==
  ASSUME NEW v \in Views, NEW loading \in BOOLEAN
  PROVE  [v EXCEPT !.loading = loading] \in Views /\ [v EXCEPT !.loading = loading].page = v.page
  BY SMT DEF Views

LEMMA OpenedView ==
  ASSUME NEW p \in {"directory", "console", "overview"}
  PROVE  Opened(p) \in Views
  BY LiveAssumption, SMT DEF Opened, Views

LEMMA ViewFields ==
  ASSUME NEW v \in Views
  PROVE  v.page \in {"none", "directory", "console", "overview"} /\ v.list \in 0..MaxChanges
  BY SMT DEF Views

LEMMA InitLiveInv == LiveInit => LiveInv
  <1> SUFFICES ASSUME LiveInit PROVE LiveInv
    OBVIOUS
  <1>1. holder \in Sessions /\ bound \in Bindings /\ mail \in Seq(Announcements)
    BY LiveAssumption, SMT DEF LiveInit, Sessions, Bindings, Holders
  <1>2. LiveTypeOK
    BY <1>1, NothingYet, LiveAssumption, SMT DEF LiveInit, LiveTypeOK
  <1>3. PagesNeedSession
    BY SMT DEF LiveInit, PagesNeedSession, NoView, Opened, NoQuery
  <1> QED
    BY <1>2, <1>3, SMT DEF LiveInv, LiveInit, EffectFollows, MailIsAddressed, AnnouncementsStayHome, NoToast

\* Requests are sent as many as fit, and of the given kinds.
LEMMA NothingNeedsSession ==
  ASSUME Gone
  PROVE  PagesNeedSession'
  BY SMT DEF Gone, PagesNeedSession, NoView, Opened, NoQuery

LEMMA SendingEffect ==
  ASSUME calls \in 0..MaxCalls, lastAsked \in 0..MaxCalls
  PROVE  \A c \in [CallIds -> Queries] : \A kinds \in Seq(Kinds) :
           SendingAfter(c, kinds) =>
             query' \in [CallIds -> Queries] /\ calls' \in 0..MaxCalls /\ lastAsked' \in 0..MaxCalls
  <1> SUFFICES ASSUME NEW c \in [CallIds -> Queries], NEW kinds \in Seq(Kinds), SendingAfter(c, kinds)
               PROVE query' \in [CallIds -> Queries] /\ calls' \in 0..MaxCalls /\ lastAsked' \in 0..MaxCalls
    BY Zenon
  <1>0. calls' = calls + Len(kinds) /\ calls + Len(kinds) <= MaxCalls
    BY Zenon DEF SendingAfter
  <1>1. Len(kinds) \in Nat /\ DOMAIN kinds = 1..Len(kinds) /\ \A j \in 1..Len(kinds) : kinds[j] \in Kinds
    BY SMT
  <1>2. \A i \in CallIds : i \in (calls + 1)..(calls + Len(kinds)) => kinds[i - calls] \in Kinds
    BY <1>1, LiveAssumption, SMT DEF CallIds
  <1>3. query' \in [CallIds -> Queries]
    <2>1. \A i \in CallIds :
             i \in (calls + 1)..(calls + Len(kinds)) =>
               [pc |-> "sent", kind |-> kinds[i - calls], ok |-> FALSE, number |-> 0] \in Queries
      BY <1>2, LiveAssumption, SMT DEF Queries
    <2> QED
      BY <2>1, Zenon DEF SendingAfter
  <1>4. lastAsked' \in 0..MaxCalls
    <2>1. CASE "list" \in ToSet(kinds)
      <3>1. Len(kinds) >= 1
        BY <2>1, <1>1, SMT DEF ToSet
      <3>2. lastAsked' = calls + 1
        BY <2>1, Zenon DEF SendingAfter
      <3> QED
        BY <1>0, <1>1, <3>1, <3>2, LiveAssumption, SMT
    <2>2. CASE "list" \notin ToSet(kinds)
      BY <2>2, Zenon DEF SendingAfter
    <2> QED
      BY <2>1, <2>2, Zenon
  <1>5. calls' \in 0..MaxCalls
    BY <1>0, <1>1, LiveAssumption, SMT
  <1> QED
    BY <1>3, <1>4, <1>5, Zenon

\* Steps of the session and the socket, which send nothing.
LEMMA SocketInv ==
  ASSUME LiveInv
  PROVE  /\ \A who \in Holders : ChangeSession(who) => LiveInv'
         /\ TokenRunsOut \/ EffectRuns \/ Connects \/ Disconnects \/ Reconnects => LiveInv'
         /\ \A t \in Tenants : Announce(t) => LiveInv'
  <1> USE LiveAssumption
  <1>a. LiveTypeOK /\ PagesNeedSession /\ EffectFollows /\ MailIsAddressed /\ AnnouncementsStayHome
    BY DEF LiveInv
  <1>1. ASSUME NEW who \in Holders, ChangeSession(who) PROVE LiveInv'
    <2>1. LiveTypeOK'
      <3>1. holder' \in Sessions
        BY <1>1, <1>a, SMT DEF ChangeSession, LiveTypeOK, Sessions
      <3>2. query' \in [CallIds -> Queries] /\ view' \in Views
        BY <1>1, NothingYet, Zenon DEF ChangeSession, Gone
      <3>3. known' = 0 /\ lastAsked' = 0 /\ calls' = calls
        BY <1>1, Zenon DEF ChangeSession, Gone
      <3> QED
        BY <1>1, <1>a, <3>1, <3>2, <3>3, SMT DEF ChangeSession, LiveTypeOK
    <2>2. EffectFollows'
      BY <1>1, <1>a, SMT DEF ChangeSession, LiveTypeOK, Sessions, Bindings, EffectFollows
    <2> QED
      BY <1>1, <1>a, <2>1, <2>2, NothingNeedsSession, Zenon
      DEF ChangeSession, LiveInv, MailIsAddressed, AnnouncementsStayHome
  <1>2. CASE TokenRunsOut
    <2>0. holder \in Sessions /\ holder' = [holder EXCEPT !.expired = TRUE]
      BY <1>2, <1>a, Zenon DEF TokenRunsOut, LiveTypeOK
    <2>1. holder' \in Sessions /\ holder'.of = holder.of /\ holder'.n = holder.n
      BY <2>0, SessionExpires, Zenon
    <2> QED
      BY <1>2, <1>a, <2>1, Zenon
      DEF TokenRunsOut, LiveTypeOK, LiveInv, PagesNeedSession, EffectFollows, MailIsAddressed, AnnouncementsStayHome
  <1>3. CASE EffectRuns
    <2>1. bound' \in Bindings /\ mail' \in Seq(Announcements) /\ EffectFollows' /\ MailIsAddressed'
      BY <1>3, <1>a, SMT
      DEF EffectRuns, LiveTypeOK, Sessions, Bindings, EffectFollows, MailIsAddressed
    <2> QED
      BY <1>3, <1>a, <2>1, Zenon DEF EffectRuns, LiveTypeOK, LiveInv, PagesNeedSession, AnnouncementsStayHome
  <1>4. CASE Connects \/ Disconnects \/ Reconnects
    <2>0. UNCHANGED bound /\ (mail' = mail \/ mail' = << >>)
      BY <1>4, Zenon DEF Connects, Disconnects, Reconnects
    <2>1. mail' \in Seq(Announcements) /\ MailIsAddressed'
      <3>1. CASE mail' = mail
        BY <2>0, <3>1, <1>a, Zenon DEF LiveTypeOK, MailIsAddressed
      <3>2. CASE mail' = << >>
        BY <3>2, SMT DEF MailIsAddressed
      <3> QED
        BY <2>0, <3>1, <3>2, Zenon
    <2> QED
      BY <1>4, <1>a, <2>1, Zenon
      DEF Connects, Disconnects, Reconnects, LiveTypeOK, LiveInv, PagesNeedSession, EffectFollows, AnnouncementsStayHome
  <1>5. ASSUME NEW t \in Tenants, Announce(t) PROVE LiveInv'
    <2>1. /\ content \in [Owners -> 0..MaxChanges] /\ content[t] < MaxChanges
          /\ content' = [content EXCEPT ![t] = @ + 1]
          /\ mail' = IF Addressed(t) THEN Append(mail, [from |-> t, number |-> content[t] + 1]) ELSE mail
          /\ mail \in Seq(Announcements) /\ MailIsAddressed /\ UNCHANGED bound
      BY <1>5, <1>a, Zenon DEF Announce, LiveTypeOK
    <2>2. content[t] \in 0..MaxChanges /\ content[t] + 1 \in 0..MaxChanges
      BY <2>1, SMT DEF Owners
    <2>3. content' \in [Owners -> 0..MaxChanges]
      BY <2>1, <2>2, Zenon
    <2>4. mail' \in Seq(Announcements) /\ MailIsAddressed'
      <3>1. CASE Addressed(t)
        <4> DEFINE m == [from |-> t, number |-> content[t] + 1]
        <4>1. m \in Announcements /\ m.from = bound.of
          BY <2>2, <3>1, SMT DEF Addressed, Announcements
        <4>2. mail' = Append(mail, m) /\ mail \in Seq(Announcements)
          BY <2>1, <3>1, Zenon
        <4> HIDE DEF m
        <4>3. mail' \in Seq(Announcements)
          BY <4>1, <4>2, SMT
        <4>4. \A i \in 1..Len(mail') : mail'[i].from = bound.of
          BY <2>1, <4>1, <4>2, SMT DEF MailIsAddressed
        <4> QED
          BY <2>1, <4>3, <4>4, Zenon DEF MailIsAddressed
      <3>2. CASE ~Addressed(t)
        BY <2>1, <3>2, SMT DEF MailIsAddressed
      <3> QED
        BY <3>1, <3>2
    <2> QED
      BY <1>5, <1>a, <2>3, <2>4, Zenon DEF LiveInv, LiveTypeOK, Announce, PagesNeedSession, EffectFollows, AnnouncementsStayHome
  <1> QED
    BY <1>1, <1>2, <1>3, <1>4, <1>5, Zenon

\* Steps of a page that leave session, socket and announcements alone.
LEMMA QuietInv ==
  ASSUME LiveInv, UNCHANGED <<holder, bound, wire, mail, toast>>,
         content' \in [Owners -> 0..MaxChanges], view' \in Views, known' \in 0..MaxChanges,
         query' \in [CallIds -> Queries], calls' \in 0..MaxCalls, lastAsked' \in 0..MaxCalls,
         holder.of \in Owners \/ Gone
  PROVE  LiveInv'
  BY NothingNeedsSession, Zenon
  DEF LiveInv, LiveTypeOK, PagesNeedSession, EffectFollows, MailIsAddressed, AnnouncementsStayHome

LEMMA PageInv ==
  ASSUME LiveInv,
         \/ OpenDirectory \/ OpenOverview \/ OpenConsole \/ ClosePage \/ Refresh \/ ReportIncident
         \/ \E kind \in {"row", "admin"} : SubmitForm(kind)
         \/ \E kind \in {"review", "provision"} : SubmitReview(kind)
  PROVE  LiveInv'
  <1> USE LiveAssumption
  <1>a. LiveTypeOK
    BY DEF LiveInv
  <1>b. 0 \in 0..MaxCalls /\ 0 \in 0..MaxChanges
    BY SMT
  <1>1. UNCHANGED <<holder, bound, wire, mail, content, toast>>
    BY Zenon DEF OpenDirectory, OpenOverview, OpenConsole, ClosePage, Refresh, ReportIncident, SubmitForm, SubmitReview
  <1>2. CASE ClosePage
    <2>1. view' \in Views /\ query' \in [CallIds -> Queries]
      BY <1>2, NothingYet, Zenon DEF ClosePage, Gone
    <2>2. known' \in 0..MaxChanges /\ calls' \in 0..MaxCalls /\ lastAsked' \in 0..MaxCalls
      BY <1>2, <1>a, SMT DEF ClosePage, Gone, LiveTypeOK
    <2> QED
      BY <1>1, <1>2, <1>a, <2>1, <2>2, QuietInv, Zenon DEF ClosePage, LiveTypeOK
  <1>3. CASE ~ClosePage
    <2>1. \E kinds \in Seq(Kinds) : Sending(kinds)
      <3>1. \A kind \in Kinds : <<kind>> \in Seq(Kinds)
        BY SMT
      <3>2. {"list", "row", "admin", "review", "provision"} \subseteq Kinds
        BY SMT DEF Kinds
      <3> QED
        BY <1>3, <3>1, <3>2, Zenon
        DEF OpenDirectory, OpenOverview, OpenConsole, Refresh, ReportIncident, SubmitForm, SubmitReview, Reloaded
    <2>2. query' \in [CallIds -> Queries] /\ calls' \in 0..MaxCalls /\ lastAsked' \in 0..MaxCalls
      BY <1>a, <2>1, SendingEffect, Zenon DEF Sending, LiveTypeOK
    <2>3. view' \in Views
      <3>1. CASE OpenDirectory \/ OpenOverview \/ OpenConsole
        <4>1. \/ view' = Opened("directory") \/ view' = Opened("overview")
              \/ view' = Opened("console")
          BY <3>1, Zenon DEF OpenDirectory, OpenOverview, OpenConsole
        <4> QED
          BY <4>1, OpenedView, Zenon
      <3>2. CASE Refresh
        <4>1. view \in Views /\ view' = [view EXCEPT !.loading = TRUE]
          BY <3>2, <1>a, Zenon DEF Refresh, LiveTypeOK
        <4> QED
          BY <4>1, ViewLoads, Zenon
      <3>3. CASE \/ ReportIncident
                 \/ \E kind \in {"row", "admin"} : SubmitForm(kind)
                 \/ \E kind \in {"review", "provision"} : SubmitReview(kind)
        BY <3>3, <1>a, Zenon DEF ReportIncident, SubmitForm, SubmitReview, LiveTypeOK
      <3> QED
        BY <1>3, <3>1, <3>2, <3>3, Zenon
    <2>4. known' = known
      BY <1>3, Zenon
      DEF OpenDirectory, OpenOverview, OpenConsole, Refresh, ReportIncident, SubmitForm, SubmitReview
    <2>5. holder.of \in Owners
      <3>1. CASE view.page # "none"
        BY <3>1 DEF LiveInv, PagesNeedSession
      <3>2. CASE view.page = "none"
        BY <1>3, <3>2, SMT
        DEF OpenDirectory, OpenOverview, OpenConsole, Refresh, ReportIncident, SubmitForm, SubmitReview, Owners
      <3> QED
        BY <3>1, <3>2
    <2> QED
      BY <1>1, <1>a, <2>2, <2>3, <2>4, <2>5, QuietInv, Zenon DEF LiveTypeOK
  <1> QED
    BY <1>2, <1>3

\* Only a bound session that is still the browser's settles an announcement, and
\* what it hears was addressed to it.
LEMMA HearInv ==
  ASSUME LiveInv, Hear
  PROVE  LiveInv'
  <1> USE LiveAssumption
  <1>a. LiveTypeOK /\ PagesNeedSession /\ EffectFollows /\ MailIsAddressed /\ AnnouncementsStayHome
    BY DEF LiveInv
  <1>1. /\ mail' \in Seq(Announcements) /\ MailIsAddressed'
        /\ Head(mail) \in Announcements /\ Head(mail).from = bound.of
    BY <1>a, SMT DEF LiveTypeOK, Hear, MailIsAddressed
  <1>2. /\ query' \in [CallIds -> Queries] /\ calls' \in 0..MaxCalls /\ lastAsked' \in 0..MaxCalls
        /\ known' \in 0..MaxChanges /\ toast' \in Toasts /\ AnnouncementsStayHome'
        /\ PagesNeedSession'
    <2>1. CASE view.page = "directory"
      <3>1. Sending(<<"list">>)
        BY <2>1, Zenon DEF Hear, Reloaded
      <3>2. <<"list">> \in Seq(Kinds)
        BY SMT DEF Kinds
      <3>3. query' \in [CallIds -> Queries] /\ calls' \in 0..MaxCalls /\ lastAsked' \in 0..MaxCalls
        BY <1>a, <3>1, <3>2, SendingEffect, Zenon DEF Sending, LiveTypeOK
      <3>4. known' \in 0..MaxChanges
        BY <1>a, <1>1, <2>1, SMT DEF LiveTypeOK, Hear, Newer, Announcements
      <3>5. toast' = [from |-> Head(mail).from, to |-> holder.of, settled |-> bound.n = holder.n]
        BY <2>1, Zenon DEF Hear
      <3>6. toast' \in Toasts
        BY <1>a, <1>1, <3>5, SMT DEF LiveTypeOK, Sessions, Announcements, Toasts, Owners
      <3>7. AnnouncementsStayHome'
        <4>1. /\ toast'.from = Head(mail).from /\ toast'.to = holder.of
              /\ toast'.settled => bound.n = holder.n
          BY <3>5, Zenon
        <4> QED
          BY <1>a, <1>1, <4>1, Zenon DEF EffectFollows, AnnouncementsStayHome
      <3>8. PagesNeedSession'
        BY <1>a, <2>1, SMT DEF Hear, PagesNeedSession
      <3> QED
        BY <3>3, <3>4, <3>6, <3>7, <3>8, Zenon
    <2>2. CASE view.page # "directory"
      BY <2>2, <1>a, Zenon DEF LiveTypeOK, Hear, PagesNeedSession, AnnouncementsStayHome
    <2> QED
      BY <2>1, <2>2, Zenon
  <1> QED
    BY <1>a, <1>1, <1>2, Zenon DEF LiveInv, LiveTypeOK, Hear, EffectFollows

LEMMA AnswerInv ==
  ASSUME LiveInv, NEW i \in CallIds
  PROVE  /\ \A done, ok \in BOOLEAN : Serve(i, done, ok) => LiveInv'
         /\ ListAnswered(i) \/ PostAnswered(i) => LiveInv'
  <1> USE LiveAssumption
  <1>a. LiveTypeOK /\ query[i] \in Queries
    BY Zenon DEF LiveInv, LiveTypeOK
  <1>b. query[i].kind \in Kinds /\ query[i].number \in 0..MaxChanges
    BY <1>a, SMT DEF Queries
  <1>c. 0 \in 0..MaxCalls /\ 0 \in 0..MaxChanges /\ i \in 0..MaxCalls
    BY SMT DEF CallIds
  <1>d. query[i].pc # "none" => holder.of \in Owners
    BY Zenon DEF LiveInv, PagesNeedSession
  <1>1. ASSUME NEW done \in BOOLEAN, NEW ok \in BOOLEAN, Serve(i, done, ok) PROVE LiveInv'
    <2> DEFINE writes == done /\ query[i].kind # "list"
               after == [content EXCEPT ![holder.of] = IF writes THEN @ + 1 ELSE @]
               amount == IF ok THEN after[holder.of] ELSE 0
    <2>1. /\ writes => content[holder.of] < MaxChanges
          /\ content' = after
          /\ query' = [query EXCEPT ![i] = [pc |-> "served", kind |-> query[i].kind, ok |-> ok,
                                           number |-> amount]]
      BY <1>1, Zenon DEF Serve
    <2>0. holder.of \in Owners
      BY <1>1, <1>d, SMT DEF Serve
    <2>2. after \in [Owners -> 0..MaxChanges] /\ amount \in 0..MaxChanges
      <3>1. content \in [Owners -> 0..MaxChanges]
        BY <1>a, Zenon DEF LiveTypeOK
      <3>2. content[holder.of] \in 0..MaxChanges
        BY <2>0, <3>1, Zenon
      <3>3. (IF writes THEN content[holder.of] + 1 ELSE content[holder.of]) \in 0..MaxChanges
        BY <2>1, <3>2, SMT
      <3>4. after \in [Owners -> 0..MaxChanges]
        BY <3>1, <3>3, Zenon
      <3> QED
        BY <1>c, <2>0, <3>4, Zenon
    <2>3. [pc |-> "served", kind |-> query[i].kind, ok |-> ok, number |-> amount] \in Queries
      <3> HIDE DEF amount
      <3> QED
        BY <1>b, <2>2, SMT DEF Queries
    <2>4. query' \in [CallIds -> Queries]
      BY <1>a, <2>1, <2>3, Zenon DEF LiveTypeOK
    <2> QED
      BY <1>1, <1>a, <2>0, <2>1, <2>2, <2>4, QuietInv, Zenon DEF Serve, LiveTypeOK
  <1>2. CASE ListAnswered(i)
    <2>1. query' \in [CallIds -> Queries]
      BY <1>2, <1>a, NothingYet, Zenon DEF ListAnswered, LiveTypeOK
    <2>2. view' \in Views
      <3> DEFINE shown == IF query[i].ok THEN query[i].number
                          ELSE IF view.page = "directory" THEN 0 ELSE view.list
      <3>1. view' = [page |-> view.page, from |-> i, failed |-> ~query[i].ok, loading |-> FALSE,
                     list |-> shown]
        BY <1>2, Zenon DEF ListAnswered
      <3>2. shown \in 0..MaxChanges /\ view.page \in {"none", "directory", "console", "overview"}
        BY <1>a, <1>b, <1>c, ViewFields, Zenon DEF LiveTypeOK
      <3> HIDE DEF shown
      <3>3. ASSUME NEW failed \in BOOLEAN, NEW page \in {"none", "directory", "console", "overview"},
                   NEW list \in 0..MaxChanges
            PROVE  [page |-> page, from |-> i, failed |-> failed, loading |-> FALSE, list |-> list] \in Views
        BY <1>c, SMT DEF Views
      <3>4. (~query[i].ok) \in BOOLEAN
        BY Zenon
      <3> QED
        BY <3>1, <3>2, <3>3, <3>4, Zenon
    <2>3. holder.of \in Owners
      BY <1>2, <1>d, SMT DEF ListAnswered
    <2> QED
      BY <1>2, <1>a, <2>1, <2>2, <2>3, QuietInv, Zenon DEF ListAnswered, LiveTypeOK
  <1>3. CASE PostAnswered(i)
    <2> DEFINE c == [query EXCEPT ![i] = NoQuery]
    <2>1. c \in [CallIds -> Queries]
      BY <1>a, NothingYet, Zenon DEF LiveTypeOK
    <2>2. \E kinds \in Seq(Kinds) : SendingAfter(c, kinds)
      <3>1. << >> \in Seq(Kinds) /\ <<"vendor">> \in Seq(Kinds) /\ <<"list">> \in Seq(Kinds)
        BY SMT DEF Kinds
      <3>2. Follow(i) \in Seq(Kinds)
        BY <3>1, Zenon DEF Follow, Reloaded
      <3> QED
        BY <1>3, <3>1, <3>2, Zenon DEF PostAnswered
    <2>3. query' \in [CallIds -> Queries] /\ calls' \in 0..MaxCalls /\ lastAsked' \in 0..MaxCalls
      BY <1>a, <2>1, <2>2, SendingEffect, Zenon DEF LiveTypeOK
    <2>4. known' \in 0..MaxChanges
      BY <1>3, <1>a, <1>b, SMT DEF PostAnswered, LiveTypeOK, Newer
    <2>5. view' \in Views
      <3>1. view \in Views /\ view' = [view EXCEPT !.loading = @ \/ lastAsked' # lastAsked]
        BY <1>3, <1>a, Zenon DEF PostAnswered, LiveTypeOK
      <3>2. (view.loading \/ lastAsked' # lastAsked) \in BOOLEAN
        BY <1>a, Zenon DEF LiveTypeOK
      <3> QED
        BY <3>1, <3>2, ViewLoads, Zenon
    <2>6. holder.of \in Owners
      BY <1>3, <1>d, SMT DEF PostAnswered
    <2> QED
      BY <1>3, <1>a, <2>3, <2>4, <2>5, <2>6, QuietInv, Zenon DEF PostAnswered, LiveTypeOK
  <1> QED
    BY <1>1, <1>2, <1>3, Zenon

LEMMA LiveInvariant == LiveSpec => []LiveInv
  <1>1. LiveInv /\ [LiveNext]_liveVars => LiveInv'
    <2> SUFFICES ASSUME LiveInv, [LiveNext]_liveVars PROVE LiveInv'
      OBVIOUS
    <2>1. CASE LiveNext
      BY <2>1, SocketInv, PageInv, HearInv, AnswerInv, Zenon DEF LiveNext
    <2>2. CASE UNCHANGED liveVars
      BY <2>2, Zenon DEF liveVars, LiveInv, LiveTypeOK, PagesNeedSession, EffectFollows, MailIsAddressed, AnnouncementsStayHome
    <2> QED
      BY <2>1, <2>2
  <1> QED
    BY InitLiveInv, <1>1, PTL DEF LiveSpec

\* Variables of the live pages have their types.
THEOREM LiveTypeCorrect == LiveSpec => []LiveTypeOK
  <1>1. LiveInv => LiveTypeOK
    BY DEF LiveInv
  <1> QED
    BY LiveInvariant, <1>1, PTL

\* No session hears the announcements of another tenant once the socket has
\* followed the change of the session, for any number of tenants and sessions.
THEOREM AnnouncementsStayAtHome == LiveSpec => []AnnouncementsStayHome
  <1>1. LiveInv => AnnouncementsStayHome
    BY DEF LiveInv
  <1> QED
    BY LiveInvariant, <1>1, PTL

-----------------------------------------------------------------------------
(* What a page reads                                                       *)

\* What is announced, and what a page was told of, was stored.
MailIsStored == \A i \in 1..Len(mail) : mail[i].number <= content[mail[i].from]
KnownIsStored == known # 0 => holder.of \in Owners /\ known <= content[holder.of]

\* Requests of a page, of which q is the present state.
InOrder(q) ==
    \A i \in CallIds : q[i].pc # "none" => i <= calls /\ (q[i].kind = "list" => i <= lastAsked)
AnswersAreStored(q) ==
    \A i \in CallIds : q[i].pc = "served" => q[i].number <= content[holder.of]

\* What was asked last reads all the page was told of, or did so.
LastReads(q) ==
    IF lastAsked = 0 THEN known = 0
    ELSE \/ q[lastAsked].pc = "sent" /\ q[lastAsked].kind = "list"
         \/ /\ q[lastAsked].pc = "served" /\ q[lastAsked].kind = "list"
            /\ q[lastAsked].ok => known <= q[lastAsked].number
         \/ /\ q[lastAsked].pc = "none"
            /\ view.from < lastAsked \/ view.failed \/ known <= view.list

Reads(q) == InOrder(q) /\ AnswersAreStored(q) /\ LastReads(q)

ReadInv ==
    /\ MailIsStored /\ KnownIsStored
    /\ view.from <= lastAsked /\ lastAsked <= calls
    /\ Reads(query)

\* One more request.
LEMMA OneMore ==
  ASSUME LiveTypeOK, NEW c \in [CallIds -> Queries], NEW k \in Kinds, SendingAfter(c, <<k>>)
  PROVE  /\ calls + 1 \in CallIds /\ calls' = calls + 1
         /\ lastAsked' = IF k = "list" THEN calls + 1 ELSE lastAsked
         /\ query' = [i \in CallIds |->
                        IF i = calls + 1 THEN [pc |-> "sent", kind |-> k, ok |-> FALSE, number |-> 0]
                        ELSE c[i]]
  <1> DEFINE ks == <<k>>
  <1>1. Len(ks) = 1 /\ ks[1] = k /\ ToSet(ks) = {k}
    BY SMT DEF ToSet
  <1>2. /\ calls + Len(ks) <= MaxCalls /\ calls' = calls + Len(ks)
        /\ query' = [i \in CallIds |-> IF i \in (calls + 1)..(calls + Len(ks))
                                  THEN [pc |-> "sent", kind |-> ks[i - calls], ok |-> FALSE, number |-> 0]
                                  ELSE c[i]]
        /\ lastAsked' = IF "list" \in ToSet(ks) THEN calls + 1 ELSE lastAsked
    BY Zenon DEF SendingAfter
  <1> HIDE DEF ks
  <1>3. calls \in Nat /\ MaxCalls \in Nat
    BY LiveAssumption, SMT DEF LiveTypeOK
  <1>4. calls + 1 \in CallIds /\ calls' = calls + 1
    BY <1>1, <1>2, <1>3, SMT DEF CallIds
  <1>5. lastAsked' = IF k = "list" THEN calls + 1 ELSE lastAsked
    BY <1>1, <1>2, Zenon
  <1>6. \A i \in CallIds : (i \in (calls + 1)..(calls + Len(ks)) <=> i = calls + 1)
                           /\ (i = calls + 1 => ks[i - calls] = k)
    BY <1>1, <1>3, SMT DEF CallIds
  <1>7. query' = [i \in CallIds |->
                    IF i = calls + 1 THEN [pc |-> "sent", kind |-> k, ok |-> FALSE, number |-> 0]
                    ELSE c[i]]
    BY <1>2, <1>6, Zenon
  <1> QED
    BY <1>4, <1>5, <1>7

\* Nothing is sent.
LEMMA NoneMore ==
  ASSUME LiveTypeOK, NEW c \in [CallIds -> Queries], SendingAfter(c, << >>)
  PROVE  calls' = calls /\ lastAsked' = lastAsked /\ query' = c
  <1> DEFINE ks == << >>
  <1>1. Len(ks) = 0 /\ "list" \notin ToSet(ks)
    BY SMT DEF ToSet
  <1>2. /\ calls' = calls + Len(ks)
        /\ query' = [i \in CallIds |-> IF i \in (calls + 1)..(calls + Len(ks))
                                  THEN [pc |-> "sent", kind |-> ks[i - calls], ok |-> FALSE, number |-> 0]
                                  ELSE c[i]]
        /\ lastAsked' = IF "list" \in ToSet(ks) THEN calls + 1 ELSE lastAsked
    BY Zenon DEF SendingAfter
  <1> HIDE DEF ks
  <1>3. calls \in Nat
    BY LiveAssumption, SMT DEF LiveTypeOK
  <1>4. \A i \in CallIds : i \notin (calls + 1)..(calls + Len(ks))
    BY <1>1, <1>3, SMT DEF CallIds
  <1>5. query' = [i \in CallIds |-> c[i]]
    BY <1>2, <1>4, Zenon
  <1>6. calls' = calls
    BY <1>1, <1>2, <1>3, SMT
  <1> QED
    BY <1>1, <1>2, <1>5, <1>6, Zenon

\* A request is sent; what the page was told of in the step, it asks for.
LEMMA AskInv ==
  ASSUME LiveTypeOK, ReadInv, NEW c \in [CallIds -> Queries], Reads(c), NEW k \in Kinds,
         SendingAfter(c, <<k>>), UNCHANGED <<holder, content>>, MailIsStored',
         known' \in Nat, KnownIsStored', known' = known \/ k = "list",
         view' \in Views, view'.from <= view.from,
         k = "list" \/ (view'.from = view.from /\ view'.list = view.list /\ view'.failed = view.failed)
  PROVE  ReadInv'
  <1> DEFINE new == [pc |-> "sent", kind |-> k, ok |-> FALSE, number |-> 0]
  <1>1. /\ calls + 1 \in CallIds /\ calls' = calls + 1
        /\ lastAsked' = IF k = "list" THEN calls + 1 ELSE lastAsked
        /\ \A i \in CallIds : query'[i] = IF i = calls + 1 THEN new ELSE c[i]
    BY OneMore, Zenon
  <1>2. new.pc = "sent" /\ new.kind = k
    BY Zenon
  <1> HIDE DEF new
  <1>3. /\ calls \in Nat /\ lastAsked \in Nat /\ view.from \in Nat /\ view'.from \in Nat
        /\ view.from <= lastAsked /\ lastAsked <= calls
    BY LiveAssumption, SMT DEF LiveTypeOK, ReadInv, Views
  <1>4. view'.from <= lastAsked' /\ lastAsked' <= calls' /\ lastAsked <= lastAsked'
        /\ (k = "list" => lastAsked' = calls + 1 /\ lastAsked' # 0) /\ lastAsked # calls + 1
    BY <1>1, <1>3, SMT
  <1>5. InOrder(query)'
    <2> SUFFICES ASSUME NEW i \in CallIds, query'[i].pc # "none"
                 PROVE  i <= calls' /\ (query'[i].kind = "list" => i <= lastAsked')
      BY Zenon DEF InOrder
    <2>1. CASE i = calls + 1
      <3>1. query'[i] = new
        BY <1>1, <2>1, Zenon
      <3>2. query'[i].kind = "list" => lastAsked' = i
        BY <1>2, <1>4, <2>1, <3>1, Zenon
      <3>3. i \in Nat /\ calls' = i
        BY <1>1, <1>3, <2>1, SMT
      <3> QED
        BY <3>2, <3>3, SMT
    <2>2. CASE i # calls + 1
      <3>1. query'[i] = c[i]
        BY <1>1, <2>2, Zenon
      <3>2. i <= calls /\ (c[i].kind = "list" => i <= lastAsked)
        BY <3>1, Zenon DEF Reads, InOrder
      <3>3. i \in Nat
        BY SMT DEF CallIds
      <3>4. i <= calls' /\ (i <= lastAsked => i <= lastAsked')
        BY <1>1, <1>3, <1>4, <3>2, <3>3, SMT
      <3> QED
        BY <3>1, <3>2, <3>4, Zenon
    <2> QED
      BY <2>1, <2>2
  <1>6. AnswersAreStored(query)'
    <2> SUFFICES ASSUME NEW i \in CallIds, query'[i].pc = "served"
                 PROVE  query'[i].number <= content[holder.of]
      BY Zenon DEF AnswersAreStored
    <2>1. i # calls + 1
      BY <1>1, <1>2
    <2>2. query'[i] = c[i]
      BY <1>1, <2>1, Zenon
    <2> QED
      BY <2>2, Zenon DEF Reads, AnswersAreStored
  <1>7. LastReads(query)'
    <2>1. CASE k = "list"
      <3>1. query'[lastAsked'] = new /\ lastAsked' # 0
        BY <1>1, <1>4, <2>1, Zenon
      <3> QED
        BY <1>2, <2>1, <3>1, Zenon DEF LastReads
    <2>2. CASE k # "list"
      <3>1. lastAsked' = lastAsked /\ known' = known
        BY <1>1, <2>2, Zenon
      <3>2. CASE lastAsked = 0
        BY <3>1, <3>2, Zenon DEF LastReads, Reads
      <3>3. CASE lastAsked # 0
        <4>1. lastAsked \in CallIds
          BY <1>1, <1>3, <3>3, LiveAssumption, SMT DEF CallIds
        <4>2. query'[lastAsked] = c[lastAsked]
          BY <1>1, <1>4, <4>1, Zenon
        <4>3. view'.from = view.from /\ view'.list = view.list /\ view'.failed = view.failed
          BY <2>2
        <4>4. \/ c[lastAsked].pc = "sent" /\ c[lastAsked].kind = "list"
              \/ /\ c[lastAsked].pc = "served" /\ c[lastAsked].kind = "list"
                 /\ c[lastAsked].ok => known <= c[lastAsked].number
              \/ /\ c[lastAsked].pc = "none"
                 /\ view.from < lastAsked \/ view.failed \/ known <= view.list
          BY <3>3, Zenon DEF LastReads, Reads
        <4> QED
          BY <3>1, <3>3, <4>2, <4>3, <4>4, Zenon DEF LastReads
      <3> QED
        BY <3>2, <3>3
    <2> QED
      BY <2>1, <2>2
  <1> QED
    BY <1>4, <1>5, <1>6, <1>7, Zenon DEF ReadInv, Reads

\* The page, with its requests, is gone.
LEMMA GoneReads ==
  ASSUME LiveTypeOK, ReadInv, Gone, UNCHANGED <<mail, content>>
  PROVE  ReadInv'
  <1>1. /\ view'.from = 0 /\ known' = 0 /\ lastAsked' = 0 /\ calls' = calls
        /\ \A i \in CallIds : query'[i].pc = "none"
    BY Zenon DEF Gone, NoView, Opened, NoQuery
  <1>2. calls \in Nat
    BY LiveAssumption, SMT DEF LiveTypeOK
  <1>3. view'.from <= lastAsked' /\ lastAsked' <= calls'
    BY <1>1, <1>2, SMT
  <1>4. InOrder(query)' /\ AnswersAreStored(query)' /\ LastReads(query)' /\ KnownIsStored'
    BY <1>1, SMT DEF InOrder, AnswersAreStored, LastReads, KnownIsStored
  <1>5. MailIsStored'
    BY Zenon DEF ReadInv, MailIsStored
  <1> QED
    BY <1>3, <1>4, <1>5, Zenon DEF ReadInv, Reads

\* Steps of session and socket.
LEMMA SocketReads ==
  ASSUME LiveTypeOK, ReadInv, holder'.of = holder.of, mail' = mail \/ mail' = << >>,
         UNCHANGED <<content, view, known, query, calls, lastAsked>>
  PROVE  ReadInv'
  <1>1. MailIsStored'
    <2>1. CASE mail' = mail
      BY <2>1, Zenon DEF ReadInv, MailIsStored
    <2>2. CASE mail' = << >>
      BY <2>2, SMT DEF MailIsStored
    <2> QED
      BY <2>1, <2>2
  <1> QED
    BY <1>1, Zenon DEF ReadInv, Reads, InOrder, AnswersAreStored, LastReads, KnownIsStored

\* A tenant's data changes.
LEMMA MoreIsStored ==
  ASSUME LiveTypeOK, PagesNeedSession, ReadInv, content' \in [Owners -> 0..MaxChanges],
         \A t \in Owners : content[t] <= content'[t]
  PROVE  /\ \A i \in 1..Len(mail) : mail[i].number <= content'[mail[i].from]
         /\ known # 0 => holder.of \in Owners /\ known <= content'[holder.of]
         /\ \A i \in CallIds : query[i].pc = "served" => query[i].number <= content'[holder.of]
  <1> USE LiveAssumption
  <1>0. /\ content \in [Owners -> 0..MaxChanges] /\ mail \in Seq(Announcements)
        /\ query \in [CallIds -> Queries] /\ known \in 0..MaxChanges
    BY Zenon DEF LiveTypeOK
  <1>1. \A t \in Owners, n \in 0..MaxChanges : n <= content[t] => n <= content'[t]
    BY <1>0, SMT
  <1>2. ASSUME NEW i \in 1..Len(mail) PROVE mail[i].number <= content'[mail[i].from]
    <2>1. mail[i] \in Announcements
      BY <1>0, SMT
    <2>2. mail[i].number \in 0..MaxChanges /\ mail[i].from \in Owners
      BY <2>1, SMT DEF Announcements, Owners
    <2> QED
      BY <1>1, <2>2, Zenon DEF ReadInv, MailIsStored
  <1>3. known # 0 => holder.of \in Owners /\ known <= content'[holder.of]
    BY <1>0, <1>1, Zenon DEF ReadInv, KnownIsStored
  <1>4. ASSUME NEW i \in CallIds, query[i].pc = "served" PROVE query[i].number <= content'[holder.of]
    <2>1. query[i].number \in 0..MaxChanges
      BY <1>0, SMT DEF Queries
    <2>2. holder.of \in Owners
      BY <1>4, SMT DEF PagesNeedSession
    <2> QED
      BY <1>1, <1>4, <2>1, <2>2, Zenon DEF ReadInv, Reads, AnswersAreStored
  <1> QED
    BY <1>2, <1>3, <1>4

LEMMA AnnounceReads ==
  ASSUME LiveTypeOK, PagesNeedSession, ReadInv, NEW t \in Tenants, Announce(t)
  PROVE  ReadInv'
  <1> USE LiveAssumption
  <1>0. /\ content \in [Owners -> 0..MaxChanges] /\ mail \in Seq(Announcements) /\ t \in Owners
        /\ content[t] < MaxChanges /\ content' = [content EXCEPT ![t] = @ + 1]
        /\ UNCHANGED <<holder, view, known, query, calls, lastAsked>>
    BY Zenon DEF LiveTypeOK, Announce, Owners
  <1>1. /\ content' \in [Owners -> 0..MaxChanges] /\ content'[t] = content[t] + 1
        /\ \A s \in Owners : content[s] <= content'[s]
    <2> DEFINE n == content[t]
    <2>1. n \in 0..MaxChanges /\ n < MaxChanges /\ content' = [content EXCEPT ![t] = n + 1]
      BY <1>0, Zenon
    <2> HIDE DEF n
    <2>2. n + 1 \in 0..MaxChanges /\ n <= n + 1
      BY <2>1, SMT
    <2>3. content' \in [Owners -> 0..MaxChanges]
          /\ \A s \in Owners : content'[s] = IF s = t THEN n + 1 ELSE content[s]
      BY <1>0, <2>1, <2>2, Zenon
    <2>4. ASSUME NEW s \in Owners PROVE content[s] <= content'[s]
      <3>1. content[s] <= content[s]
        BY <1>0, SMT
      <3> QED
        BY <2>2, <2>3, <3>1, Zenon DEF n
    <2> QED
      BY <1>0, <2>3, <2>4, Zenon DEF n
  <1>2. /\ \A i \in 1..Len(mail) : mail[i].number <= content'[mail[i].from]
        /\ known # 0 => holder.of \in Owners /\ known <= content'[holder.of]
        /\ \A i \in CallIds : query[i].pc = "served" => query[i].number <= content'[holder.of]
    BY <1>1, MoreIsStored, Zenon
  <1>3. MailIsStored'
    <2>1. CASE Addressed(t)
      <3> DEFINE m == [from |-> t, number |-> content[t] + 1]
      <3>1. m \in Announcements /\ m.number <= content'[m.from]
        BY <1>0, <1>1, SMT DEF Announcements
      <3>2. mail' = Append(mail, m)
        BY <2>1, Zenon DEF Announce
      <3> HIDE DEF m
      <3> QED
        BY <1>0, <1>2, <3>1, <3>2, SMT DEF MailIsStored
    <2>2. CASE ~Addressed(t)
      <3>1. mail' = mail
        BY <2>2, Zenon DEF Announce
      <3> QED
        BY <1>2, <3>1, Zenon DEF MailIsStored
    <2> QED
      BY <2>1, <2>2
  <1>4. KnownIsStored' /\ AnswersAreStored(query)'
    BY <1>0, <1>2, Zenon DEF KnownIsStored, AnswersAreStored
  <1>5. InOrder(query)' /\ LastReads(query)' /\ view'.from <= lastAsked' /\ lastAsked' <= calls'
    BY <1>0, Zenon DEF ReadInv, Reads, InOrder, LastReads
  <1> QED
    BY <1>3, <1>4, <1>5, Zenon DEF ReadInv, Reads

\* The button, the forms and opening a page.
LEMMA PageReads ==
  ASSUME LiveTypeOK, ReadInv,
         \/ OpenDirectory \/ OpenOverview \/ OpenConsole \/ Refresh \/ ReportIncident
         \/ \E kind \in {"row", "admin"} : SubmitForm(kind)
         \/ \E kind \in {"review", "provision"} : SubmitReview(kind)
  PROVE  ReadInv'
  <1>1. UNCHANGED <<holder, mail, content, known>>
    BY Zenon DEF OpenDirectory, OpenOverview, OpenConsole, Refresh, ReportIncident, SubmitForm, SubmitReview
  <1>2. MailIsStored' /\ KnownIsStored' /\ known' \in Nat
    <2>1. known \in Nat
      BY LiveAssumption, SMT DEF LiveTypeOK
    <2> QED
      BY <1>1, <2>1, Zenon DEF ReadInv, MailIsStored, KnownIsStored
  <1>3. query \in [CallIds -> Queries] /\ Reads(query) /\ view \in Views
    BY Zenon DEF LiveTypeOK, ReadInv
  <1>4. /\ view' \in Views /\ view'.from <= view.from
        /\ \/ SendingAfter(query, <<"list">>)
           \/ /\ view' = view
              /\ \E k \in Kinds : SendingAfter(query, <<k>>)
    <2>0. view.from \in Nat
      BY <1>3, LiveAssumption, SMT DEF Views
    <2>1. CASE OpenDirectory \/ OpenOverview \/ OpenConsole
      <3>1. PICK p \in {"directory", "console", "overview"} : view' = Opened(p)
        BY <2>1, Zenon DEF OpenDirectory, OpenOverview, OpenConsole
      <3>2. view' \in Views /\ view'.from = 0
        BY <3>1, OpenedView, Zenon DEF Opened
      <3>3. view'.from <= view.from
        BY <2>0, <3>2, SMT
      <3> QED
        BY <2>1, <3>2, <3>3, Zenon DEF OpenDirectory, OpenOverview, OpenConsole, Sending
    <2>2. CASE Refresh
      <3>1. view' = [view EXCEPT !.loading = TRUE]
        BY <2>2, Zenon DEF Refresh
      <3>2. view' \in Views
        BY <1>3, <3>1, ViewLoads, Zenon
      <3>3. view'.from = view.from
        BY <1>3, <3>1, SMT DEF Views
      <3>4. view'.from <= view.from
        BY <2>0, <3>3, SMT
      <3> QED
        BY <2>2, <3>2, <3>4, Zenon DEF Refresh, Sending
    <2>3. CASE \/ ReportIncident
               \/ \E kind \in {"row", "admin"} : SubmitForm(kind)
               \/ \E kind \in {"review", "provision"} : SubmitReview(kind)
      <3>1. {"list", "row", "admin", "review", "provision"} \subseteq Kinds
        BY SMT DEF Kinds
      <3>2. view' = view /\ \E k \in Kinds : SendingAfter(query, <<k>>)
        BY <2>3, <3>1, Zenon DEF ReportIncident, SubmitForm, SubmitReview, Sending, Reloaded
      <3>3. view'.from <= view.from
        BY <2>0, <3>2, SMT
      <3> QED
        BY <1>3, <3>2, <3>3, Zenon
    <2> QED
      BY <2>1, <2>2, <2>3
  <1>5. CASE SendingAfter(query, <<"list">>)
    <2>1. "list" \in Kinds
      BY SMT DEF Kinds
    <2> QED
      BY <1>1, <1>2, <1>3, <1>4, <1>5, <2>1, AskInv, Zenon
  <1>6. ASSUME NEW k \in Kinds, SendingAfter(query, <<k>>), view' = view PROVE ReadInv'
    BY <1>1, <1>2, <1>3, <1>4, <1>6, AskInv, Zenon
  <1> QED
    BY <1>4, <1>5, <1>6, Zenon

\* An announcement is heard, and the list read again.
LEMMA HearReads ==
  ASSUME LiveTypeOK, PagesNeedSession, ReadInv, Hear
  PROVE  ReadInv'
  <1> USE LiveAssumption
  <1>1. UNCHANGED <<holder, content, view>> /\ mail \in Seq(Announcements)
        /\ mail # << >> /\ mail' = Tail(mail) /\ view \in Views
        /\ query \in [CallIds -> Queries]
    BY Zenon DEF LiveTypeOK, Hear
  <1>2. MailIsStored'
    BY <1>1, SMT DEF ReadInv, MailIsStored
  <1>3. Head(mail) = mail[1] /\ 1 \in 1..Len(mail) /\ Head(mail) \in Announcements
    BY <1>1, SMT
  <1>4. Head(mail).number \in Nat /\ Head(mail).number <= content[Head(mail).from]
        /\ Head(mail).from \in Owners
    <2>1. Head(mail).number \in Nat /\ Head(mail).from \in Owners
      BY <1>3, SMT DEF Announcements, Owners
    <2> QED
      BY <1>3, <2>1, Zenon DEF ReadInv, MailIsStored
  <1>5. CASE view.page = "directory"
    <2>1. SendingAfter(query, <<"list">>) /\ "list" \in Kinds
      BY <1>5, SMT DEF Hear, Sending, Reloaded, Kinds
    <2>2. known' = IF Head(mail).from = holder.of THEN Newer(known, Head(mail).number) ELSE known
      BY <1>5, Zenon DEF Hear
    <2>3. known \in Nat
      BY SMT DEF LiveTypeOK
    <2> DEFINE n == Head(mail).number
               d == content[holder.of]
    <2>4. Head(mail).from = holder.of => n <= d /\ holder.of \in Owners
      BY <1>4, Zenon
    <2>5. n \in Nat /\ known' = (IF Head(mail).from = holder.of THEN Newer(known, n) ELSE known)
          /\ (known # 0 => holder.of \in Owners /\ known <= d)
      BY <1>4, <2>2, Zenon DEF ReadInv, KnownIsStored
    <2> HIDE DEF n, d
    <2>6. known' \in Nat /\ (known' # 0 => holder.of \in Owners /\ known' <= d)
      BY <2>3, <2>4, <2>5, SMT DEF Newer
    <2>7. KnownIsStored'
      BY <1>1, <2>6, Zenon DEF KnownIsStored, d
    <2>8. view'.from <= view.from
      BY <1>1, SMT DEF Views
    <2> QED
      BY <1>1, <1>2, <2>1, <2>6, <2>7, <2>8, AskInv, Zenon DEF ReadInv
  <1>6. CASE view.page # "directory"
    <2>1. UNCHANGED <<known, query, calls, lastAsked>>
      BY <1>6, Zenon DEF Hear
    <2> QED
      BY <1>1, <1>2, <2>1, Zenon
      DEF ReadInv, Reads, InOrder, AnswersAreStored, LastReads, KnownIsStored
  <1> QED
    BY <1>5, <1>6

\* The services answer: a list is read as it is.
LEMMA ServeReads ==
  ASSUME LiveTypeOK, PagesNeedSession, ReadInv, NEW i \in CallIds,
         NEW done \in BOOLEAN, NEW ok \in BOOLEAN, Serve(i, done, ok)
  PROVE  ReadInv'
  <1> USE LiveAssumption
  <1> DEFINE writes == done /\ query[i].kind # "list"
             stored == content[holder.of]
             amount == IF ok THEN content'[holder.of] ELSE 0
             new == [pc |-> "served", kind |-> query[i].kind, ok |-> ok, number |-> amount]
  <1>0. /\ query[i].pc = "sent" /\ (writes => stored < MaxChanges)
        /\ content' = [content EXCEPT ![holder.of] = IF writes THEN @ + 1 ELSE @]
        /\ query' = [query EXCEPT ![i] = new]
        /\ UNCHANGED <<holder, mail, view, known, calls, lastAsked>>
    <2> DEFINE after == [content EXCEPT ![holder.of] = IF writes THEN @ + 1 ELSE @]
               served == [pc |-> "served", kind |-> query[i].kind, ok |-> ok,
                          number |-> IF ok THEN after[holder.of] ELSE 0]
    <2>1. /\ query[i].pc = "sent" /\ (writes => stored < MaxChanges)
          /\ content' = after /\ query' = [query EXCEPT ![i] = served]
          /\ UNCHANGED <<holder, mail, view, known, calls, lastAsked>>
      BY Zenon DEF Serve
    <2>2. after[holder.of] = content'[holder.of]
      BY <2>1
    <2> HIDE DEF after
    <2>3. served = new
      BY <2>2
    <2> QED
      BY <2>1, <2>3, Zenon DEF after
  <1>a. query[i].pc = "sent" /\ (writes => stored < MaxChanges)
    BY <1>0
  <1>b. UNCHANGED <<holder, mail, view, known, calls, lastAsked>>
    BY <1>0
  <1>c. query[i].pc # "none" /\ query[i].pc # "served"
    <2> DEFINE pc == query[i].pc
    <2>1. pc = "sent"
      BY <1>a, Zenon
    <2> HIDE DEF pc
    <2> QED
      BY <2>1, SMT DEF pc
  <1>1. holder.of \in Owners
    BY <1>c, Zenon DEF PagesNeedSession
  <1>2. /\ content \in [Owners -> 0..MaxChanges] /\ query \in [CallIds -> Queries]
        /\ lastAsked \in 0..MaxCalls /\ known \in 0..MaxChanges /\ stored \in 0..MaxChanges
    BY <1>1, Zenon DEF LiveTypeOK
  <1>3. /\ content' \in [Owners -> 0..MaxChanges] /\ \A t \in Owners : content[t] <= content'[t]
        /\ ~writes => content'[holder.of] = stored
    <2> DEFINE after == IF writes THEN stored + 1 ELSE stored
    <2>1. content' = [content EXCEPT ![holder.of] = after]
      BY <1>0, Zenon
    <2> HIDE DEF writes, stored
    <2>2. after \in 0..MaxChanges /\ stored <= after /\ (~writes => after = stored)
      BY <1>a, <1>2, SMT
    <2> HIDE DEF after
    <2>3. content' \in [Owners -> 0..MaxChanges]
          /\ \A t \in Owners : content'[t] = IF t = holder.of THEN after ELSE content[t]
      BY <1>2, <2>1, <2>2, Zenon
    <2>4. ASSUME NEW t \in Owners PROVE content[t] <= content'[t]
      <3>1. content[t] <= content[t]
        BY <1>2, SMT
      <3> QED
        BY <2>2, <2>3, <3>1, Zenon DEF stored
    <2> QED
      BY <1>1, <2>2, <2>3, <2>4, Zenon
  <1>4. /\ \A j \in 1..Len(mail) : mail[j].number <= content'[mail[j].from]
        /\ known # 0 => holder.of \in Owners /\ known <= content'[holder.of]
        /\ \A j \in CallIds : query[j].pc = "served" => query[j].number <= content'[holder.of]
    BY <1>3, MoreIsStored, Zenon
  <1>5. /\ new.pc = "served" /\ new.kind = query[i].kind /\ new.ok = ok /\ new.number = amount
        /\ amount <= content'[holder.of]
    <2>1. content'[holder.of] \in 0..MaxChanges
      BY <1>1, <1>3, Zenon
    <2>2. amount <= content'[holder.of]
      BY <2>1, SMT
    <2> QED
      BY <2>2, Zenon
  <1>6. \A j \in CallIds : query'[j] = IF j = i THEN new ELSE query[j]
    BY <1>0, <1>2, Zenon
  <1>7. i = lastAsked => query[i].kind = "list" /\ (ok => known <= amount)
    <2> SUFFICES ASSUME i = lastAsked PROVE query[i].kind = "list" /\ (ok => known <= amount)
      OBVIOUS
    <2>1. lastAsked # 0 /\ lastAsked = i
      BY SMT DEF CallIds
    <2>2. query[i].kind = "list"
      BY <1>c, <2>1, Zenon DEF ReadInv, Reads, LastReads
    <2>3. known <= content'[holder.of]
      <3>1. content'[holder.of] \in 0..MaxChanges
        BY <1>1, <1>3, Zenon
      <3> QED
        BY <1>2, <1>4, <3>1, SMT
    <2> QED
      BY <2>2, <2>3, Zenon
  <1> HIDE DEF new, amount, writes, stored
  <1>8. MailIsStored' /\ KnownIsStored'
    BY <1>b, <1>4, Zenon DEF MailIsStored, KnownIsStored
  <1>9. InOrder(query)' /\ view'.from <= lastAsked' /\ lastAsked' <= calls'
    <2>1. i <= calls /\ (query[i].kind = "list" => i <= lastAsked)
      BY <1>c, Zenon DEF ReadInv, Reads, InOrder
    <2> QED
      BY <1>b, <1>5, <1>6, <2>1, Zenon DEF ReadInv, Reads, InOrder
  <1>10. AnswersAreStored(query)'
    BY <1>b, <1>4, <1>5, <1>6, Zenon DEF AnswersAreStored
  <1>11. LastReads(query)'
    <2>1. CASE lastAsked = 0
      BY <1>b, <2>1, Zenon DEF ReadInv, Reads, LastReads
    <2>2. CASE lastAsked = i
      <3>1. lastAsked # 0
        BY <2>2, SMT DEF CallIds
      <3>2. query'[lastAsked] = new
        BY <1>6, <2>2, Zenon
      <3> QED
        BY <1>b, <1>5, <1>7, <2>2, <3>1, <3>2, Zenon DEF LastReads
    <2>3. CASE lastAsked # 0 /\ lastAsked # i
      <3>1. query'[lastAsked] = query[lastAsked]
        <4>1. lastAsked \in CallIds
          BY <1>2, <2>3, SMT DEF CallIds
        <4> QED
          BY <1>6, <2>3, <4>1, Zenon
      <3> QED
        BY <1>b, <2>3, <3>1, Zenon DEF ReadInv, Reads, LastReads
    <2> QED
      BY <2>1, <2>2, <2>3
  <1> QED
    BY <1>8, <1>9, <1>10, <1>11, Zenon DEF ReadInv, Reads

\* An answer is shown.
LEMMA ListReads ==
  ASSUME LiveTypeOK, ReadInv, NEW i \in CallIds, ListAnswered(i)
  PROVE  ReadInv'
  <1> USE LiveAssumption
  <1>0. /\ query[i].pc = "served" /\ query[i].kind = "list" /\ query' = [query EXCEPT ![i] = NoQuery]
        /\ view'.from = i /\ view'.failed = ~query[i].ok
        /\ query[i].ok => view'.list = query[i].number
        /\ UNCHANGED <<holder, mail, content, known, calls, lastAsked>>
    BY Zenon DEF ListAnswered
  <1>a. UNCHANGED <<holder, mail, content, known, calls, lastAsked>>
    BY <1>0
  <1>1. \A j \in CallIds : query'[j] = IF j = i THEN NoQuery ELSE query[j]
    BY <1>0, Zenon DEF LiveTypeOK
  <1>2. NoQuery.pc = "none"
    BY Zenon DEF NoQuery
  <1>3. i <= lastAsked /\ i \in Nat /\ i # 0
    BY <1>0, SMT DEF ReadInv, Reads, InOrder, CallIds
  <1>4. lastAsked \in 0..MaxCalls
    BY Zenon DEF LiveTypeOK
  <1>5. MailIsStored' /\ KnownIsStored' /\ InOrder(query)' /\ AnswersAreStored(query)'
    <2>1. MailIsStored' /\ KnownIsStored'
      BY <1>a, Zenon DEF ReadInv, MailIsStored, KnownIsStored
    <2>2. InOrder(query)'
      BY <1>a, <1>1, <1>2, Zenon DEF ReadInv, Reads, InOrder
    <2>3. AnswersAreStored(query)'
      <3> SUFFICES ASSUME NEW j \in CallIds, query'[j].pc = "served"
                   PROVE  query'[j].number <= content[holder.of]
        BY <1>0, Zenon DEF AnswersAreStored
      <3>1. j # i
        BY <1>1, <1>2
      <3>2. query'[j] = query[j]
        BY <1>1, <3>1, Zenon
      <3> QED
        BY <3>2, Zenon DEF ReadInv, Reads, AnswersAreStored
    <2> QED
      BY <2>1, <2>2, <2>3
  <1>6. LastReads(query)'
    <2>1. CASE lastAsked = i
      <3>1. query'[lastAsked] = NoQuery
        BY <1>1, <2>1, Zenon
      <3>2. query[i].ok => known <= query[i].number
        BY <1>0, <1>3, <2>1, SMT DEF ReadInv, Reads, LastReads
      <3> QED
        BY <1>0, <1>2, <1>3, <2>1, <3>1, <3>2, Zenon DEF LastReads
    <2>2. CASE lastAsked # i
      <3>1. i < lastAsked /\ lastAsked \in CallIds /\ lastAsked # 0
        BY <1>3, <1>4, <2>2, SMT DEF CallIds
      <3>2. query'[lastAsked] = query[lastAsked]
        BY <1>1, <2>2, <3>1, Zenon
      <3> QED
        BY <1>0, <3>1, <3>2, Zenon DEF ReadInv, Reads, LastReads
    <2> QED
      BY <2>1, <2>2
  <1>7. view'.from <= lastAsked' /\ lastAsked' <= calls'
    BY <1>0, <1>3, Zenon DEF ReadInv
  <1> QED
    BY <1>5, <1>6, <1>7, Zenon DEF ReadInv, Reads

\* A form or a review is answered: what it tells of is asked for.
LEMMA PostReads ==
  ASSUME LiveTypeOK, PagesNeedSession, ReadInv, NEW i \in CallIds, PostAnswered(i)
  PROVE  ReadInv'
  <1> USE LiveAssumption
  <1> DEFINE c == [query EXCEPT ![i] = NoQuery]
  <1>0. /\ query[i].pc = "served" /\ query[i].kind # "list"
        /\ known' = IF query[i].ok /\ query[i].kind # "admin" THEN Newer(known, query[i].number) ELSE known
        /\ SendingAfter(c, Follow(i)) \/ (~query[i].ok /\ SendingAfter(c, << >>))
        /\ view' = [view EXCEPT !.loading = @ \/ lastAsked' # lastAsked]
        /\ UNCHANGED <<holder, mail, content>>
    BY Zenon DEF PostAnswered
  <1>1. query \in [CallIds -> Queries] /\ query[i] \in Queries /\ view \in Views /\ known \in Nat
    BY SMT DEF LiveTypeOK
  <1>2. /\ c \in [CallIds -> Queries]
        /\ \A j \in CallIds : c[j] = IF j = i THEN NoQuery ELSE query[j]
    BY <1>1, NothingYet, Zenon
  <1>3. NoQuery.pc = "none"
    BY Zenon DEF NoQuery
  <1> HIDE DEF c
  <1>4. /\ view' \in Views /\ view'.from = view.from /\ view'.list = view.list
        /\ view'.failed = view.failed /\ view'.from <= view.from
    <2> DEFINE l == view.loading \/ lastAsked' # lastAsked
    <2>1. l \in BOOLEAN /\ view' = [view EXCEPT !.loading = l]
      BY <1>0, <1>1, Zenon
    <2> HIDE DEF l
    <2>2. view' \in Views
      BY <1>1, <2>1, ViewLoads, Zenon
    <2>3. view'.from = view.from /\ view'.list = view.list /\ view'.failed = view.failed
      BY <1>1, <2>1, Zenon DEF Views
    <2>4. view.from \in Nat
      BY <1>1, SMT DEF Views
    <2>5. view'.from <= view.from
      BY <2>3, <2>4, SMT
    <2> QED
      BY <2>2, <2>3, <2>5
  <1>5. Reads(c)
    <2>1. InOrder(c)
      BY <1>2, <1>3, Zenon DEF ReadInv, Reads, InOrder
    <2>2. AnswersAreStored(c)
      <3> SUFFICES ASSUME NEW j \in CallIds, c[j].pc = "served"
                   PROVE  c[j].number <= content[holder.of]
        BY Zenon DEF AnswersAreStored
      <3>1. j # i
        BY <1>2, <1>3
      <3>2. c[j] = query[j]
        BY <1>2, <3>1, Zenon
      <3> QED
        BY <3>2, Zenon DEF ReadInv, Reads, AnswersAreStored
    <2>3. LastReads(c)
      <3>1. CASE lastAsked = 0
        BY <3>1, Zenon DEF ReadInv, Reads, LastReads
      <3>2. CASE lastAsked # 0
        <4>1. lastAsked # i
          BY <1>0, <3>2, SMT DEF ReadInv, Reads, LastReads
        <4>2. lastAsked \in CallIds
          BY <3>2, SMT DEF LiveTypeOK, CallIds
        <4>3. c[lastAsked] = query[lastAsked]
          BY <1>2, <4>1, <4>2, Zenon
        <4> QED
          BY <3>2, <4>3, Zenon DEF ReadInv, Reads, LastReads
      <3> QED
        BY <3>1, <3>2
    <2> QED
      BY <2>1, <2>2, <2>3 DEF Reads
  <1>6. known' \in Nat /\ KnownIsStored' /\ MailIsStored'
    <2> DEFINE n == query[i].number
               d == content[holder.of]
               told == query[i].ok /\ query[i].kind # "admin"
    <2>1. n \in Nat /\ n <= d /\ known' = (IF told THEN Newer(known, n) ELSE known)
      <3>1. n \in Nat
        BY <1>1, SMT DEF Queries
      <3> QED
        BY <1>0, <3>1, Zenon DEF ReadInv, Reads, AnswersAreStored
    <2>2. holder.of \in Owners
      BY <1>0, SMT DEF PagesNeedSession
    <2>3. known # 0 => known <= d
      BY Zenon DEF ReadInv, KnownIsStored
    <2> HIDE DEF n, d, told
    <2>4. known' \in Nat /\ (known' # 0 => known' <= d)
      BY <1>1, <2>1, <2>3, SMT DEF Newer
    <2> QED
      BY <1>0, <2>2, <2>4, Zenon DEF ReadInv, KnownIsStored, MailIsStored, d
  <1>7. CASE SendingAfter(c, << >>) /\ known' = known
    <2>1. calls' = calls /\ lastAsked' = lastAsked /\ query' = c
      BY <1>2, <1>7, NoneMore, Zenon
    <2>2. InOrder(query)' /\ AnswersAreStored(query)' /\ LastReads(query)'
      BY <1>0, <1>4, <1>5, <1>7, <2>1, Zenon DEF Reads, InOrder, AnswersAreStored, LastReads
    <2> QED
      BY <1>4, <1>6, <2>1, <2>2, Zenon DEF ReadInv, Reads
  <1>8. ASSUME NEW k \in Kinds, SendingAfter(c, <<k>>), known' = known \/ k = "list"
        PROVE  ReadInv'
    BY <1>0, <1>2, <1>4, <1>5, <1>6, <1>8, AskInv, Zenon
  <1>9. "vendor" \in Kinds /\ "list" \in Kinds
    BY SMT DEF Kinds
  <1>10. CASE SendingAfter(c, Follow(i))
    <2>1. CASE query[i].kind = "admin"
      <3>1. Follow(i) = <<"vendor">> /\ known' = known
        BY <1>0, <2>1, Zenon DEF Follow
      <3> QED
        BY <1>8, <1>9, <1>10, <3>1, Zenon
    <2>2. CASE query[i].kind # "admin" /\ query[i].ok
      <3>1. Follow(i) = <<"list">>
        BY <2>2, Zenon DEF Follow, Reloaded
      <3> QED
        BY <1>8, <1>9, <1>10, <3>1, Zenon
    <2>3. CASE query[i].kind # "admin" /\ ~query[i].ok
      <3>1. Follow(i) = << >> /\ known' = known
        BY <1>0, <2>3, Zenon DEF Follow
      <3> QED
        BY <1>7, <1>10, <3>1, Zenon
    <2> QED
      BY <2>1, <2>2, <2>3
  <1>11. CASE ~query[i].ok /\ SendingAfter(c, << >>)
    <2>1. known' = known
      BY <1>0, <1>11, Zenon
    <2> QED
      BY <1>7, <1>11, <2>1, Zenon
  <1> QED
    BY <1>0, <1>10, <1>11

LEMMA NextReadInv == LiveInv /\ ReadInv /\ [LiveNext]_liveVars => ReadInv'
  <1> SUFFICES ASSUME LiveInv, ReadInv, [LiveNext]_liveVars PROVE ReadInv'
    OBVIOUS
  <1>0. LiveTypeOK /\ PagesNeedSession
    BY DEF LiveInv
  <1>1. ASSUME NEW who \in Holders, ChangeSession(who) PROVE ReadInv'
    BY <1>0, <1>1, GoneReads, Zenon DEF ChangeSession
  <1>2. CASE TokenRunsOut \/ EffectRuns \/ Connects \/ Disconnects \/ Reconnects
    <2>1. UNCHANGED <<content, view, known, query, calls, lastAsked>> /\ (mail' = mail \/ mail' = << >>)
      BY <1>2, Zenon DEF TokenRunsOut, EffectRuns, Connects, Disconnects, Reconnects
    <2>2. holder'.of = holder.of
      <3>1. CASE TokenRunsOut
        <4>1. holder \in Sessions /\ holder' = [holder EXCEPT !.expired = TRUE]
          BY <1>0, <3>1, Zenon DEF TokenRunsOut, LiveTypeOK
        <4> QED
          BY <4>1, SessionExpires, Zenon
      <3>2. CASE EffectRuns \/ Connects \/ Disconnects \/ Reconnects
        BY <3>2, Zenon DEF EffectRuns, Connects, Disconnects, Reconnects
      <3> QED
        BY <1>2, <3>1, <3>2
    <2> QED
      BY <1>0, <2>1, <2>2, SocketReads, Zenon
  <1>3. ASSUME NEW t \in Tenants, Announce(t) PROVE ReadInv'
    BY <1>0, <1>3, AnnounceReads, Zenon
  <1>4. CASE ClosePage
    BY <1>0, <1>4, GoneReads, Zenon DEF ClosePage
  <1>5. CASE Hear
    BY <1>0, <1>5, HearReads, Zenon
  <1>6. CASE \/ OpenDirectory \/ OpenOverview \/ OpenConsole \/ Refresh \/ ReportIncident
             \/ \E kind \in {"row", "admin"} : SubmitForm(kind)
             \/ \E kind \in {"review", "provision"} : SubmitReview(kind)
    BY <1>0, <1>6, PageReads, Zenon
  <1>7. ASSUME NEW i \in CallIds, NEW done \in BOOLEAN, NEW ok \in BOOLEAN, Serve(i, done, ok)
        PROVE  ReadInv'
    BY <1>0, <1>7, ServeReads, Zenon
  <1>8. ASSUME NEW i \in CallIds, ListAnswered(i) \/ PostAnswered(i) PROVE ReadInv'
    BY <1>0, <1>8, ListReads, PostReads, Zenon
  <1>9. CASE UNCHANGED liveVars
    BY <1>0, <1>9, SocketReads, Zenon DEF liveVars
  <1> QED
    BY <1>1, <1>2, <1>3, <1>4, <1>5, <1>6, <1>7, <1>8, <1>9, Zenon DEF LiveNext

LEMMA InitReadInv == LiveInit => ReadInv
  <1> SUFFICES ASSUME LiveInit PROVE ReadInv
    OBVIOUS
  <1>1. view.from = 0 /\ \A i \in CallIds : query[i].pc = "none"
    BY Zenon DEF LiveInit, NoView, Opened, NoQuery
  <1> QED
    BY <1>1, SMT
    DEF LiveInit, ReadInv, Reads, MailIsStored, KnownIsStored, InOrder, AnswersAreStored, LastReads

\* When no answer is waited for, the list shows all the page was told of, for any
\* number of tenants, sessions, requests and changes, unless the answer it shows was
\* overtaken or failed.
THEOREM ListShowsAllThatIsKnown == LiveSpec => []ListShowsWhatIsKnown
  <1>1. LiveInv /\ ReadInv => ListShowsWhatIsKnown
    <2> SUFFICES ASSUME LiveInv, ReadInv, \A i \in CallIds : query[i].pc = "none"
                 PROVE  view.list >= known \/ view.failed \/ view.from < lastAsked
      BY Zenon DEF ListShowsWhatIsKnown
    <2>1. known \in Nat /\ view.list \in Nat /\ lastAsked \in 0..MaxCalls
      BY LiveAssumption, SMT DEF LiveInv, LiveTypeOK, Views
    <2>2. CASE lastAsked = 0
      BY <2>1, <2>2, SMT DEF ReadInv, Reads, LastReads
    <2>3. CASE lastAsked # 0
      <3>1. query[lastAsked].pc = "none"
        BY <2>1, <2>3, SMT DEF CallIds
      <3>2. view.from < lastAsked \/ view.failed \/ known <= view.list
        BY <2>3, <3>1, SMT DEF ReadInv, Reads, LastReads
      <3> QED
        BY <2>1, <3>2, SMT
    <2> QED
      BY <2>2, <2>3
  <1> QED
    BY LiveInvariant, InitReadInv, NextReadInv, <1>1, PTL DEF LiveSpec

-----------------------------------------------------------------------------
(* The sign-up wizard                                                      *)

\* As long as nothing strayed, the only interval is the one the ref names, and
\* the finger has been on the scanner since it started.
OneScan ==
    /\ holds \subseteq 1..presses /\ lifted \subseteq 1..presses
    /\ ~strayed => holds \subseteq {scanner.ref} /\ holds \cap lifted = {}

\* What the account owes to the submission that runs.
SubmissionFits ==
    /\ submission.pc = "register" => mode = "register"
    /\ submission.pc = "face" => mode = "enroll" /\ submission.face
    /\ mode = "enroll" => registry.account
    /\ step = "success" => submission.pc = "idle"
    /\ submission.pc # "idle" /\ ~late =>
         /\ submission.face <=> faceScan.enrolled /\ faceScan.image
         /\ submission.print <=> scanner.enrolled

SignupInv ==
    /\ SignupTypeOK /\ OneScan /\ SubmissionFits
    /\ PrintWasHeld /\ SuccessMeansStored

LEMMA ScannerChanges ==
  ASSUME NEW r \in Scanners
  PROVE  /\ \A p \in Presses : LET q == [r EXCEPT !.state = "scanning", !.ref = p]
                               IN q \in Scanners /\ q.enrolled = r.enrolled /\ q.ref = p
         /\ LET q == [r EXCEPT !.state = "failed"]
            IN q \in Scanners /\ q.enrolled = r.enrolled /\ q.ref = r.ref
         /\ LET q == [r EXCEPT !.state = "idle"]
            IN q \in Scanners /\ q.enrolled = r.enrolled /\ q.ref = r.ref
         /\ LET q == [r EXCEPT !.state = "success", !.enrolled = TRUE]
            IN q \in Scanners /\ q.enrolled /\ q.ref = r.ref
  <1>1. ASSUME NEW p \in Presses
        PROVE LET q == [r EXCEPT !.state = "scanning", !.ref = p]
              IN q \in Scanners /\ q.enrolled = r.enrolled /\ q.ref = p
    BY Zenon DEF Scanners
  <1>2. LET q == [r EXCEPT !.state = "failed"]
        IN q \in Scanners /\ q.enrolled = r.enrolled /\ q.ref = r.ref
    BY Zenon DEF Scanners
  <1>3. LET q == [r EXCEPT !.state = "idle"]
        IN q \in Scanners /\ q.enrolled = r.enrolled /\ q.ref = r.ref
    BY Zenon DEF Scanners
  <1>4. LET q == [r EXCEPT !.state = "success", !.enrolled = TRUE]
        IN q \in Scanners /\ q.enrolled /\ q.ref = r.ref
    BY Zenon DEF Scanners
  <1> QED  BY <1>1, <1>2, <1>3, <1>4, Zenon

LEMMA FaceScanChanges ==
  ASSUME NEW r \in FaceScans
  PROVE  /\ LET q == [r EXCEPT !.seen = TRUE]
            IN q \in FaceScans /\ q.enrolled = r.enrolled /\ q.image = r.image
         /\ LET q == [r EXCEPT !.status = "verifying", !.seen = TRUE]
            IN q \in FaceScans /\ q.enrolled = r.enrolled /\ q.image = r.image
         /\ \A b \in BOOLEAN : [r EXCEPT !.status = "success", !.enrolled = TRUE, !.image = b] \in FaceScans
  <1>1. LET q == [r EXCEPT !.seen = TRUE]
        IN q \in FaceScans /\ q.enrolled = r.enrolled /\ q.image = r.image
    BY Zenon DEF FaceScans
  <1>2. LET q == [r EXCEPT !.status = "verifying", !.seen = TRUE]
        IN q \in FaceScans /\ q.enrolled = r.enrolled /\ q.image = r.image
    BY Zenon DEF FaceScans
  <1>3. ASSUME NEW b \in BOOLEAN
        PROVE [r EXCEPT !.status = "success", !.enrolled = TRUE, !.image = b] \in FaceScans
    BY Zenon DEF FaceScans
  <1> QED  BY <1>1, <1>2, <1>3, Zenon

LEMMA RegistryChanges ==
  ASSUME NEW r \in Registries
  PROVE  /\ LET q == [r EXCEPT !.face = TRUE] IN q \in Registries /\ q.account = r.account /\ q.face
         /\ \A b \in BOOLEAN : LET q == [r EXCEPT !.account = TRUE, !.face = b]
                               IN q \in Registries /\ q.account /\ q.face = b
  <1>1. LET q == [r EXCEPT !.face = TRUE] IN q \in Registries /\ q.account = r.account /\ q.face
    BY Zenon DEF Registries
  <1>2. ASSUME NEW b \in BOOLEAN
        PROVE LET q == [r EXCEPT !.account = TRUE, !.face = b]
              IN q \in Registries /\ q.account /\ q.face = b
    BY Zenon DEF Registries
  <1> QED  BY <1>1, <1>2, Zenon

LEMMA SubmissionGoesOn ==
  ASSUME NEW r \in Submissions
  PROVE  LET q == [r EXCEPT !.pc = "print"]
         IN q \in Submissions /\ q.face = r.face /\ q.print = r.print /\ q.pc = "print"
  BY Zenon DEF Submissions

LEMMA InitSignupInv == SignupInit => SignupInv
  <1> SUFFICES ASSUME SignupInit PROVE SignupInv
    OBVIOUS
  <1>1. faceScan \in FaceScans /\ scanner \in Scanners /\ submission \in Submissions
    BY SMT DEF SignupInit, FaceScans, Scanners, Submissions, IdleSubmission
  <1>2. (mode = "enroll") \in BOOLEAN
    BY Zenon
  <1>3. registry \in Registries
    BY <1>2, Zenon DEF SignupInit, Registries
  <1>4. captures \in [Captured -> {"none", "frame", "null"}]
    BY Zenon DEF SignupInit
  <1>5. 0 \in 0..MaxPresses /\ 0 \in 0..MaxSubmits
    BY SignupAssumption, SMT
  <1>6. step \in {"credentials", "biometrics"} /\ scanner.enrolled = FALSE
    BY Zenon DEF SignupInit
  <1>7. SignupTypeOK
    BY <1>1, <1>3, <1>4, <1>5, <1>6, Zenon DEF SignupInit, SignupTypeOK
  <1>8. OneScan /\ PrintWasHeld
    BY <1>6, Zenon DEF SignupInit, OneScan, PrintWasHeld
  <1>9. mode = "enroll" => registry.account
    BY Zenon DEF SignupInit
  <1>10. submission.pc = "idle"
    BY Zenon DEF SignupInit, IdleSubmission
  <1>11. SubmissionFits
    BY <1>9, <1>10, SMT DEF SubmissionFits
  <1>12. SuccessMeansStored
    BY <1>6, SMT DEF SuccessMeansStored
  <1> QED  BY <1>7, <1>8, <1>11, <1>12 DEF SignupInv

LEMMA SignupQuietInv == SignupInv /\ UNCHANGED signupVars => SignupInv'
  <1> SUFFICES ASSUME SignupInv, UNCHANGED signupVars PROVE SignupInv'
    OBVIOUS
  <1> USE DEF SignupInv, signupVars
  <1>1. SignupTypeOK'
    BY SMT DEF SignupTypeOK, scanVars, printVars, submitVars
  <1>2. OneScan' /\ PrintWasHeld'
    BY SMT DEF OneScan, PrintWasHeld, printVars
  <1>3. SubmissionFits' /\ SuccessMeansStored'
    BY SMT DEF SubmissionFits, SuccessMeansStored, scanVars, printVars, submitVars
  <1> QED  BY <1>1, <1>2, <1>3

LEMMA PanelInv ==
  ASSUME SignupInv,
         NextStep \/ Back \/ GoToLogin \/ \E t \in {"face", "fingerprint"} : SelectTab(t)
  PROVE  SignupInv'
  <1> USE DEF SignupInv
  <1>1. /\ UNCHANGED <<mode, scanVars, scanner, presses, holds, resets, lifted, firm, submitVars, late>>
        /\ step' \in {"credentials", "biometrics", "login"}
        /\ tab' \in {"face", "fingerprint"}
        /\ strayed' \in BOOLEAN /\ (strayed => strayed')
    <2>1. tab \in {"face", "fingerprint"} /\ strayed \in BOOLEAN
      BY DEF SignupTypeOK
    <2>2. CASE NextStep \/ GoToLogin
      BY <2>1, <2>2, SMT DEF NextStep, GoToLogin, printVars
    <2>3. CASE Back
      <3>1. strayed' \in BOOLEAN /\ (strayed => strayed')
        BY <2>1, <2>3, Zenon DEF Back, Hides
      <3> QED  BY <2>1, <2>3, <3>1, SMT DEF Back
    <2>4. CASE \E t \in {"face", "fingerprint"} : SelectTab(t)
      <3>1. strayed' \in BOOLEAN /\ (strayed => strayed')
        BY <2>1, <2>4, Zenon DEF SelectTab, Hides
      <3> QED  BY <2>1, <2>4, <3>1, SMT DEF SelectTab
    <2> QED  BY <2>2, <2>3, <2>4
  <1>2. SignupTypeOK'
    BY <1>1, SMT DEF SignupTypeOK, scanVars, submitVars
  <1>3. OneScan' /\ PrintWasHeld'
    BY <1>1, SMT DEF OneScan, PrintWasHeld
  <1>4. SubmissionFits' /\ SuccessMeansStored'
    BY <1>1, SMT DEF SubmissionFits, SuccessMeansStored, scanVars, submitVars
  <1> QED  BY <1>2, <1>3, <1>4

\* A capture that is begun leaves what is enrolled as it is.
LEMMA WatchInv ==
  ASSUME SignupInv,
         FaceOutOfCenter \/ FaceAligned \/ \E shot \in {"frame", "null"} : PressCapture(shot)
  PROVE  SignupInv'
  <1> USE DEF SignupInv
  <1>1. /\ UNCHANGED <<mode, step, tab, printVars, submitVars, late>>
        /\ \/ faceScan' = [faceScan EXCEPT !.seen = TRUE]
           \/ faceScan' = [faceScan EXCEPT !.status = "verifying", !.seen = TRUE]
        /\ \/ UNCHANGED <<captures, verifying>>
           \/ \E c \in Captured, shot \in {"frame", "null"} :
                captures' = [captures EXCEPT ![c] = shot] /\ verifying' = verifying \cup {c}
    BY Zenon DEF FaceOutOfCenter, FaceAligned, PressCapture, TakeFrame
  <1>2. /\ faceScan' \in FaceScans
        /\ faceScan'.enrolled = faceScan.enrolled /\ faceScan'.image = faceScan.image
    <2>1. faceScan \in FaceScans
      BY DEF SignupTypeOK
    <2> QED  BY <1>1, <2>1, FaceScanChanges, Zenon
  <1>3. captures' \in [Captured -> {"none", "frame", "null"}] /\ verifying' \subseteq Captured
    <2>1. captures \in [Captured -> {"none", "frame", "null"}] /\ verifying \subseteq Captured
      BY DEF SignupTypeOK
    <2> QED  BY <1>1, <2>1, SMT
  <1>4. SignupTypeOK'
    BY <1>1, <1>2, <1>3, SMT DEF SignupTypeOK, printVars, submitVars
  <1>5. OneScan' /\ PrintWasHeld'
    BY <1>1, SMT DEF OneScan, PrintWasHeld, printVars
  <1>6. SubmissionFits' /\ SuccessMeansStored'
    BY <1>1, <1>2, SMT DEF SubmissionFits, SuccessMeansStored, printVars, submitVars
  <1> QED  BY <1>4, <1>5, <1>6

LEMMA VerifiedInv ==
  ASSUME SignupInv, NEW c \in Captured, FaceVerified(c)
  PROVE  SignupInv'
  <1> USE DEF SignupInv
  <1>1. /\ UNCHANGED <<mode, step, tab, captures, printVars, submitVars>>
        /\ verifying' = verifying \ {c}
        /\ \/ step = "login" /\ UNCHANGED <<faceScan, late>>
           \/ /\ faceScan' = [faceScan EXCEPT !.status = "success", !.enrolled = TRUE,
                                              !.image = captures[c] = "frame"]
              /\ late' = (late \/ Submitted)
    BY Zenon DEF FaceVerified
  <1>2. faceScan' \in FaceScans
    <2>1. faceScan \in FaceScans /\ (captures[c] = "frame") \in BOOLEAN
      BY Zenon DEF SignupTypeOK
    <2> QED  BY <1>1, <2>1, FaceScanChanges, Zenon
  <1>3. /\ late' \in BOOLEAN
        /\ \/ step = "login" /\ UNCHANGED <<faceScan, late>>
           \/ late' = (late \/ submission.pc # "idle" \/ step = "success")
    BY <1>1, Zenon DEF SignupTypeOK, Submitted
  <1>4. SignupTypeOK'
    BY <1>1, <1>2, <1>3, Zenon DEF SignupTypeOK, printVars, submitVars
  <1>5. OneScan' /\ PrintWasHeld'
    <2>1. UNCHANGED <<scanner, presses, holds, lifted, firm, strayed>>
      BY <1>1, Zenon DEF printVars
    <2> QED  BY <2>1, SMT DEF OneScan, PrintWasHeld
  <1>6. SubmissionFits' /\ SuccessMeansStored'
    <2>1. UNCHANGED <<mode, step, scanner, submission, registry>>
      BY <1>1, Zenon DEF printVars, submitVars
    <2> QED  BY <1>3, <2>1, SMT DEF SubmissionFits, SuccessMeansStored
  <1> QED  BY <1>4, <1>5, <1>6

LEMMA PressInv == SignupInv /\ PressScanner => SignupInv'
  <1> SUFFICES ASSUME SignupInv, PressScanner PROVE SignupInv'
    OBVIOUS
  <1> USE DEF SignupInv
  <1> DEFINE p == presses + 1
  <1>1. /\ UNCHANGED <<mode, step, tab, scanVars, resets, lifted, firm, submitVars, late>>
        /\ presses' = p /\ p \in Presses /\ p \notin 1..presses
        /\ holds' = holds \cup {p}
        /\ strayed' = (strayed \/ holds # {})
        /\ scanner' = [scanner EXCEPT !.state = "scanning", !.ref = p]
    BY SignupAssumption, SMT DEF PressScanner, SignupTypeOK, Presses
  <1>2. scanner' \in Scanners /\ scanner'.enrolled = scanner.enrolled /\ scanner'.ref = p
    <2>1. scanner \in Scanners
      BY DEF SignupTypeOK
    <2> HIDE DEF p
    <2> QED  BY <1>1, <2>1, ScannerChanges, Zenon
  <1>3. presses' \in 0..MaxPresses /\ 1..presses \subseteq 1..presses' /\ p \in 1..presses'
    BY SignupAssumption, <1>1, SMT DEF SignupTypeOK, Presses
  <1> HIDE DEF p
  <1>4. SignupTypeOK'
    BY <1>1, <1>2, <1>3, SMT DEF SignupTypeOK, scanVars, submitVars
  <1>5. OneScan'
    <2>1. holds \subseteq 1..presses /\ lifted \subseteq 1..presses /\ UNCHANGED lifted
      BY <1>1, Zenon DEF OneScan
    <2>2. ASSUME ~strayed' PROVE holds' = {p} /\ scanner'.ref = p /\ p \notin lifted
      <3>1. holds = {}
        BY <1>1, <2>2, Zenon
      <3> QED  BY <1>1, <1>2, <2>1, <3>1, Zenon
    <2>3. holds' \subseteq 1..presses' /\ lifted' \subseteq 1..presses'
      BY <1>1, <1>3, <2>1, Zenon
    <2>4. ~strayed' => holds' \subseteq {scanner'.ref} /\ holds' \cap lifted' = {}
      BY <2>1, <2>2, SMT
    <2> QED  BY <2>3, <2>4 DEF OneScan
  <1>6. PrintWasHeld'
    BY <1>1, <1>2, Zenon DEF PrintWasHeld
  <1>7. SubmissionFits' /\ SuccessMeansStored'
    <2>1. UNCHANGED <<mode, step, faceScan, submission, registry, late>>
      BY <1>1, Zenon DEF scanVars, submitVars
    <2> QED  BY <1>2, <2>1, SMT DEF SubmissionFits, SuccessMeansStored
  <1> QED  BY <1>4, <1>5, <1>6, <1>7

\* The scanner is released or reset.
LEMMA ReleaseInv == SignupInv /\ (ReleaseScanner \/ ResetScanner) => SignupInv'
  <1> SUFFICES ASSUME SignupInv, ReleaseScanner \/ ResetScanner PROVE SignupInv'
    OBVIOUS
  <1> USE DEF SignupInv
  <1>1. /\ UNCHANGED <<mode, step, tab, scanVars, presses, firm, strayed, submitVars, late>>
        /\ \/ holds' = holds \ {scanner.ref} /\ lifted' = lifted \cup holds
           \/ UNCHANGED <<holds, lifted>>
        /\ \/ scanner' = [scanner EXCEPT !.state = "failed"]
           \/ scanner' = [scanner EXCEPT !.state = "idle"]
        /\ resets' \in 0..MaxPresses
    <2>1. CASE ReleaseScanner
      <3>1. resets' = resets + 1 /\ resets < MaxPresses
        BY <2>1, Zenon DEF ReleaseScanner
      <3>2. resets' \in 0..MaxPresses
        BY SignupAssumption, <3>1, SMT DEF SignupTypeOK
      <3> QED  BY <2>1, <3>2, Zenon DEF ReleaseScanner, Interrupted
    <2>2. CASE ResetScanner
      <3>1. resets' = resets - 1 /\ resets > 0
        BY <2>2, Zenon DEF ResetScanner
      <3>2. resets' \in 0..MaxPresses
        BY SignupAssumption, <3>1, SMT DEF SignupTypeOK
      <3> QED  BY <2>2, <3>2, Zenon DEF ResetScanner
    <2> QED  BY <2>1, <2>2
  <1>2. scanner' \in Scanners /\ scanner'.enrolled = scanner.enrolled /\ scanner'.ref = scanner.ref
    <2>1. scanner \in Scanners
      BY DEF SignupTypeOK
    <2> QED  BY <1>1, <2>1, ScannerChanges, Zenon
  <1>3. holds \subseteq 1..presses /\ UNCHANGED presses
    BY <1>1 DEF OneScan
  <1>4. SignupTypeOK'
    BY <1>1, <1>2, SMT DEF SignupTypeOK, scanVars, submitVars
  <1>5. OneScan' /\ PrintWasHeld'
    BY <1>1, <1>2, <1>3, SMT DEF OneScan, PrintWasHeld
  <1>6. SubmissionFits' /\ SuccessMeansStored'
    <2>1. UNCHANGED <<mode, step, faceScan, submission, registry, late>>
      BY <1>1, Zenon DEF scanVars, submitVars
    <2> QED  BY <1>2, <2>1, SMT DEF SubmissionFits, SuccessMeansStored
  <1> QED  BY <1>4, <1>5, <1>6

LEMMA PrintInv ==
  ASSUME SignupInv, NEW i \in Presses, PrintTaken(i)
  PROVE  SignupInv'
  <1> USE DEF SignupInv
  <1>1. /\ i \in holds
        /\ UNCHANGED <<mode, step, tab, scanVars, presses, resets, lifted, strayed, submitVars>>
        /\ holds' = holds \ {scanner.ref}
        /\ scanner' = [scanner EXCEPT !.state = "success", !.enrolled = TRUE]
        /\ firm' = (firm \/ i \notin lifted)
        /\ late' = (late \/ submission.pc # "idle" \/ step = "success")
    BY Zenon DEF PrintTaken, Submitted
  <1>2. scanner' \in Scanners /\ scanner'.enrolled /\ scanner'.ref = scanner.ref
    <2>1. scanner \in Scanners
      BY DEF SignupTypeOK
    <2> QED  BY <1>1, <2>1, ScannerChanges, Zenon
  <1>3. firm' \in BOOLEAN /\ late' \in BOOLEAN
    BY <1>1, Zenon DEF SignupTypeOK
  <1>4. SignupTypeOK'
    BY <1>1, <1>2, <1>3, SMT DEF SignupTypeOK, scanVars, submitVars
  <1>5. OneScan'
    BY <1>1, <1>2, SMT DEF OneScan
  <1>6. PrintWasHeld'
    <2>1. ~strayed => i \notin lifted
      BY <1>1, SMT DEF OneScan
    <2> QED  BY <1>1, <2>1, Zenon DEF PrintWasHeld
  <1>7. SubmissionFits' /\ SuccessMeansStored'
    <2>1. UNCHANGED <<mode, step, faceScan, submission, registry>>
      BY <1>1, Zenon DEF scanVars, submitVars
    <2>2. late' \/ (submission.pc = "idle" /\ step # "success")
      BY <1>1, Zenon
    <2> QED  BY <2>1, <2>2, SMT DEF SubmissionFits, SuccessMeansStored
  <1> QED  BY <1>4, <1>5, <1>6, <1>7

-----------------------------------------------------------------------------
(* Submission                                                              *)

\* What a step of the submission leaves as it is.
LEMMA SubmitEffect ==
  ASSUME SignupInv,
         UNCHANGED <<mode, tab, scanVars, printVars, late>>,
         submission' \in Submissions, submits' \in 0..MaxSubmits, registry' \in Registries,
         step' \in {"credentials", "biometrics", "success", "login"},
         SubmissionFits', SuccessMeansStored'
  PROVE  SignupInv'
  <1> USE DEF SignupInv
  <1>1. SignupTypeOK'
    BY SMT DEF SignupTypeOK, scanVars, printVars
  <1>2. OneScan' /\ PrintWasHeld'
    BY SMT DEF OneScan, PrintWasHeld, printVars
  <1> QED  BY <1>1, <1>2

LEMMA CompleteInv == SignupInv /\ Complete => SignupInv'
  <1> SUFFICES ASSUME SignupInv, Complete PROVE SignupInv'
    OBVIOUS
  <1> USE DEF SignupInv
  <1> DEFINE face == faceScan.enrolled /\ faceScan.image
             first == IF mode = "register" THEN "register"
                      ELSE IF face THEN "face" ELSE IF scanner.enrolled THEN "print" ELSE "done"
             begun == [pc |-> first, face |-> face, print |-> scanner.enrolled]
  <1>1. /\ UNCHANGED <<mode, tab, scanVars, printVars, registry, late>>
        /\ step = "biometrics" /\ submission.pc = "idle"
        /\ submits' = submits + 1 /\ submits < MaxSubmits
        /\ \/ first = "done" /\ step' = "success" /\ UNCHANGED submission
           \/ first # "done" /\ submission' = begun /\ UNCHANGED step
    BY Zenon DEF Complete
  <1>2. UNCHANGED <<mode, faceScan, scanner, registry, late>>
    BY <1>1, Zenon DEF scanVars, printVars
  <1>3. submits' \in 0..MaxSubmits
    BY SignupAssumption, <1>1, SMT DEF SignupTypeOK
  <1>4. face \in BOOLEAN /\ scanner.enrolled \in BOOLEAN
    BY SMT DEF SignupTypeOK, FaceScans, Scanners
  <1>5. first \in {"register", "face", "print", "done"}
    BY Zenon
  <1>6. first # "done" => /\ begun \in Submissions /\ begun.pc = first /\ begun.face = face
                          /\ begun.print = scanner.enrolled
    <2> HIDE DEF first, face
    <2> QED  BY <1>4, <1>5, SMT DEF Submissions
  <1>7. /\ first = "register" => mode = "register"
        /\ first = "face" => mode # "register" /\ face
        /\ first = "done" => mode # "register" /\ ~face /\ ~scanner.enrolled
        /\ mode \in {"register", "enroll"}
    BY <1>4, Zenon DEF SignupTypeOK
  <1>8. faceScan.enrolled /\ faceScan.image <=> face
    BY Zenon
  <1> HIDE DEF first, face, begun
  <1>9. mode = "enroll" => registry.account
    BY DEF SubmissionFits
  <1>10. /\ submission' \in Submissions /\ registry' \in Registries
         /\ step' \in {"credentials", "biometrics", "success", "login"}
    BY <1>1, <1>2, <1>6, Zenon DEF SignupTypeOK
  <1>11. SubmissionFits'
    <2>1. CASE first = "done"
      BY <1>1, <1>2, <1>9, <2>1, SMT DEF SubmissionFits
    <2>2. CASE first # "done"
      BY <1>1, <1>2, <1>6, <1>7, <1>8, <1>9, <2>2, SMT DEF SubmissionFits
    <2> QED  BY <2>1, <2>2
  <1>12. SuccessMeansStored'
    <2>1. CASE first = "done"
      BY <1>1, <1>2, <1>7, <1>8, <1>9, <2>1, SMT DEF SuccessMeansStored
    <2>2. CASE first # "done"
      BY <1>1, <2>2, SMT DEF SuccessMeansStored
    <2> QED  BY <2>1, <2>2
  <1> QED  BY <1>1, <1>3, <1>10, <1>11, <1>12, SubmitEffect

\* An answer that leads to the next request or to a message, whatever it stored.
LEMMA GoesOnOrFails ==
  ASSUME SignupInv, submission.pc # "idle",
         UNCHANGED <<mode, step, tab, scanVars, printVars, submits, late>>,
         registry' \in Registries, registry.account => registry'.account,
         \/ submission' = IdleSubmission
         \/ submission' = [submission EXCEPT !.pc = "print"]
  PROVE  SignupInv'
  <1> USE DEF SignupInv
  <1>1. /\ submission' \in Submissions
        /\ \/ submission'.pc = "idle"
           \/ /\ submission'.pc = "print"
              /\ submission'.face = submission.face /\ submission'.print = submission.print
    <2>1. submission \in Submissions
      BY DEF SignupTypeOK
    <2>2. IdleSubmission \in Submissions /\ IdleSubmission.pc = "idle"
      BY Zenon DEF IdleSubmission, Submissions
    <2> QED  BY <2>1, <2>2, SubmissionGoesOn, Zenon
  <1>2. UNCHANGED <<faceScan, scanner>>
    BY Zenon DEF scanVars, printVars
  <1>3. step # "success"
    BY DEF SubmissionFits
  <1>4. SubmissionFits'
    BY <1>1, <1>2, <1>3, SMT DEF SubmissionFits
  <1>5. SuccessMeansStored'
    BY <1>3, SMT DEF SuccessMeansStored
  <1>6. submits' \in 0..MaxSubmits /\ step' \in {"credentials", "biometrics", "success", "login"}
    BY DEF SignupTypeOK
  <1> QED  BY <1>1, <1>4, <1>5, <1>6, SubmitEffect

\* An answer that is the last one: what it asked for is stored.
LEMMA DoneInv ==
  ASSUME SignupInv,
         UNCHANGED <<mode, tab, scanVars, printVars, submits, late>>,
         step' = "success", submission' = IdleSubmission,
         registry' \in Registries, registry'.account,
         submission.pc # "idle", registry'.face = submission.face,
         mode = "register" \/ ~submission.print
  PROVE  SignupInv'
  <1> USE DEF SignupInv
  <1>1. IdleSubmission \in Submissions /\ IdleSubmission.pc = "idle"
    BY Zenon DEF IdleSubmission, Submissions
  <1>2. UNCHANGED <<faceScan, scanner>>
    BY Zenon DEF scanVars, printVars
  <1>3. SubmissionFits'
    BY <1>1, SMT DEF SubmissionFits
  <1>4. SuccessMeansStored'
    BY <1>2, SMT DEF SubmissionFits, SuccessMeansStored
  <1>5. submits' \in 0..MaxSubmits
    BY DEF SignupTypeOK
  <1> QED  BY <1>1, <1>3, <1>4, <1>5, SubmitEffect

LEMMA RegisterInv ==
  ASSUME SignupInv, NEW ok \in BOOLEAN, RegisterAccount(ok)
  PROVE  SignupInv'
  <1> USE DEF SignupInv
  <1>1. /\ submission.pc = "register"
        /\ UNCHANGED <<mode, tab, scanVars, printVars, submits, late>>
    BY Zenon DEF RegisterAccount
  <1>2. registry \in Registries /\ submission.face \in BOOLEAN /\ mode = "register"
    BY <1>1, SMT DEF SignupTypeOK, Submissions, SubmissionFits
  <1>3. CASE ok
    <2>1. /\ registry' = [registry EXCEPT !.account = TRUE, !.face = submission.face]
          /\ step' = "success" /\ submission' = IdleSubmission
      BY <1>3, Zenon DEF RegisterAccount, Leads
    <2>2. registry' \in Registries /\ registry'.account /\ registry'.face = submission.face
      BY <1>2, <2>1, RegistryChanges, Zenon
    <2>3. submission.pc # "idle"
      BY <1>1
    <2> QED  BY <1>1, <1>2, <2>1, <2>2, <2>3, DoneInv
  <1>4. CASE ~ok
    <2>1. registry' = registry /\ step' = step /\ submission' = IdleSubmission
      BY <1>4, Zenon DEF RegisterAccount, Leads
    <2>2. submission.pc # "idle"
      BY <1>1
    <2> QED  BY <1>1, <1>2, <2>1, <2>2, GoesOnOrFails
  <1> QED  BY <1>3, <1>4

LEMMA EnrolFaceInv ==
  ASSUME SignupInv, NEW ok \in BOOLEAN, EnrolFace(ok)
  PROVE  SignupInv'
  <1> USE DEF SignupInv
  <1>1. /\ submission.pc = "face"
        /\ UNCHANGED <<mode, tab, scanVars, printVars, submits, late>>
    BY Zenon DEF EnrolFace
  <1>2. registry \in Registries /\ submission.print \in BOOLEAN
    BY SMT DEF SignupTypeOK, Submissions
  <1>3. submission.face = TRUE /\ registry.account
    BY <1>1, SMT DEF SignupTypeOK, Submissions, SubmissionFits
  <1>4. [registry EXCEPT !.face = TRUE] \in Registries
        /\ [registry EXCEPT !.face = TRUE].account = registry.account
        /\ [registry EXCEPT !.face = TRUE].face = TRUE
    BY <1>2, Zenon DEF Registries
  <1>5. registry' \in Registries /\ registry'.account
    BY <1>2, <1>3, <1>4, Zenon DEF EnrolFace
  <1>6. CASE ok /\ ~submission.print
    <2>1. registry' = [registry EXCEPT !.face = TRUE]
      BY <1>6, Zenon DEF EnrolFace
    <2>2. step' = "success" /\ submission' = IdleSubmission
      BY <1>6, Zenon DEF EnrolFace, Leads, AfterFace
    <2>3. registry'.face = submission.face
      BY <1>3, <1>4, <2>1, Zenon
    <2>4. submission.pc # "idle"
      BY <1>1
    <2> QED  BY <1>1, <1>5, <1>6, <2>2, <2>3, <2>4, DoneInv
  <1>7. CASE ~ok \/ submission.print
    <2>1. /\ step' = step
          /\ \/ submission' = IdleSubmission
             \/ submission' = [submission EXCEPT !.pc = "print"]
      BY <1>7, Zenon DEF EnrolFace, Leads, AfterFace
    <2>2. submission.pc # "idle"
      BY <1>1
    <2> QED  BY <1>1, <1>5, <2>1, <2>2, GoesOnOrFails
  <1> QED  BY <1>6, <1>7

LEMMA FailsInv ==
  ASSUME SignupInv, EnrolPrint \/ \E done \in BOOLEAN : AnswerLost(done)
  PROVE  SignupInv'
  <1> USE DEF SignupInv
  <1>1. /\ submission.pc # "idle" /\ step' = step /\ submission' = IdleSubmission
        /\ UNCHANGED <<mode, tab, scanVars, printVars, submits, late>>
        /\ \/ registry' = registry
           \/ registry' = [registry EXCEPT !.face = TRUE]
           \/ registry' = [registry EXCEPT !.account = TRUE, !.face = submission.face]
    <2>1. CASE EnrolPrint
      BY <2>1, Zenon DEF EnrolPrint, Leads
    <2>2. CASE \E done \in BOOLEAN : AnswerLost(done)
      BY <2>2, Zenon DEF AnswerLost, Leads
    <2> QED  BY <2>1, <2>2
  <1>2. registry \in Registries /\ submission.face \in BOOLEAN
    BY SMT DEF SignupTypeOK, Submissions
  <1>3. registry' \in Registries /\ (registry.account => registry'.account)
    <2>1. CASE registry' = registry
      BY <1>2, <2>1
    <2>2. CASE registry' = [registry EXCEPT !.face = TRUE]
      <3>1. registry' \in Registries /\ registry'.account = registry.account
        BY <1>2, <2>2, RegistryChanges, Zenon
      <3> QED  BY <3>1
    <2>3. CASE registry' = [registry EXCEPT !.account = TRUE, !.face = submission.face]
      BY <1>2, <2>3, RegistryChanges, Zenon
    <2> QED  BY <1>1, <2>1, <2>2, <2>3
  <1> QED  BY <1>1, <1>3, GoesOnOrFails

-----------------------------------------------------------------------------
LEMMA SignupInvariant == SignupSpec => []SignupInv
  <1>1. SignupInv /\ [SignupNext]_signupVars => SignupInv'
    BY SignupQuietInv, PanelInv, WatchInv, VerifiedInv, PressInv, ReleaseInv, PrintInv,
       CompleteInv, RegisterInv, EnrolFaceInv, FailsInv, Zenon DEF SignupNext
  <1> QED  BY <1>1, InitSignupInv, PTL DEF SignupSpec

\* Type correctness of the sign-up wizard (SignupPage.tsx).
THEOREM SignupTypeCorrect == SignupSpec => []SignupTypeOK
  <1>1. SignupInv => SignupTypeOK
    BY DEF SignupInv
  <1> QED  BY <1>1, SignupInvariant, PTL

\* Whatever presses, releases and timers of the scanner come together, a print
\* the wizard holds was complete under the finger, unless a second press or a
\* hidden panel let an interval go on (SignupPage.tsx, startFingerprintScan).
THEOREM PrintTakesFinger == SignupSpec => []PrintWasHeld
  <1>1. SignupInv => PrintWasHeld
    BY DEF SignupInv
  <1> QED  BY <1>1, SignupInvariant, PTL

\* Success of the wizard means a stored account and face, whatever captures,
\* refusals and lost answers came before it (SignupPage.tsx,
\* handleCompleteOnboarding).
THEOREM SuccessIsStored == SignupSpec => []SuccessMeansStored
  <1>1. SignupInv => SuccessMeansStored
    BY DEF SignupInv
  <1> QED  BY <1>1, SignupInvariant, PTL

-----------------------------------------------------------------------------
(* The scanner of the settings page                                        *)

ScannerTypes == viewer \in Viewers /\ scan \in [Scans -> Closures] /\ scans \in 0..MaxScans

\* A scan that has not sent is alive; once one aligned face was seen it is not.
OneEnrolment ==
    \A s \in Scans :
        /\ scan[s].sent <= 1
        /\ scan[s].alive => scan[s].sent = 0
        /\ scan[s].stage \in {"unused", "opening"} =>
             scan[s].sent = 0 /\ ~scan[s].alive /\ ~scan[s].lit

\* The panel belongs to the last scan, which has not been cancelled.
LastIsShown ==
    /\ viewer.open => scans > 0 /\ ~scan[scans].stopped
    /\ \A s \in Scans : /\ s > scans => ~scan[s].stopped /\ scan[s].stage = "unused"
                        /\ scan[s].late => s < scans

\* A camera that the panel still waits for, or the one it shows.
Pending(s) == scan[s].stage = "opening" /\ ~scan[s].stopped
CameraIsKnown ==
    /\ \A s \in Scans : Pending(s) => viewer.open /\ s = scans /\ \A t \in Scans : ~scan[t].lit
    /\ \A s \in Scans : scan[s].lit => viewer.open /\ viewer.stream = s

ScannerInv == ScannerTypes /\ OneEnrolment /\ LastIsShown /\ (slipped \/ CameraIsKnown)

\* The fields that the changes of a closure leave alone.
LEMMA ClosureChanges ==
  ASSUME NEW r \in Closures
  PROVE  /\ LET q == [r EXCEPT !.stage = "opening"]
            IN q \in Closures /\ q.stage = "opening" /\ q.alive = r.alive /\ q.lit = r.lit
               /\ q.stopped = r.stopped /\ q.sent = r.sent /\ q.late = r.late
         /\ LET q == [r EXCEPT !.stage = "refused"]
            IN q \in Closures /\ q.stage = "refused" /\ q.alive = r.alive /\ q.lit = r.lit
               /\ q.stopped = r.stopped /\ q.sent = r.sent /\ q.late = r.late
         /\ LET q == [r EXCEPT !.stage = "open", !.lit = TRUE, !.ticking = TRUE, !.alive = TRUE]
            IN q \in Closures /\ q.stage = "open" /\ q.alive /\ q.lit
               /\ q.stopped = r.stopped /\ q.sent = r.sent /\ q.late = r.late
         /\ \A n \in 0..2 :
              LET q == [r EXCEPT !.looking = n]
              IN q \in Closures /\ q.stage = r.stage /\ q.alive = r.alive /\ q.lit = r.lit
                 /\ q.stopped = r.stopped /\ q.sent = r.sent /\ q.late = r.late
  <1>1. LET q == [r EXCEPT !.stage = "opening"]
        IN q \in Closures /\ q.stage = "opening" /\ q.alive = r.alive /\ q.lit = r.lit
           /\ q.stopped = r.stopped /\ q.sent = r.sent /\ q.late = r.late
    BY Zenon DEF Closures
  <1>2. LET q == [r EXCEPT !.stage = "refused"]
        IN q \in Closures /\ q.stage = "refused" /\ q.alive = r.alive /\ q.lit = r.lit
           /\ q.stopped = r.stopped /\ q.sent = r.sent /\ q.late = r.late
    BY Zenon DEF Closures
  <1>3. LET q == [r EXCEPT !.stage = "open", !.lit = TRUE, !.ticking = TRUE, !.alive = TRUE]
        IN q \in Closures /\ q.stage = "open" /\ q.alive /\ q.lit
           /\ q.stopped = r.stopped /\ q.sent = r.sent /\ q.late = r.late
    BY Zenon DEF Closures
  <1>4. ASSUME NEW n \in 0..2
        PROVE LET q == [r EXCEPT !.looking = n]
              IN q \in Closures /\ q.stage = r.stage /\ q.alive = r.alive /\ q.lit = r.lit
                 /\ q.stopped = r.stopped /\ q.sent = r.sent /\ q.late = r.late
    BY Zenon DEF Closures
  <1> QED  BY <1>1, <1>2, <1>3, <1>4, Zenon

LEMMA OneClosure ==
  ASSUME NEW f \in [Scans -> Closures], NEW s \in Scans
  PROVE  /\ [f EXCEPT ![s].stage = "opening"] = [f EXCEPT ![s] = [f[s] EXCEPT !.stage = "opening"]]
         /\ [f EXCEPT ![s].stage = "refused"] = [f EXCEPT ![s] = [f[s] EXCEPT !.stage = "refused"]]
         /\ [f EXCEPT ![s].stage = "open", ![s].lit = TRUE, ![s].ticking = TRUE, ![s].alive = TRUE]
              = [f EXCEPT ![s] = [f[s] EXCEPT !.stage = "open", !.lit = TRUE, !.ticking = TRUE, !.alive = TRUE]]
         /\ [f EXCEPT ![s].looking = @ + 1] = [f EXCEPT ![s] = [f[s] EXCEPT !.looking = f[s].looking + 1]]
         /\ [f EXCEPT ![s].looking = @ - 1] = [f EXCEPT ![s] = [f[s] EXCEPT !.looking = f[s].looking - 1]]
  OBVIOUS

\* A step that gives one closure another value.
LEMMA OneOfThem ==
  ASSUME ScannerInv, NEW s \in Scans, NEW q \in Closures, scan' = [scan EXCEPT ![s] = q]
  PROVE  /\ scan' \in [Scans -> Closures] /\ scan'[s] = q
         /\ \A t \in Scans : t # s => scan'[t] = scan[t]
  BY SMT DEF ScannerInv, ScannerTypes

LEMMA ViewerChanges ==
  ASSUME NEW v \in Viewers
  PROVE  /\ LET w == [v EXCEPT !.open = TRUE] IN w \in Viewers /\ w.open /\ w.stream = v.stream
         /\ LET w == [v EXCEPT !.open = FALSE, !.video = 0] IN w \in Viewers /\ ~w.open
  <1>1. LET w == [v EXCEPT !.open = TRUE] IN w \in Viewers /\ w.open /\ w.stream = v.stream
    BY Zenon DEF Viewers
  <1>2. 0 \in {0} \cup Scans
    OBVIOUS
  <1>3. LET w == [v EXCEPT !.open = FALSE, !.video = 0] IN w \in Viewers /\ ~w.open
    BY <1>2, Zenon DEF Viewers
  <1> QED  BY <1>1, <1>3, Zenon

LEMMA InitScannerInv == SettingsInit => ScannerInv
  <1> SUFFICES ASSUME SettingsInit PROVE ScannerInv
    OBVIOUS
  <1>1. UnusedScan \in Closures /\ ClosedViewer \in Viewers
    BY SMT DEF UnusedScan, ClosedViewer, Closures, Viewers
  <1>2. ScannerTypes
    BY <1>1, SettingsAssumption, SMT DEF ScannerTypes, SettingsInit
  <1>3. /\ \A s \in Scans : scan[s] = UnusedScan
        /\ ~viewer.open
    BY Zenon DEF SettingsInit, ClosedViewer
  <1>4. /\ UnusedScan.sent = 0 /\ ~UnusedScan.alive /\ ~UnusedScan.lit /\ ~UnusedScan.stopped
        /\ UnusedScan.stage = "unused" /\ ~UnusedScan.late
    BY Zenon DEF UnusedScan
  <1>5. OneEnrolment
    BY <1>3, <1>4, SMT DEF OneEnrolment
  <1>6. LastIsShown
    BY <1>3, <1>4, SMT DEF LastIsShown
  <1>7. CameraIsKnown
    BY <1>3, <1>4, SMT DEF CameraIsKnown, Pending
  <1> QED  BY <1>2, <1>5, <1>6, <1>7 DEF ScannerInv

\* The handlers that leave the scanner alone.
LEMMA ScannerQuietInv == ScannerInv /\ UNCHANGED <<viewer, scan, scans, slipped>> => ScannerInv'
  <1> SUFFICES ASSUME ScannerInv, UNCHANGED <<viewer, scan, scans, slipped>> PROVE ScannerInv'
    OBVIOUS
  <1>1. ScannerTypes' /\ OneEnrolment' /\ LastIsShown'
    BY SMT DEF ScannerInv, ScannerTypes, OneEnrolment, LastIsShown
  <1>2. CameraIsKnown => CameraIsKnown'
    BY SMT DEF CameraIsKnown, Pending
  <1> QED  BY <1>1, <1>2 DEF ScannerInv

LEMMA LeaveInv == ScannerInv /\ LeavePage => ScannerInv'
  <1> SUFFICES ASSUME ScannerInv, LeavePage PROVE ScannerInv'
    OBVIOUS
  <1>1. /\ viewer' = [viewer EXCEPT !.open = FALSE, !.video = 0]
        /\ slipped' = (slipped \/ viewer.open)
        /\ UNCHANGED <<scan, scans>>
    BY Zenon DEF LeavePage
  <1>2. viewer' \in Viewers /\ ~viewer'.open
    BY <1>1, ViewerChanges, Zenon DEF ScannerInv, ScannerTypes
  <1>3. ScannerTypes' /\ OneEnrolment' /\ LastIsShown'
    BY <1>1, <1>2, SMT DEF ScannerInv, ScannerTypes, OneEnrolment, LastIsShown
  <1>4. CASE slipped'
    BY <1>3, <1>4 DEF ScannerInv
  <1>5. CASE ~slipped'
    <2>1. ~viewer.open /\ CameraIsKnown
      BY <1>1, <1>5, Zenon DEF ScannerInv
    <2>2. CameraIsKnown'
      BY <1>1, <1>2, <2>1, SMT DEF CameraIsKnown, Pending
    <2> QED  BY <1>3, <2>2 DEF ScannerInv
  <1> QED  BY <1>4, <1>5

LEMMA StartInv == ScannerInv /\ StartScanner => ScannerInv'
  <1> SUFFICES ASSUME ScannerInv, StartScanner PROVE ScannerInv'
    OBVIOUS
  <1> DEFINE n == scans + 1
  <1>1. /\ scans' = n /\ n \in Scans /\ ~viewer.open /\ slipped' = slipped
        /\ scan' = [scan EXCEPT ![n].stage = "opening"]
        /\ viewer' = [viewer EXCEPT !.open = TRUE]
    BY SettingsAssumption, SMT DEF ScannerInv, ScannerTypes, StartScanner, Scans
  <1>2. /\ viewer \in Viewers /\ scan \in [Scans -> Closures] /\ scan[n] \in Closures
        /\ scans \in Nat
    BY <1>1, SMT DEF ScannerInv, ScannerTypes
  <1>3. viewer' \in Viewers /\ viewer'.open
    BY <1>1, <1>2, ViewerChanges, Zenon
  <1>4. scan' = [scan EXCEPT ![n] = [scan[n] EXCEPT !.stage = "opening"]]
    BY <1>1, <1>2, OneClosure
  <1>5. /\ scan' \in [Scans -> Closures] /\ scan'[n].stage = "opening"
        /\ scan'[n].alive = scan[n].alive /\ scan'[n].lit = scan[n].lit
        /\ scan'[n].stopped = scan[n].stopped /\ scan'[n].sent = scan[n].sent
        /\ scan'[n].late = scan[n].late
        /\ \A t \in Scans : t # n => scan'[t] = scan[t]
    <2> HIDE DEF n
    <2> DEFINE q == [scan[n] EXCEPT !.stage = "opening"]
    <2>1. /\ q \in Closures /\ q.stage = "opening" /\ q.alive = scan[n].alive /\ q.lit = scan[n].lit
          /\ q.stopped = scan[n].stopped /\ q.sent = scan[n].sent /\ q.late = scan[n].late
      BY <1>2, ClosureChanges, Zenon
    <2>2. scan' = [scan EXCEPT ![n] = q]
      BY <1>4
    <2> HIDE DEF q
    <2>3. scan' \in [Scans -> Closures] /\ scan'[n] = q /\ \A t \in Scans : t # n => scan'[t] = scan[t]
      BY <1>1, <2>1, <2>2, OneOfThem
    <2> QED  BY <2>1, <2>3, Zenon
  <1>6. scan[n].stage = "unused" /\ ~scan[n].stopped
    BY <1>1, <1>2, SMT DEF ScannerInv, LastIsShown
  <1>7. ScannerTypes'
    BY <1>1, <1>2, <1>3, <1>5, SMT DEF ScannerTypes, Scans
  <1>8. OneEnrolment'
    BY <1>5, <1>6, SMT DEF ScannerInv, OneEnrolment
  <1>9. LastIsShown'
    <2>1. scans' > 0 /\ ~scan'[scans'].stopped
      BY <1>1, <1>2, <1>5, <1>6, SMT
    <2>2. ASSUME NEW s \in Scans
          PROVE  /\ s > n => ~scan'[s].stopped /\ scan'[s].stage = "unused"
                 /\ scan'[s].late => s < n
      <3>1. /\ s > scans => ~scan[s].stopped /\ scan[s].stage = "unused"
            /\ scan[s].late => s < scans
        BY DEF ScannerInv, LastIsShown
      <3>2. s \in Nat
        BY DEF Scans
      <3>3. CASE s = n
        BY <1>2, <1>5, <3>1, <3>3, SMT
      <3>4. CASE s # n
        <4>1. scan'[s] = scan[s]
          BY <1>5, <3>4, Zenon
        <4> QED  BY <1>2, <3>1, <3>2, <4>1, SMT
      <3> QED  BY <3>3, <3>4
    <2> QED  BY <1>1, <2>1, <2>2, Zenon DEF LastIsShown
  <1>10. CameraIsKnown => CameraIsKnown'
    <2> HIDE DEF n
    <2> SUFFICES ASSUME CameraIsKnown PROVE CameraIsKnown'
      OBVIOUS
    <2>1. \A s \in Scans : ~Pending(s) /\ ~scan[s].lit
      BY <1>1, Zenon DEF CameraIsKnown
    <2>2. \A s \in Scans : ~scan'[s].lit /\ (s # n => ~Pending(s)')
      BY <1>5, <2>1, SMT DEF Pending
    <2> QED  BY <1>1, <1>3, <2>2, Zenon DEF CameraIsKnown
  <1> QED  BY <1>1, <1>7, <1>8, <1>9, <1>10 DEF ScannerInv

\* A camera that was asked for opens: the refs take it.
LEMMA OpensInv ==
  ASSUME ScannerInv, NEW s \in Scans, CameraOpens(s)
  PROVE  ScannerInv'
  <1> DEFINE q == [scan[s] EXCEPT !.stage = "open", !.lit = TRUE, !.ticking = TRUE, !.alive = TRUE]
             video == IF VideoIsThere THEN s ELSE viewer.video
  <1>1. viewer \in Viewers /\ scan \in [Scans -> Closures] /\ scan[s] \in Closures
    BY SMT DEF ScannerInv, ScannerTypes
  <1>2. /\ scan[s].stage = "opening" /\ UNCHANGED scans
        /\ scan' = [scan EXCEPT ![s] = q]
        /\ slipped' = (slipped \/ scan[s].stopped \/ place = "left")
    <2>1. scan' = [scan EXCEPT ![s].stage = "open", ![s].lit = TRUE, ![s].ticking = TRUE,
                               ![s].alive = TRUE]
      BY Zenon DEF CameraOpens
    <2>2. scan' = [scan EXCEPT ![s] = q]
      BY <1>1, <2>1, OneClosure
    <2> QED  BY <2>2, Zenon DEF CameraOpens
  <1>3. viewer' \in Viewers /\ viewer'.open = viewer.open /\ viewer'.stream = s
    <2>1. video \in {0} \cup Scans
      BY <1>1, SMT DEF Viewers
    <2>2. viewer' = [viewer EXCEPT !.interval = s, !.stream = s, !.video = video]
      BY Zenon DEF CameraOpens
    <2> DEFINE w == [viewer EXCEPT !.interval = s, !.stream = s, !.video = video]
    <2> HIDE DEF video
    <2>3. w \in Viewers /\ w.open = viewer.open /\ w.stream = s
      BY <1>1, <2>1, Zenon DEF Viewers
    <2> HIDE DEF w
    <2>4. viewer' = w
      BY <2>2 DEF w
    <2> QED  BY <2>3, <2>4
  <1>4. /\ q \in Closures /\ q.stage = "open" /\ q.lit
        /\ q.stopped = scan[s].stopped /\ q.sent = scan[s].sent /\ q.late = scan[s].late
    BY <1>1, ClosureChanges, Zenon
  <1> HIDE DEF q
  <1>5. /\ scan' \in [Scans -> Closures] /\ scan'[s] = q
        /\ \A t \in Scans : t # s => scan'[t] = scan[t]
    BY <1>2, <1>4, OneOfThem
  <1>6. ScannerTypes'
    BY <1>2, <1>3, <1>5, SMT DEF ScannerInv, ScannerTypes
  <1>7. OneEnrolment'
    BY <1>2, <1>4, <1>5, SMT DEF ScannerInv, OneEnrolment
  <1>8. LastIsShown'
    <2>1. s <= scans /\ s \in Nat /\ scans \in Nat
      BY <1>2, SMT DEF ScannerInv, ScannerTypes, LastIsShown, Scans
    <2>2. \A t \in Scans : scan'[t].stopped = scan[t].stopped /\ scan'[t].late = scan[t].late
      BY <1>4, <1>5, Zenon
    <2>3. \A t \in Scans : t > scans => scan'[t] = scan[t]
      BY <1>5, <2>1, SMT DEF Scans
    <2>4. viewer'.open => scans' > 0 /\ ~scan'[scans'].stopped
      <3>1. scans > 0 => scans \in Scans
        BY SMT DEF ScannerInv, ScannerTypes, Scans
      <3> QED  BY <1>2, <1>3, <2>2, <3>1, SMT DEF ScannerInv, LastIsShown
    <2> QED  BY <1>2, <2>2, <2>3, <2>4, SMT DEF ScannerInv, LastIsShown
  <1>9. CASE slipped'
    BY <1>6, <1>7, <1>8, <1>9 DEF ScannerInv
  <1>10. CASE ~slipped'
    <2>1. CameraIsKnown /\ Pending(s)
      BY <1>2, <1>10, Zenon DEF ScannerInv, Pending
    <2>2. /\ viewer.open /\ s = scans
          /\ \A t \in Scans : ~scan[t].lit /\ (Pending(t) => t = s)
      BY <2>1, Zenon DEF CameraIsKnown
    <2>3. \A t \in Scans : ~Pending(t)' /\ (scan'[t].lit => t = s)
      BY <1>4, <1>5, <2>2, SMT DEF Pending
    <2>4. CameraIsKnown'
      BY <1>3, <2>2, <2>3, Zenon DEF CameraIsKnown
    <2> QED  BY <1>6, <1>7, <1>8, <2>4 DEF ScannerInv
  <1> QED  BY <1>9, <1>10

LEMMA CameraRefusedInv ==
  ASSUME ScannerInv, NEW s \in Scans, CameraRefused(s)
  PROVE  ScannerInv'
  <1> DEFINE q == [scan[s] EXCEPT !.stage = "refused"]
  <1>1. viewer \in Viewers /\ scan \in [Scans -> Closures] /\ scan[s] \in Closures
    BY SMT DEF ScannerInv, ScannerTypes
  <1>2. /\ scan[s].stage = "opening" /\ UNCHANGED scans
        /\ scan' = [scan EXCEPT ![s] = q]
        /\ slipped' = (slipped \/ scan[s].stopped)
    <2>1. scan' = [scan EXCEPT ![s].stage = "refused"]
      BY Zenon DEF CameraRefused
    <2>2. scan' = [scan EXCEPT ![s] = q]
      BY <1>1, <2>1, OneClosure
    <2> QED  BY <2>2, Zenon DEF CameraRefused
  <1>3. viewer' \in Viewers /\ ~viewer'.open
    <2>1. viewer' = [viewer EXCEPT !.open = FALSE, !.video = 0]
      BY Zenon DEF CameraRefused
    <2> QED  BY <1>1, <2>1, ViewerChanges, Zenon
  <1>4. /\ q \in Closures /\ q.stage = "refused" /\ q.lit = scan[s].lit /\ q.alive = scan[s].alive
        /\ q.stopped = scan[s].stopped /\ q.sent = scan[s].sent /\ q.late = scan[s].late
    BY <1>1, ClosureChanges, Zenon
  <1> HIDE DEF q
  <1>5. /\ scan' \in [Scans -> Closures] /\ scan'[s] = q
        /\ \A t \in Scans : t # s => scan'[t] = scan[t]
    BY <1>2, <1>4, OneOfThem
  <1>6. ScannerTypes'
    BY <1>2, <1>3, <1>5, SMT DEF ScannerInv, ScannerTypes
  <1>7. OneEnrolment'
    BY <1>2, <1>4, <1>5, SMT DEF ScannerInv, OneEnrolment
  <1>8. LastIsShown'
    <2>1. s <= scans /\ s \in Nat /\ scans \in Nat
      BY <1>2, SMT DEF ScannerInv, ScannerTypes, LastIsShown, Scans
    <2>2. \A t \in Scans : scan'[t].stopped = scan[t].stopped /\ scan'[t].late = scan[t].late
      BY <1>4, <1>5, Zenon
    <2>3. \A t \in Scans : t > scans => scan'[t] = scan[t]
      BY <1>5, <2>1, SMT DEF Scans
    <2> QED  BY <1>2, <1>3, <2>2, <2>3, SMT DEF ScannerInv, LastIsShown
  <1>9. CASE slipped'
    BY <1>6, <1>7, <1>8, <1>9 DEF ScannerInv
  <1>10. CASE ~slipped'
    <2>1. CameraIsKnown /\ Pending(s)
      BY <1>2, <1>10, Zenon DEF ScannerInv, Pending
    <2>2. \A t \in Scans : ~scan[t].lit /\ (Pending(t) => t = s)
      BY <2>1, Zenon DEF CameraIsKnown
    <2>3. \A t \in Scans : ~Pending(t)' /\ ~scan'[t].lit
      BY <1>4, <1>5, <2>2, SMT DEF Pending
    <2>4. CameraIsKnown'
      BY <2>3, Zenon DEF CameraIsKnown
    <2> QED  BY <1>6, <1>7, <1>8, <2>4 DEF ScannerInv
  <1> QED  BY <1>9, <1>10

\* stopEnrollFaceScanner, whoever calls it: nothing is pending and nothing lit.
LEMMA StopsInv ==
  ASSUME ScannerInv, Stops, UNCHANGED <<scans, slipped>>
  PROVE  ScannerInv'
  <1>1. viewer \in Viewers /\ scan \in [Scans -> Closures]
    BY SMT DEF ScannerInv, ScannerTypes
  <1>2. viewer' \in Viewers /\ ~viewer'.open
    BY <1>1, ViewerChanges, Zenon DEF Stops
  <1>3. ASSUME NEW s \in Scans
        PROVE  /\ Stopped(s) \in Closures
               /\ Stopped(s).stage = scan[s].stage /\ Stopped(s).alive = scan[s].alive
               /\ Stopped(s).lit = (scan[s].lit /\ s # viewer.stream)
               /\ Stopped(s).stopped = (scan[s].stopped \/ scan[s].stage \in {"opening", "open"})
               /\ Stopped(s).sent = scan[s].sent /\ Stopped(s).late = scan[s].late
    <2> DEFINE ticking == scan[s].ticking /\ s # viewer.interval
               lit == scan[s].lit /\ s # viewer.stream
               stopped == scan[s].stopped \/ scan[s].stage \in {"opening", "open"}
    <2>1. Stopped(s) = [scan[s] EXCEPT !.ticking = ticking, !.lit = lit, !.stopped = stopped]
      BY Zenon DEF Stopped
    <2>2. scan[s] \in Closures
      BY <1>1
    <2>3. ticking \in BOOLEAN /\ lit \in BOOLEAN /\ stopped \in BOOLEAN
      BY <2>2, SMT DEF Closures
    <2> HIDE DEF ticking, lit, stopped
    <2>4. /\ Stopped(s) \in Closures
          /\ Stopped(s).stage = scan[s].stage /\ Stopped(s).alive = scan[s].alive
          /\ Stopped(s).lit = lit /\ Stopped(s).stopped = stopped
          /\ Stopped(s).sent = scan[s].sent /\ Stopped(s).late = scan[s].late
      <3> DEFINE q == [scan[s] EXCEPT !.ticking = ticking, !.lit = lit, !.stopped = stopped]
      <3>1. /\ q \in Closures /\ q.stage = scan[s].stage /\ q.alive = scan[s].alive
            /\ q.lit = lit /\ q.stopped = stopped /\ q.sent = scan[s].sent /\ q.late = scan[s].late
        BY <2>2, <2>3, Zenon DEF Closures
      <3>2. Stopped(s) = q
        BY <2>1
      <3> HIDE DEF q
      <3> QED  BY <3>1, <3>2, Zenon
    <2> QED  BY <2>4, Zenon DEF lit, stopped
  <1>4. scan' \in [Scans -> Closures] /\ \A s \in Scans : scan'[s] = Stopped(s)
    BY <1>3, Zenon DEF Stops
  <1>5. \A s \in Scans :
          /\ scan'[s].stage = scan[s].stage /\ scan'[s].alive = scan[s].alive
          /\ scan'[s].sent = scan[s].sent /\ scan'[s].late = scan[s].late
          /\ scan'[s].lit = (scan[s].lit /\ s # viewer.stream)
          /\ scan'[s].stopped = (scan[s].stopped \/ scan[s].stage \in {"opening", "open"})
    BY <1>3, <1>4, SMT
  <1>6. \A s \in Scans :
          /\ scan'[s].lit => scan[s].lit /\ s # viewer.stream
          /\ scan[s].stage = "unused" /\ ~scan[s].stopped => ~scan'[s].stopped
          /\ scan[s].stage = "opening" => scan'[s].stopped
    BY <1>5, Zenon
  <1>7. ScannerTypes'
    BY <1>2, <1>4, SMT DEF ScannerInv, ScannerTypes
  <1>8. OneEnrolment'
    BY <1>5, <1>6, SMT DEF ScannerInv, OneEnrolment
  <1>9. LastIsShown'
    BY <1>2, <1>5, <1>6, SMT DEF ScannerInv, LastIsShown
  <1>10. CameraIsKnown => CameraIsKnown'
    BY <1>5, <1>6, SMT DEF CameraIsKnown, Pending
  <1> QED  BY <1>7, <1>8, <1>9, <1>10 DEF ScannerInv

LEMMA LookInv ==
  ASSUME ScannerInv, NEW s \in Scans, Look(s) \/ FaceNotSeen(s)
  PROVE  ScannerInv'
  <1>1. scan \in [Scans -> Closures] /\ scan[s] \in Closures
    BY SMT DEF ScannerInv, ScannerTypes
  <1>2. /\ UNCHANGED <<viewer, scans, slipped>>
        /\ \E n \in 0..2 : scan' = [scan EXCEPT ![s] = [scan[s] EXCEPT !.looking = n]]
    <2>1. scan[s].looking \in 0..2
      BY <1>1, SMT DEF Closures
    <2>2. CASE Look(s)
      <3>1. scan' = [scan EXCEPT ![s].looking = @ + 1] /\ scan[s].looking < 2
        BY <2>2, Zenon DEF Look
      <3>2. scan' = [scan EXCEPT ![s] = [scan[s] EXCEPT !.looking = scan[s].looking + 1]]
        BY <1>1, <3>1, OneClosure
      <3>3. scan[s].looking + 1 \in 0..2
        BY <2>1, <3>1, SMT
      <3> QED  BY <2>2, <3>2, <3>3, Zenon DEF Look
    <2>3. CASE FaceNotSeen(s)
      <3>1. scan' = [scan EXCEPT ![s].looking = @ - 1] /\ scan[s].looking > 0
        BY <2>3, Zenon DEF FaceNotSeen
      <3>2. scan' = [scan EXCEPT ![s] = [scan[s] EXCEPT !.looking = scan[s].looking - 1]]
        BY <1>1, <3>1, OneClosure
      <3>3. scan[s].looking - 1 \in 0..2
        BY <2>1, <3>1, SMT
      <3> QED  BY <2>3, <3>2, <3>3, Zenon DEF FaceNotSeen
    <2> QED  BY <2>2, <2>3
  <1>3. PICK n \in 0..2 : scan' = [scan EXCEPT ![s] = [scan[s] EXCEPT !.looking = n]]
    BY <1>2
  <1> DEFINE q == [scan[s] EXCEPT !.looking = n]
  <1>4. /\ q \in Closures /\ q.stage = scan[s].stage /\ q.lit = scan[s].lit /\ q.alive = scan[s].alive
        /\ q.stopped = scan[s].stopped /\ q.sent = scan[s].sent /\ q.late = scan[s].late
    BY <1>1, Zenon DEF Closures
  <1>5. scan' = [scan EXCEPT ![s] = q]
    BY <1>3
  <1> HIDE DEF q
  <1>6. /\ scan' \in [Scans -> Closures] /\ scan'[s] = q
        /\ \A t \in Scans : t # s => scan'[t] = scan[t]
    BY <1>4, <1>5, OneOfThem
  <1>7. \A t \in Scans :
          /\ scan'[t].stage = scan[t].stage /\ scan'[t].lit = scan[t].lit
          /\ scan'[t].alive = scan[t].alive /\ scan'[t].stopped = scan[t].stopped
          /\ scan'[t].sent = scan[t].sent /\ scan'[t].late = scan[t].late
    BY <1>4, <1>6, Zenon
  <1>8. ScannerTypes'
    BY <1>2, <1>6, SMT DEF ScannerInv, ScannerTypes
  <1>9. OneEnrolment'
    BY <1>7, SMT DEF ScannerInv, OneEnrolment
  <1>10. LastIsShown'
    <2>1. scans > 0 => scans \in Scans
      BY SMT DEF ScannerInv, ScannerTypes, Scans
    <2> QED  BY <1>2, <1>7, <2>1, SMT DEF ScannerInv, LastIsShown
  <1>11. CameraIsKnown => CameraIsKnown'
    BY <1>2, <1>7, SMT DEF CameraIsKnown, Pending
  <1> QED  BY <1>2, <1>8, <1>9, <1>10, <1>11 DEF ScannerInv

\* An aligned face: the scan sends one enrolment if the panel is there.
LEMMA SeenInv ==
  ASSUME ScannerInv, NEW s \in Scans, NEW c \in Letters, FaceSeen(s, c)
  PROVE  ScannerInv'
  <1> DEFINE looking(t) == IF t = s THEN scan[t].looking - 1 ELSE scan[t].looking
             sent(t) == IF t = s /\ VideoIsThere THEN scan[t].sent + 1 ELSE scan[t].sent
             overdue(t) == scan[t].late \/ (t = s /\ VideoIsThere /\ scan[s].stopped)
             alive(t) == scan[t].alive /\ t # s
             ticking(t) == scan[t].ticking /\ t # viewer.interval
             q(t) == [scan[t] EXCEPT !.ticking = ticking(t), !.looking = looking(t),
                                     !.alive = alive(t), !.sent = sent(t), !.late = overdue(t)]
  <1>1. /\ UNCHANGED <<viewer, scans, slipped>>
        /\ scan[s].looking > 0 /\ scan[s].alive
        /\ scan' = [t \in Scans |-> q(t)]
    BY Zenon DEF FaceSeen
  <1>2. ASSUME NEW t \in Scans
        PROVE  /\ scan[t] \in Closures /\ ticking(t) \in BOOLEAN /\ alive(t) \in BOOLEAN
               /\ overdue(t) \in BOOLEAN /\ looking(t) \in 0..2 /\ sent(t) \in 0..1
               /\ alive(t) => sent(t) = 0 /\ scan[t].alive
               /\ scan[t].stage \in {"unused", "opening"} => sent(t) = 0 /\ ~scan[t].alive
    <2>1. scan[t] \in Closures
      BY SMT DEF ScannerInv, ScannerTypes
    <2>2. /\ scan[t].sent <= 1 /\ (scan[t].alive => scan[t].sent = 0)
          /\ scan[t].stage \in {"unused", "opening"} => scan[t].sent = 0 /\ ~scan[t].alive
      BY DEF ScannerInv, OneEnrolment
    <2> HIDE DEF q
    <2>0. (t = s => scan[t].looking > 0) /\ scan[s].alive
      BY <1>1, Zenon
    <2>3. ticking(t) \in BOOLEAN /\ alive(t) \in BOOLEAN /\ overdue(t) \in BOOLEAN
      BY <2>1, SMT DEF Closures
    <2>4. looking(t) \in 0..2
      BY <2>0, <2>1, SMT DEF Closures
    <2>5. sent(t) \in 0..1
      <3>1. scan[t].sent \in 0..2 /\ (t = s => scan[t].sent = 0)
        BY <2>0, <2>1, <2>2, SMT DEF Closures
      <3> QED  BY <2>2, <3>1, SMT
    <2>6. /\ alive(t) => sent(t) = 0 /\ scan[t].alive
          /\ scan[t].stage \in {"unused", "opening"} => sent(t) = 0 /\ ~scan[t].alive
      BY <2>0, <2>2, Zenon
    <2> QED  BY <2>1, <2>3, <2>4, <2>5, <2>6
  <1>3. ASSUME NEW t \in Scans
        PROVE  overdue(t) => t < scans
    <2>1. CASE scan[t].late
      BY <2>1 DEF ScannerInv, LastIsShown
    <2>2. CASE t = s /\ VideoIsThere /\ scan[s].stopped
      <3>1. viewer.open /\ ~scan[scans].stopped /\ ~(s > scans)
        BY <2>2, Zenon DEF ScannerInv, LastIsShown, VideoIsThere
      <3>2. s \in Nat /\ scans \in Nat
        BY SMT DEF ScannerInv, ScannerTypes, Scans
      <3>3. s # scans
        BY <2>2, <3>1, Zenon
      <3> QED  BY <2>2, <3>1, <3>2, <3>3, SMT
    <2> QED  BY <2>1, <2>2, Zenon
  <1> HIDE DEF looking, sent, overdue, alive, ticking
  <1>4. ASSUME NEW t \in Scans
        PROVE  /\ q(t) \in Closures /\ q(t).stage = scan[t].stage /\ q(t).lit = scan[t].lit
               /\ q(t).stopped = scan[t].stopped /\ q(t).alive = alive(t)
               /\ q(t).sent = sent(t) /\ q(t).late = overdue(t)
    <2>1. sent(t) \in 0..2
      BY <1>2, SMT
    <2> QED  BY <1>2, <2>1, Zenon DEF Closures
  <1> HIDE DEF q
  <1>5. scan' \in [Scans -> Closures] /\ \A t \in Scans : scan'[t] = q(t)
    BY <1>1, <1>4, Zenon
  <1>6. \A t \in Scans :
          /\ scan'[t].stage = scan[t].stage /\ scan'[t].lit = scan[t].lit
          /\ scan'[t].stopped = scan[t].stopped /\ scan'[t].alive = alive(t)
          /\ scan'[t].sent = sent(t) /\ scan'[t].late = overdue(t)
    BY <1>4, <1>5, Zenon
  <1>7. ScannerTypes'
    BY <1>1, <1>5, SMT DEF ScannerInv, ScannerTypes
  <1>8. OneEnrolment'
    <2> SUFFICES ASSUME NEW t \in Scans
                 PROVE  /\ scan'[t].sent <= 1
                        /\ scan'[t].alive => scan'[t].sent = 0
                        /\ scan'[t].stage \in {"unused", "opening"} =>
                             scan'[t].sent = 0 /\ ~scan'[t].alive /\ ~scan'[t].lit
      BY Zenon DEF OneEnrolment
    <2>1. scan[t].stage \in {"unused", "opening"} => ~scan[t].lit
      BY DEF ScannerInv, OneEnrolment
    <2> QED  BY <1>2, <1>6, <2>1, SMT
  <1>9. LastIsShown'
    <2>1. scans > 0 => scans \in Scans
      BY SMT DEF ScannerInv, ScannerTypes, Scans
    <2> QED  BY <1>1, <1>3, <1>6, <2>1, SMT DEF ScannerInv, LastIsShown
  <1>10. CameraIsKnown => CameraIsKnown'
    BY <1>1, <1>6, SMT DEF CameraIsKnown, Pending
  <1> QED  BY <1>1, <1>7, <1>8, <1>9, <1>10 DEF ScannerInv

LEMMA NextScannerInv == ScannerInv /\ [SettingsNext]_settingsVars => ScannerInv'
  <1> SUFFICES ASSUME ScannerInv, [SettingsNext]_settingsVars PROVE ScannerInv'
    OBVIOUS
  <1>1. CASE LeavePage \/ StartScanner
    BY <1>1, LeaveInv, StartInv
  <1>2. CASE CancelScanner \/ CloserFires \/ \E c \in Letters : FaceFails(c)
    BY <1>2, StopsInv, Zenon DEF CancelScanner, CloserFires, FaceFails
  <1>3. ASSUME NEW s \in Scans,
               CameraOpens(s) \/ CameraRefused(s) \/ Look(s) \/ FaceNotSeen(s)
               \/ \E c \in Letters : FaceSeen(s, c)
        PROVE  ScannerInv'
    BY <1>3, OpensInv, CameraRefusedInv, LookInv, SeenInv, Zenon
  <1>4. CASE PressField \/ ReleaseField \/ FieldCloses \/ UNCHANGED settingsVars
    <2>1. UNCHANGED <<viewer, scan, scans, slipped>>
      BY <1>4, Zenon DEF PressField, ReleaseField, FieldCloses, settingsVars, scannerVars
    <2> QED  BY <2>1, ScannerQuietInv
  <1>5. ASSUME NEW c \in Letters,
               \/ OpenPage(c) \/ ServeStatus(c) \/ StatusAnswered(c) \/ StatusFails(c)
               \/ \E ok \in BOOLEAN : ServeChange(c, ok)
               \/ PressRevoke(c) \/ RevokeAnswered(c) \/ RevokeFails(c) \/ FaceAnswered(c)
               \/ PrintComplete(c) \/ PrintAnswered(c) \/ PrintFails(c)
        PROVE  ScannerInv'
    <2>1. UNCHANGED <<viewer, scan, scans, slipped>>
      BY <1>5, Zenon DEF OpenPage, ServeStatus, StatusAnswered, StatusFails, ServeChange,
         PressRevoke, RevokeAnswered, RevokeFails, FaceAnswered, PrintComplete, PrintAnswered,
         PrintFails, scannerVars
    <2> QED  BY <2>1, ScannerQuietInv
  <1> QED  BY <1>1, <1>2, <1>3, <1>4, <1>5, Zenon DEF SettingsNext

LEMMA ScannerInvariant == SettingsSpec => []ScannerInv
  BY InitScannerInv, NextScannerInv, PTL DEF SettingsSpec

\* Whatever detections, cancellations, answers and timers come together, a scan
\* enrols at most once, and a cancelled one only while another is shown
\* (DynamicRolePage.tsx, captureAndEnrollFace).
THEOREM OneEnrolmentPerScan == SettingsSpec => []ScanEnrolsWhatItShows
  <1>1. ScannerInv => ScanEnrolsWhatItShows
    BY SMT DEF ScannerInv, ScannerTypes, OneEnrolment, LastIsShown, ScanEnrolsWhatItShows
  <1> QED  BY <1>1, ScannerInvariant, PTL

\* However the scanner is started, cancelled and stopped, a camera that is on
\* without its panel was opened or refused to a cancelled scan, or outlived the
\* page (DynamicRolePage.tsx, startEnrollFaceScanner and stopEnrollFaceScanner).
THEOREM CameraNeedsPanel == SettingsSpec => []CameraGoesWithPanel
  <1>1. ScannerInv => CameraGoesWithPanel
    BY Zenon DEF ScannerInv, CameraIsKnown, CameraGoesWithPanel
  <1> QED  BY <1>1, ScannerInvariant, PTL

-----------------------------------------------------------------------------
(* The badges of the settings page                                         *)

LetterRecords == [pc : {"idle", "sent", "served"}, kind : {"status", "face", "print", "revoke"},
                  ok : BOOLEAN, value : Flags, number : Nat]

RowTypes ==
    /\ letter \in [Letters -> LetterRecords] /\ flags \in Flags
    /\ changes \in Nat /\ applied \in Nat /\ newest \in Nat

\* What an answer of check-enrollment says of the row.
SaysOfRow(l) ==
    l.pc = "served" /\ l.kind = "status" =>
        l.number <= changes /\ (l.number = changes => l.value = flags)

\* A request that will bring the row as it is: a refresh the services have not
\* answered yet or answered since the last change, or a change that is followed
\* by one.
Brings(l) ==
    \/ l.pc = "sent" /\ l.kind = "status"
    \/ l.pc = "served" /\ l.kind = "status" /\ l.number = changes
    \/ l.pc = "served" /\ Refreshes(l)

\* On the page the newest row is shown, or on its way, or an answer was lost.
RowIsOnItsWay ==
    place = "page" => newest = changes \/ lost \/ \E c \in Letters : Brings(letter[c])

RowInv ==
    /\ RowTypes
    /\ applied <= newest /\ newest <= changes
    /\ applied = changes => badges = flags
    /\ \A c \in Letters : SaysOfRow(letter[c])
    /\ RowIsOnItsWay

\* The letters that the actions write.
SentLetter(kind) == [NoLetter EXCEPT !.pc = "sent", !.kind = kind]
ServedLetter(l, ok) == [l EXCEPT !.pc = "served", !.ok = ok]
AnsweredLetter(l, f, n) == [l EXCEPT !.pc = "served", !.value = f, !.number = n]

LEMMA NewLetters ==
  /\ NoLetter \in LetterRecords /\ NoLetter.pc = "idle"
  /\ \A kind \in {"status", "face", "print", "revoke"} :
       SentLetter(kind) \in LetterRecords /\ SentLetter(kind).pc = "sent" /\ SentLetter(kind).kind = kind
  <1>1. NoFlags \in Flags
    BY Zenon DEF NoFlags, Flags
  <1>2. NoLetter \in LetterRecords /\ NoLetter.pc = "idle"
    BY <1>1, SMT DEF NoLetter, LetterRecords
  <1>3. ASSUME NEW kind \in {"status", "face", "print", "revoke"}
        PROVE  SentLetter(kind) \in LetterRecords /\ SentLetter(kind).pc = "sent" /\ SentLetter(kind).kind = kind
    BY <1>2, Zenon DEF LetterRecords, SentLetter
  <1> QED
    BY <1>2, <1>3, Zenon

LEMMA ServedLetters ==
  \A l \in LetterRecords, ok \in BOOLEAN :
     /\ ServedLetter(l, ok) \in LetterRecords /\ ServedLetter(l, ok).pc = "served"
     /\ ServedLetter(l, ok).kind = l.kind /\ ServedLetter(l, ok).ok = ok
  BY Zenon DEF LetterRecords, ServedLetter

LEMMA AnsweredLetters ==
  \A l \in LetterRecords, f \in Flags, n \in Nat :
     /\ AnsweredLetter(l, f, n) \in LetterRecords /\ AnsweredLetter(l, f, n).pc = "served"
     /\ AnsweredLetter(l, f, n).kind = l.kind
     /\ AnsweredLetter(l, f, n).value = f /\ AnsweredLetter(l, f, n).number = n
  BY Zenon DEF LetterRecords, AnsweredLetter

\* A letter is replaced, and the row and the badges stay: what the old one would
\* bring, the new one does, or an answer was lost.
LEMMA ReplacedLetter ==
  ASSUME RowInv, NEW c \in Letters, NEW l \in LetterRecords,
         letter' = [letter EXCEPT ![c] = l],
         UNCHANGED <<flags, changes, badges, applied, newest>>,
         SaysOfRow(l), lost => lost',
         place' = "page" => place = "page" \/ Brings(l),
         lost' \/ Brings(l) \/ ~Brings(letter[c])
  PROVE  RowInv'
  <1>1. letter' \in [Letters -> LetterRecords]
        /\ \A d \in Letters : letter'[d] = IF d = c THEN l ELSE letter[d]
    BY Zenon DEF RowInv, RowTypes
  <1>2. RowTypes'
    BY <1>1, Zenon DEF RowInv, RowTypes
  <1>3. \A d \in Letters : SaysOfRow(letter[d])'
    <2> SUFFICES ASSUME NEW d \in Letters PROVE SaysOfRow(letter[d])'
      OBVIOUS
    <2>1. CASE d = c
      BY <1>1, <2>1, Zenon DEF SaysOfRow
    <2>2. CASE d # c
      BY <1>1, <2>2, Zenon DEF SaysOfRow, RowInv
    <2> QED
      BY <2>1, <2>2
  <1>4. RowIsOnItsWay'
    <2> SUFFICES ASSUME place' = "page", newest # changes, ~lost'
                 PROVE  \E d \in Letters : Brings(letter[d])'
      BY Zenon DEF RowIsOnItsWay
    <2>1. CASE Brings(l)
      BY <1>1, <2>1, Zenon DEF Brings, Refreshes
    <2>2. CASE ~Brings(l)
      <3>1. PICK d \in Letters : Brings(letter[d])
        BY <2>2, Zenon DEF RowInv, RowIsOnItsWay
      <3>2. d # c
        BY <2>2, <3>1, Zenon
      <3> QED
        BY <1>1, <3>1, <3>2, Zenon DEF Brings, Refreshes
    <2> QED
      BY <2>1, <2>2
  <1>5. applied' <= newest' /\ newest' <= changes' /\ (applied' = changes' => badges' = flags')
    BY Zenon DEF RowInv
  <1> QED
    BY <1>2, <1>3, <1>4, <1>5, Zenon DEF RowInv

\* A letter goes out in an idle place, or on opening the page.
LEMMA SentInv ==
  ASSUME RowInv, NEW c \in Letters, NEW kind \in {"status", "face", "print", "revoke"},
         Sends(c, kind), UNCHANGED <<rowVars, badgeVars>>,
         kind = "status" \/ (place' = place /\ letter[c].pc = "idle")
  PROVE  RowInv'
  <1> DEFINE l == SentLetter(kind)
  <1>1. l \in LetterRecords /\ l.pc = "sent" /\ l.kind = kind
    BY NewLetters, Zenon
  <1>2. letter' = [letter EXCEPT ![c] = l]
    BY Zenon DEF Sends, SentLetter
  <1> HIDE DEF l
  <1>3. SaysOfRow(l)
    BY <1>1, SMT DEF SaysOfRow
  <1>4. kind = "status" => Brings(l)
    BY <1>1, SMT DEF Brings
  <1>5. letter[c].pc = "idle" => ~Brings(letter[c])
    BY SMT DEF Brings
  <1> QED
    BY <1>1, <1>2, <1>3, <1>4, <1>5, ReplacedLetter, Zenon DEF rowVars, badgeVars

\* The answer to a change is handled.
LEMMA FollowedInv ==
  ASSUME RowInv, NEW c \in Letters, Follows(c), letter[c].pc = "served",
         letter[c].kind # "status", UNCHANGED <<place, rowVars, badgeVars>>
  PROVE  RowInv'
  <1>1. CASE Refreshes(letter[c])
    BY <1>1, SentInv, Zenon DEF Follows
  <1>2. CASE ~Refreshes(letter[c])
    <2>1. letter' = [letter EXCEPT ![c] = NoLetter]
      BY <1>2, Zenon DEF Follows, Closes
    <2>2. SaysOfRow(NoLetter)
      BY NewLetters, SMT DEF SaysOfRow
    <2>3. ~Brings(letter[c])
      BY <1>2, SMT DEF Brings
    <2> QED
      BY <2>1, <2>2, <2>3, NewLetters, ReplacedLetter, Zenon DEF rowVars, badgeVars
  <1> QED
    BY <1>1, <1>2

\* An answer is lost.
LEMMA LostInv ==
  ASSUME RowInv, NEW c \in Letters, Closes(c), lost' = TRUE,
         UNCHANGED <<place, rowVars, badges, applied, newest>>
  PROVE  RowInv'
  <1>1. SaysOfRow(NoLetter)
    BY NewLetters, SMT DEF SaysOfRow
  <1> QED
    BY <1>1, NewLetters, ReplacedLetter, Zenon DEF rowVars, Closes

\* Steps that leave requests and row alone: the page may be left, not opened.
LEMMA RowQuietInv ==
  ASSUME RowInv, UNCHANGED <<letter, rowVars, badgeVars>>, place' = "page" => place = "page"
  PROVE  RowInv'
  <1>1. RowTypes' /\ applied' <= newest' /\ newest' <= changes'
        /\ (applied' = changes' => badges' = flags')
    BY Zenon DEF RowInv, RowTypes, rowVars, badgeVars
  <1>2. \A d \in Letters : SaysOfRow(letter[d])'
    BY Zenon DEF RowInv, SaysOfRow, rowVars
  <1>3. RowIsOnItsWay'
    BY Zenon DEF RowInv, RowIsOnItsWay, Brings, Refreshes, rowVars, badgeVars
  <1> QED
    BY <1>1, <1>2, <1>3, Zenon DEF RowInv

\* A change of the row is followed by a refresh, unless its answer is lost.
LEMMA ChangeInv ==
  ASSUME RowInv, NEW c \in Letters, NEW ok \in BOOLEAN, ServeChange(c, ok)
  PROVE  RowInv'
  <1> DEFINE l == ServedLetter(letter[c], ok)
  <1>0. letter[c] \in LetterRecords /\ letter[c].kind # "status" /\ letter[c].pc = "sent"
    BY Zenon DEF ServeChange, RowInv, RowTypes
  <1>1. l \in LetterRecords /\ l.pc = "served" /\ l.kind = letter[c].kind /\ l.ok = ok
    BY <1>0, ServedLetters, Zenon
  <1>2. letter' = [letter EXCEPT ![c] = l]
    <2>1. letter' = [letter EXCEPT ![c].pc = "served", ![c].ok = ok]
      BY Zenon DEF ServeChange
    <2> QED
      BY <2>1, Zenon DEF RowInv, RowTypes, ServedLetter
  <1>3. UNCHANGED <<place, badgeVars>>
    BY Zenon DEF ServeChange
  <1> HIDE DEF l
  <1>4. SaysOfRow(l)
    BY <1>0, <1>1, Zenon DEF SaysOfRow
  <1>5. CASE ok
    <2>1. changes' = changes + 1 /\ flags' = IF letter[c].kind = "revoke" THEN NoFlags
                                            ELSE [flags EXCEPT ![letter[c].kind] = TRUE]
      BY <1>5, Zenon DEF ServeChange
    <2>2. flags' \in Flags
      <3>1. NoFlags \in Flags /\ flags \in Flags
        BY Zenon DEF NoFlags, Flags, RowInv, RowTypes
      <3>2. [flags EXCEPT ![letter[c].kind] = TRUE] \in Flags
        BY <3>1, Zenon DEF Flags
      <3> QED
        BY <2>1, <3>1, <3>2, Zenon
    <2>3. changes \in Nat /\ applied \in Nat /\ newest \in Nat /\ applied <= newest /\ newest <= changes
      BY Zenon DEF RowInv, RowTypes
    <2>4. changes' \in Nat /\ applied # changes' /\ newest <= changes' /\ applied <= newest
      BY <2>1, <2>3, SMT
    <2>5. letter' \in [Letters -> LetterRecords]
          /\ \A d \in Letters : letter'[d] = IF d = c THEN l ELSE letter[d]
      BY <1>1, <1>2, Zenon DEF RowInv, RowTypes
    <2>6. \A d \in Letters : SaysOfRow(letter[d])'
      <3> SUFFICES ASSUME NEW d \in Letters PROVE SaysOfRow(letter[d])'
        OBVIOUS
      <3>1. CASE d = c
        BY <1>0, <1>1, <2>5, <3>1, Zenon DEF SaysOfRow
      <3>2. CASE d # c
        <4>1. letter'[d] = letter[d] /\ letter[d].number \in Nat /\ SaysOfRow(letter[d])
          BY <2>5, <3>2, Zenon DEF RowInv, RowTypes, LetterRecords
        <4>2. letter[d].pc = "served" /\ letter[d].kind = "status" =>
                letter[d].number <= changes' /\ letter[d].number # changes'
          <5> DEFINE n == letter[d].number
          <5>1. n \in Nat /\ (letter[d].pc = "served" /\ letter[d].kind = "status" => n <= changes)
            BY <4>1, Zenon DEF SaysOfRow
          <5> HIDE DEF n
          <5>2. n <= changes => n <= changes' /\ n # changes'
            BY <5>1, <2>1, <2>3, SMT
          <5> QED
            BY <5>1, <5>2, Zenon DEF n
        <4> QED
          BY <4>1, <4>2, Zenon DEF SaysOfRow
      <3> QED
        BY <3>1, <3>2
    <2>7. RowIsOnItsWay'
      <3>1. letter'[c] = l /\ Refreshes(l)
        BY <1>0, <1>1, <1>5, <2>5, Zenon DEF Refreshes
      <3> QED
        BY <1>1, <3>1, Zenon DEF RowIsOnItsWay, Brings, Refreshes
    <2> QED
      BY <1>3, <2>2, <2>3, <2>4, <2>5, <2>6, <2>7, Zenon DEF RowInv, RowTypes, badgeVars
  <1>6. CASE ~ok
    <2>1. UNCHANGED rowVars
      BY <1>6, Zenon DEF ServeChange
    <2>2. ~Brings(letter[c])
      BY <1>0, SMT DEF Brings
    <2> QED
      BY <1>1, <1>2, <1>3, <1>4, <2>1, <2>2, ReplacedLetter, Zenon DEF rowVars, badgeVars
  <1> QED
    BY <1>5, <1>6

\* check-enrollment reads the row as it is.
LEMMA ServeStatusInv ==
  ASSUME RowInv, NEW c \in Letters, ServeStatus(c)
  PROVE  RowInv'
  <1> DEFINE l == AnsweredLetter(letter[c], flags, changes)
  <1>0. letter[c] \in LetterRecords /\ letter[c].kind = "status" /\ flags \in Flags /\ changes \in Nat
    BY Zenon DEF ServeStatus, RowInv, RowTypes
  <1>1. /\ l \in LetterRecords /\ l.pc = "served" /\ l.kind = "status"
        /\ l.value = flags /\ l.number = changes
    <2>1. /\ l \in LetterRecords /\ l.pc = "served" /\ l.kind = letter[c].kind
          /\ l.value = flags /\ l.number = changes
      <3>1. ASSUME NEW q \in LetterRecords
            PROVE  LET m == AnsweredLetter(q, flags, changes)
                   IN  /\ m \in LetterRecords /\ m.pc = "served" /\ m.kind = q.kind
                       /\ m.value = flags /\ m.number = changes
        BY <1>0, AnsweredLetters
      <3> QED
        BY <1>0, <3>1, Zenon
    <2> HIDE DEF l
    <2> QED
      BY <1>0, <2>1, Zenon
  <1>2. letter' = [letter EXCEPT ![c] = l]
    <2>1. letter' = [letter EXCEPT ![c].pc = "served", ![c].value = flags, ![c].number = changes]
      BY Zenon DEF ServeStatus
    <2> QED
      BY <2>1, Zenon DEF RowInv, RowTypes, AnsweredLetter
  <1> HIDE DEF l
  <1>3. SaysOfRow(l) /\ Brings(l)
    BY <1>0, <1>1, SMT DEF SaysOfRow, Brings
  <1> QED
    BY <1>1, <1>2, <1>3, ReplacedLetter, Zenon DEF ServeStatus, rowVars, badgeVars

\* An answer of check-enrollment is shown; when it was the one that brings the row,
\* the newest row has been shown.
LEMMA StatusInv ==
  ASSUME RowInv, NEW c \in Letters, StatusAnswered(c)
  PROVE  RowInv'
  <1>0. /\ letter[c] \in LetterRecords /\ letter[c].pc = "served" /\ letter[c].kind = "status"
        /\ letter' = [letter EXCEPT ![c] = NoLetter] /\ UNCHANGED <<place, rowVars, lost>>
    BY Zenon DEF StatusAnswered, Closes, RowInv, RowTypes
  <1>1. NoLetter \in LetterRecords /\ NoLetter.pc = "idle" /\ SaysOfRow(NoLetter)
    BY NewLetters, SMT DEF SaysOfRow
  <1> DEFINE n == letter[c].number
  <1>2. n \in Nat /\ n <= changes /\ (n = changes => letter[c].value = flags)
    BY <1>0, Zenon DEF RowInv, SaysOfRow, LetterRecords
  <1>3. changes \in Nat /\ applied \in Nat /\ newest \in Nat /\ applied <= newest /\ newest <= changes
    BY Zenon DEF RowInv, RowTypes
  <1>4. CASE place = "page"
    <2>1. badges' = letter[c].value /\ applied' = n /\ newest' = IF n > newest THEN n ELSE newest
      BY <1>4, Zenon DEF StatusAnswered
    <2>2. letter' \in [Letters -> LetterRecords]
          /\ \A d \in Letters : letter'[d] = IF d = c THEN NoLetter ELSE letter[d]
      BY <1>0, <1>1, Zenon DEF RowInv, RowTypes
    <2>3. Brings(letter[c]) => n = changes
      BY <1>0, SMT DEF Brings, Refreshes
    <2> HIDE DEF n
    <2>4. /\ applied' \in Nat /\ newest' \in Nat /\ applied' <= newest' /\ newest' <= changes
          /\ (n = changes \/ newest = changes) => newest' = changes
      BY <1>2, <1>3, <2>1, SMT
    <2>5. \A d \in Letters : SaysOfRow(letter[d])'
      <3> SUFFICES ASSUME NEW d \in Letters PROVE SaysOfRow(letter[d])'
        OBVIOUS
      <3>1. CASE d = c
        BY <1>0, <1>1, <2>2, <3>1, Zenon DEF SaysOfRow, rowVars
      <3>2. CASE d # c
        BY <1>0, <2>2, <3>2, Zenon DEF SaysOfRow, RowInv, rowVars
      <3> QED
        BY <3>1, <3>2
    <2>6. RowIsOnItsWay'
      <3> SUFFICES ASSUME newest' # changes, ~lost PROVE \E d \in Letters : Brings(letter[d])'
        BY <1>0, Zenon DEF RowIsOnItsWay, rowVars
      <3>1. newest # changes /\ ~Brings(letter[c])
        BY <2>3, <2>4, Zenon
      <3>2. PICK d \in Letters : Brings(letter[d])
        BY <1>4, <3>1, Zenon DEF RowInv, RowIsOnItsWay
      <3>3. d # c
        BY <3>1, <3>2, Zenon
      <3>4. letter'[d] = letter[d]
        BY <2>2, <3>3, Zenon
      <3> QED
        BY <1>0, <3>2, <3>4, Zenon DEF Brings, Refreshes, rowVars
    <2> QED
      BY <1>0, <1>2, <2>1, <2>2, <2>4, <2>5, <2>6, Zenon DEF RowInv, RowTypes, rowVars
  <1>5. CASE place # "page"
    <2>1. UNCHANGED <<badges, applied, newest>>
      BY <1>5, Zenon DEF StatusAnswered
    <2>2. RowTypes' /\ \A d \in Letters : SaysOfRow(letter[d])'
      <3>1. letter' \in [Letters -> LetterRecords]
            /\ \A d \in Letters : letter'[d] = IF d = c THEN NoLetter ELSE letter[d]
        BY <1>0, <1>1, Zenon DEF RowInv, RowTypes
      <3>2. ASSUME NEW d \in Letters PROVE SaysOfRow(letter[d])'
        <4>1. CASE d = c
          BY <1>0, <1>1, <3>1, <4>1, Zenon DEF SaysOfRow, rowVars
        <4>2. CASE d # c
          BY <1>0, <3>1, <4>2, Zenon DEF SaysOfRow, RowInv, rowVars
        <4> QED
          BY <4>1, <4>2
      <3>3. RowTypes'
        BY <1>0, <2>1, <3>1, Zenon DEF RowInv, RowTypes, rowVars
      <3> QED
        BY <3>2, <3>3, Zenon
    <2> QED
      BY <1>0, <1>5, <2>1, <2>2, Zenon DEF RowInv, RowIsOnItsWay, rowVars
  <1> QED
    BY <1>4, <1>5

LEMMA NextRowInv == RowInv /\ [SettingsNext]_settingsVars => RowInv'
  <1> SUFFICES ASSUME RowInv, [SettingsNext]_settingsVars PROVE RowInv'
    OBVIOUS
  <1>1. CASE \/ LeavePage \/ StartScanner \/ CancelScanner \/ CloserFires
             \/ PressField \/ ReleaseField \/ FieldCloses
    <2>1. UNCHANGED <<letter, rowVars, badgeVars>> /\ (place' = place \/ place' = "left")
      BY <1>1, Zenon
      DEF LeavePage, StartScanner, CancelScanner, CloserFires, PressField, ReleaseField, FieldCloses
    <2>2. "left" # "page"
      OBVIOUS
    <2> QED
      BY <2>1, <2>2, RowQuietInv, Zenon
  <1>2. ASSUME NEW s \in Scans, CameraOpens(s) \/ CameraRefused(s) \/ Look(s) \/ FaceNotSeen(s)
        PROVE  RowInv'
    BY <1>2, RowQuietInv, Zenon DEF CameraOpens, CameraRefused, Look, FaceNotSeen
  <1>3. ASSUME NEW s \in Scans, NEW c \in Letters, FaceSeen(s, c) PROVE RowInv'
    <2>1. UNCHANGED <<place, rowVars, badgeVars>>
      BY <1>3, Zenon DEF FaceSeen
    <2>2. CASE VideoIsThere
      BY <1>3, <2>1, <2>2, SentInv, Zenon DEF FaceSeen
    <2>3. CASE ~VideoIsThere
      BY <1>3, <2>1, <2>3, RowQuietInv, Zenon DEF FaceSeen
    <2> QED
      BY <2>2, <2>3
  <1>4. ASSUME NEW c \in Letters, OpenPage(c) \/ PressRevoke(c) \/ PrintComplete(c) PROVE RowInv'
    BY <1>4, SentInv, Zenon DEF OpenPage, PressRevoke, PrintComplete
  <1>5. ASSUME NEW c \in Letters, RevokeAnswered(c) \/ FaceAnswered(c) \/ PrintAnswered(c)
        PROVE  RowInv'
    <2>1. letter[c].pc = "served" /\ letter[c].kind # "status" /\ Follows(c)
          /\ UNCHANGED <<place, rowVars, badgeVars>>
      BY <1>5, SMT DEF RevokeAnswered, FaceAnswered, PrintAnswered
    <2> QED
      BY <2>1, FollowedInv, Zenon
  <1>6. ASSUME NEW c \in Letters, StatusFails(c) \/ RevokeFails(c) \/ FaceFails(c) \/ PrintFails(c)
        PROVE  RowInv'
    BY <1>6, LostInv, Zenon DEF StatusFails, RevokeFails, FaceFails, PrintFails
  <1>7. CASE UNCHANGED settingsVars
    BY <1>7, RowQuietInv, Zenon DEF settingsVars
  <1> QED
    BY <1>1, <1>2, <1>3, <1>4, <1>5, <1>6, <1>7, ChangeInv, ServeStatusInv, StatusInv, Zenon
    DEF SettingsNext

LEMMA InitRowInv == SettingsInit => RowInv
  <1> SUFFICES ASSUME SettingsInit PROVE RowInv
    OBVIOUS
  <1>1. NoFlags \in Flags
    BY Zenon DEF NoFlags, Flags
  <1>2. RowTypes
    BY <1>1, NewLetters, SMT DEF SettingsInit, RowTypes
  <1>3. \A c \in Letters : SaysOfRow(letter[c])
    BY NewLetters, SMT DEF SettingsInit, SaysOfRow
  <1> QED
    BY <1>2, <1>3, SMT DEF SettingsInit, RowInv, RowIsOnItsWay

LEMMA RowInvariant == SettingsSpec => []RowInv
  <1> QED
    BY InitRowInv, NextRowInv, PTL DEF SettingsSpec

\* Once every answer has come the badges show the row, however many requests cross
\* each other, unless an older answer came after a newer one or an answer was lost.
THEOREM BadgesShowTheRow == SettingsSpec => []BadgesCatchUp
  <1>1. RowInv => BadgesCatchUp
    <2> SUFFICES ASSUME RowInv, place = "page", \A c \in Letters : letter[c].pc = "idle",
                        ~lost, ~(applied < newest)
                 PROVE  badges = flags
      BY Zenon DEF BadgesCatchUp
    <2>1. newest = changes
      BY SMT DEF RowInv, RowIsOnItsWay, Brings
    <2>2. applied = changes
      BY <2>1, SMT DEF RowInv, RowTypes
    <2> QED
      BY <2>2, Zenon DEF RowInv
  <1> QED
    BY RowInvariant, <1>1, PTL
-----------------------------------------------------------------------------
(* The bounds of the settings page                                         *)

\* A change that has not been served and a capture that has not been handled were
\* sent, so that no more of them are served or handled than requests were sent.
Unserved(l) == l.pc = "sent" /\ l.kind # "status"
Capturing(l) == l.pc # "idle" /\ l.kind = "face"
UnservedIn(q) == {c \in Letters : Unserved(q[c])}
CapturingIn(q) == {c \in Letters : Capturing(q[c])}

Fields == [open : BOOLEAN, state : {"idle", "scanning", "success", "failed"},
           ticking : BOOLEAN, closing : BOOLEAN]

PageTypes ==
    /\ place \in {"elsewhere", "page", "left"} /\ touch \in Fields
    /\ badges \in Flags /\ slipped \in BOOLEAN /\ lost \in BOOLEAN

\* n things done and those of S to be done are at most m.
AtMost(n, S, m) == n \in Nat /\ IsFiniteSet(S) /\ n + Cardinality(S) <= m

LettersAreCounted ==
    /\ letters \in 0..MaxLetters
    /\ \A c \in Letters : letter[c].number <= letters
    /\ AtMost(changes, UnservedIn(letter), letters)
    /\ AtMost(closers, CapturingIn(letter), letters)

SettingsInv == RowInv /\ PageTypes /\ LettersAreCounted

\* How a count changes with the set.
LEMMA CountedSets ==
  ASSUME NEW n, NEW m \in Nat, NEW S, NEW T, NEW c, AtMost(n, S, m)
  PROVE  /\ T \subseteq S => AtMost(n, T, m)
         /\ T \subseteq S \cup {c} => AtMost(n, T, m + 1)
         /\ c \in S /\ T \subseteq S \ {c} => AtMost(n + 1, T, m)
         /\ n <= m
  <1>1. n \in Nat /\ IsFiniteSet(S) /\ Cardinality(S) \in Nat /\ n + Cardinality(S) <= m
    BY FS_CardinalityType, Zenon DEF AtMost
  <1>2. ASSUME T \subseteq S PROVE AtMost(n, T, m)
    <2>1. IsFiniteSet(T) /\ Cardinality(T) <= Cardinality(S) /\ Cardinality(T) \in Nat
      BY <1>1, <1>2, FS_Subset, FS_CardinalityType
    <2> QED
      BY <1>1, <2>1, SMT DEF AtMost
  <1>3. ASSUME T \subseteq S \cup {c} PROVE AtMost(n, T, m + 1)
    <2>1. IsFiniteSet(S \cup {c}) /\ Cardinality(S \cup {c}) <= Cardinality(S) + 1
          /\ Cardinality(S \cup {c}) \in Nat
      <3>1. IsFiniteSet(S)
        BY <1>1
      <3>2. /\ IsFiniteSet(S \cup {c})
            /\ Cardinality(S \cup {c}) = IF c \in S THEN Cardinality(S) ELSE Cardinality(S) + 1
        BY <3>1, FS_AddElement, Zenon
      <3> QED
        BY <1>1, <3>2, SMT
    <2>2. IsFiniteSet(T) /\ Cardinality(T) <= Cardinality(S \cup {c}) /\ Cardinality(T) \in Nat
      BY <1>3, <2>1, FS_Subset, FS_CardinalityType
    <2> QED
      BY <1>1, <2>1, <2>2, SMT DEF AtMost
  <1>4. ASSUME c \in S, T \subseteq S \ {c} PROVE AtMost(n + 1, T, m)
    <2>1. IsFiniteSet(S \ {c}) /\ Cardinality(S \ {c}) = Cardinality(S) - 1
      BY <1>1, <1>4, FS_RemoveElement
    <2>2. IsFiniteSet(T) /\ Cardinality(T) <= Cardinality(S \ {c}) /\ Cardinality(T) \in Nat
      BY <1>4, <2>1, FS_Subset, FS_CardinalityType
    <2> QED
      BY <1>1, <2>1, <2>2, SMT DEF AtMost
  <1>5. n <= m
    BY <1>1, SMT
  <1> QED
    BY <1>2, <1>3, <1>4, <1>5

\* The counts after the letter of c has become l.
LEMMA CountsAfter ==
  ASSUME SettingsInv, NEW c \in Letters, NEW l \in LetterRecords,
         letter' = [letter EXCEPT ![c] = l], letters' \in 0..MaxLetters, l.number <= letters',
         \/ letters' = letters + 1
         \/ letters' = letters /\ ~Unserved(l) /\ (Capturing(l) => Capturing(letter[c])),
         \/ changes' = changes
         \/ changes' = changes + 1 /\ Unserved(letter[c]) /\ ~Unserved(l) /\ letters' = letters,
         \/ closers' = closers
         \/ closers' = closers + 1 /\ Capturing(letter[c]) /\ ~Capturing(l)
  PROVE  LettersAreCounted'
  <1> DEFINE U == UnservedIn(letter)
             K == CapturingIn(letter)
             V == UnservedIn(letter')
             L == CapturingIn(letter')
  <1>1. letter \in [Letters -> LetterRecords]
    BY Zenon DEF SettingsInv, RowInv, RowTypes
  <1>2. \A d \in Letters : letter'[d] = IF d = c THEN l ELSE letter[d]
    BY <1>1, Zenon
  <1>3. letters \in Nat /\ letters' \in Nat /\ letters <= letters'
    BY SettingsAssumption, SMT DEF SettingsInv, LettersAreCounted
  <1>4. \A d \in Letters : letter'[d].number <= letters'
    <2> SUFFICES ASSUME NEW d \in Letters PROVE letter'[d].number <= letters'
      OBVIOUS
    <2>1. letter[d].number \in Nat /\ letter[d].number <= letters
      BY <1>1, Zenon DEF LetterRecords, SettingsInv, LettersAreCounted
    <2> DEFINE n == letter[d].number
    <2> HIDE DEF n
    <2>2. n \in Nat /\ n <= letters => n <= letters'
      BY <1>3, SMT
    <2> QED
      BY <1>2, <2>1, <2>2, Zenon DEF n
  <1>5. V \subseteq U \cup {c} /\ L \subseteq K \cup {c}
    BY <1>2, Zenon DEF UnservedIn, CapturingIn
  <1>6. ~Unserved(l) => V \subseteq U \ {c} /\ V \subseteq U
    BY <1>2, Zenon DEF UnservedIn
  <1>7. /\ ~Capturing(l) => L \subseteq K \ {c} /\ L \subseteq K
        /\ (Capturing(l) => Capturing(letter[c])) => L \subseteq K
    BY <1>2, Zenon DEF CapturingIn
  <1>8. (Unserved(letter[c]) => c \in U) /\ (Capturing(letter[c]) => c \in K)
    BY Zenon DEF UnservedIn, CapturingIn
  <1>9. AtMost(changes, U, letters) /\ AtMost(closers, K, letters)
    BY Zenon DEF SettingsInv, LettersAreCounted
  <1> HIDE DEF U, K, V, L
  <1>10. AtMost(changes', V, letters')
    <2>1. CASE letters' = letters + 1
      <3>1. changes' = changes
        BY <1>3, <2>1, SMT
      <3> QED
        BY <1>3, <1>5, <1>9, <2>1, <3>1, CountedSets
    <2>2. CASE letters' = letters /\ ~Unserved(l)
      <3>1. V \subseteq U \ {c} /\ V \subseteq U
        BY <1>6, <2>2
      <3>2. CASE changes' = changes
        BY <1>3, <1>9, <2>2, <3>1, <3>2, CountedSets
      <3>3. CASE changes' = changes + 1 /\ Unserved(letter[c])
        BY <1>3, <1>8, <1>9, <2>2, <3>1, <3>3, CountedSets
      <3> QED
        BY <3>2, <3>3, Zenon
    <2> QED
      BY <2>1, <2>2, Zenon
  <1>11. AtMost(closers', L, letters')
    <2>1. CASE closers' = closers /\ letters' = letters + 1
      BY <1>3, <1>5, <1>9, <2>1, CountedSets
    <2>2. CASE closers' = closers /\ letters' = letters
      <3>1. Capturing(l) => Capturing(letter[c])
        BY <1>3, <2>2, SMT
      <3> QED
        BY <1>3, <1>7, <1>9, <2>2, <3>1, CountedSets
    <2>3. CASE closers' = closers + 1 /\ Capturing(letter[c]) /\ ~Capturing(l)
      <3>1. AtMost(closers + 1, L, letters)
        BY <1>3, <1>7, <1>8, <1>9, <2>3, CountedSets
      <3>2. L \subseteq L /\ L \subseteq L \cup {c}
        OBVIOUS
      <3>3. AtMost(closers + 1, L, letters + 1)
        BY <1>3, <3>1, <3>2, CountedSets
      <3> QED
        BY <2>3, <3>1, <3>3
    <2> QED
      BY <2>1, <2>2, <2>3
  <1> QED
    BY <1>4, <1>10, <1>11, Zenon DEF LettersAreCounted, U, K, V, L

\* Timers may fire while the letters stay.
LEMMA CountsQuiet ==
  ASSUME SettingsInv, UNCHANGED <<letter, letters, changes>>,
         closers' = closers \/ (closers > 0 /\ closers' = closers - 1)
  PROVE  LettersAreCounted'
  <1> DEFINE K == CapturingIn(letter)
  <1>1. AtMost(changes, UnservedIn(letter), letters) /\ AtMost(closers, K, letters)
        /\ letters \in 0..MaxLetters /\ \A c \in Letters : letter[c].number <= letters
    BY Zenon DEF SettingsInv, LettersAreCounted
  <1> HIDE DEF K
  <1>2. AtMost(closers', K, letters)
    <2>1. IsFiniteSet(K) /\ Cardinality(K) \in Nat
      BY <1>1, FS_CardinalityType, Zenon DEF AtMost
    <2> QED
      BY <1>1, <2>1, SMT DEF AtMost
  <1> QED
    BY <1>1, <1>2, Zenon DEF LettersAreCounted, K

LEMMA NumbersOfLetters ==
  /\ NoLetter.number = 0 /\ NoLetter.pc = "idle" /\ ~Unserved(NoLetter) /\ ~Capturing(NoLetter)
  /\ \A kind \in {"status", "face", "print", "revoke"} : SentLetter(kind).number = 0
  <1>1. NoLetter.number = 0 /\ NoLetter.pc = "idle"
    BY Zenon DEF NoLetter
  <1>2. ~Unserved(NoLetter) /\ ~Capturing(NoLetter)
    BY <1>1, SMT DEF Unserved, Capturing
  <1>3. ASSUME NEW kind \in {"status", "face", "print", "revoke"} PROVE SentLetter(kind).number = 0
    BY <1>1, Zenon DEF SentLetter, NoLetter
  <1> QED
    BY <1>1, <1>2, <1>3

\* A request is sent, or an answer handled, and perhaps a timer started.
LEMMA SendsCounts ==
  ASSUME SettingsInv, NEW c \in Letters, NEW kind \in {"status", "face", "print", "revoke"},
         Sends(c, kind), changes' = changes,
         \/ closers' = closers
         \/ closers' = closers + 1 /\ Capturing(letter[c]) /\ kind = "status"
  PROVE  LettersAreCounted'
  <1> DEFINE l == SentLetter(kind)
  <1>1. l \in LetterRecords /\ l.pc = "sent" /\ l.kind = kind /\ l.number = 0
    BY NewLetters, NumbersOfLetters, Zenon
  <1>2. letter' = [letter EXCEPT ![c] = l] /\ letters' = letters + 1 /\ letters < MaxLetters
    BY Zenon DEF Sends, SentLetter
  <1> HIDE DEF l
  <1>3. letters' \in 0..MaxLetters /\ l.number <= letters'
    BY <1>1, <1>2, SettingsAssumption, SMT DEF SettingsInv, LettersAreCounted
  <1>4. kind = "status" => ~Capturing(l)
    BY <1>1, SMT DEF Capturing
  <1> QED
    BY <1>1, <1>2, <1>3, <1>4, CountsAfter, Zenon

LEMMA ClosesCounts ==
  ASSUME SettingsInv, NEW c \in Letters, Closes(c), changes' = changes,
         closers' = closers \/ (closers' = closers + 1 /\ Capturing(letter[c]))
  PROVE  LettersAreCounted'
  <1>1. letter' = [letter EXCEPT ![c] = NoLetter] /\ letters' = letters
    BY Zenon DEF Closes
  <1>2. letters' \in 0..MaxLetters /\ NoLetter.number <= letters'
    BY <1>1, NumbersOfLetters, SettingsAssumption, SMT DEF SettingsInv, LettersAreCounted
  <1> QED
    BY <1>1, <1>2, NewLetters, NumbersOfLetters, CountsAfter, Zenon

LEMMA FollowsCounts ==
  ASSUME SettingsInv, NEW c \in Letters, Follows(c), changes' = changes,
         closers' = closers \/ (closers' = closers + 1 /\ Capturing(letter[c]))
  PROVE  LettersAreCounted'
  <1>1. Sends(c, "status") \/ Closes(c)
    BY Zenon DEF Follows
  <1> QED
    BY <1>1, SendsCounts, ClosesCounts, Zenon

\* A service answers.
LEMMA ServesCounts ==
  ASSUME SettingsInv, NEW c \in Letters, ServeStatus(c) \/ \E ok \in BOOLEAN : ServeChange(c, ok)
  PROVE  LettersAreCounted'
  <1>0. /\ letter[c] \in LetterRecords /\ flags \in Flags /\ changes \in Nat
        /\ letter \in [Letters -> LetterRecords]
        /\ letters \in 0..MaxLetters /\ letter[c].number <= letters
    BY Zenon DEF SettingsInv, LettersAreCounted, RowInv, RowTypes
  <1>1. letters' = letters /\ closers' = closers
    BY Zenon DEF ServeStatus, ServeChange, scannerVars
  <1>2. CASE ServeStatus(c)
    <2> DEFINE l == AnsweredLetter(letter[c], flags, changes)
    <2>1. l \in LetterRecords /\ l.pc = "served" /\ l.kind = letter[c].kind /\ l.number = changes
      <3>1. ASSUME NEW q \in LetterRecords
            PROVE  LET m == AnsweredLetter(q, flags, changes)
                   IN  m \in LetterRecords /\ m.pc = "served" /\ m.kind = q.kind /\ m.number = changes
        BY <1>0, AnsweredLetters
      <3> QED
        BY <1>0, <3>1, Zenon
    <2>2. letter' = [letter EXCEPT ![c] = l]
      <3>1. letter' = [letter EXCEPT ![c].pc = "served", ![c].value = flags, ![c].number = changes]
        BY <1>2, Zenon DEF ServeStatus
      <3> QED
        BY <1>0, <3>1, Zenon DEF AnsweredLetter
    <2> HIDE DEF l
    <2>3. letter[c].kind = "status" /\ changes' = changes
      BY <1>2, Zenon DEF ServeStatus, rowVars
    <2>4. ~Unserved(l) /\ ~Capturing(l)
      BY <2>1, <2>3, SMT DEF Unserved, Capturing
    <2>5. l.number <= letters'
      <3>1. AtMost(changes, UnservedIn(letter), letters) /\ letters \in Nat
        BY SettingsAssumption, SMT DEF SettingsInv, LettersAreCounted
      <3>2. changes <= letters
        BY <3>1, CountedSets
      <3> QED
        BY <1>1, <2>1, <3>2, Zenon
    <2> QED
      BY <1>0, <1>1, <2>1, <2>2, <2>3, <2>4, <2>5, CountsAfter, Zenon
  <1>3. ASSUME NEW ok \in BOOLEAN, ServeChange(c, ok) PROVE LettersAreCounted'
    <2> DEFINE l == ServedLetter(letter[c], ok)
    <2>1. l \in LetterRecords /\ l.pc = "served" /\ l.kind = letter[c].kind /\ l.number = letter[c].number
      <3>1. ASSUME NEW q \in LetterRecords
            PROVE  LET m == ServedLetter(q, ok)
                   IN  m \in LetterRecords /\ m.pc = "served" /\ m.kind = q.kind /\ m.number = q.number
        BY ServedLetters, Zenon DEF LetterRecords, ServedLetter
      <3> QED
        BY <1>0, <3>1, Zenon
    <2>2. letter' = [letter EXCEPT ![c] = l]
      <3>1. letter' = [letter EXCEPT ![c].pc = "served", ![c].ok = ok]
        BY <1>3, Zenon DEF ServeChange
      <3> QED
        BY <1>0, <3>1, Zenon DEF ServedLetter
    <2> HIDE DEF l
    <2>3. letter[c].pc = "sent" /\ letter[c].kind # "status" /\ changes' \in {changes, changes + 1}
      BY <1>3, Zenon DEF ServeChange, rowVars
    <2>4. ~Unserved(l) /\ Unserved(letter[c]) /\ (Capturing(l) => Capturing(letter[c]))
      BY <2>1, <2>3, SMT DEF Unserved, Capturing
    <2> QED
      BY <1>0, <1>1, <2>1, <2>2, <2>3, <2>4, CountsAfter, Zenon
  <1> QED
    BY <1>2, <1>3

LEMMA NextLettersCounted == SettingsInv /\ [SettingsNext]_settingsVars => LettersAreCounted'
  <1> SUFFICES ASSUME SettingsInv, [SettingsNext]_settingsVars PROVE LettersAreCounted'
    OBVIOUS
  <1>1. CASE \/ LeavePage \/ StartScanner \/ CancelScanner \/ CloserFires
             \/ PressField \/ ReleaseField \/ FieldCloses
    <2>1. UNCHANGED <<letter, letters, changes>>
      BY <1>1, Zenon DEF LeavePage, StartScanner, CancelScanner, CloserFires, PressField,
                         ReleaseField, FieldCloses, rowVars
    <2>2. closers' = closers \/ (closers > 0 /\ closers' = closers - 1)
      BY <1>1, Zenon DEF LeavePage, StartScanner, CancelScanner, CloserFires, PressField,
                         ReleaseField, FieldCloses, scannerVars
    <2> QED
      BY <2>1, <2>2, CountsQuiet, Zenon
  <1>2. ASSUME NEW s \in Scans, CameraOpens(s) \/ CameraRefused(s) \/ Look(s) \/ FaceNotSeen(s)
        PROVE  LettersAreCounted'
    BY <1>2, CountsQuiet, Zenon DEF CameraOpens, CameraRefused, Look, FaceNotSeen, rowVars
  <1>3. ASSUME NEW s \in Scans, NEW c \in Letters, FaceSeen(s, c) PROVE LettersAreCounted'
    <2>1. changes' = changes /\ closers' = closers
      BY <1>3, Zenon DEF FaceSeen, rowVars
    <2>2. CASE VideoIsThere
      BY <1>3, <2>1, <2>2, SendsCounts, Zenon DEF FaceSeen
    <2>3. CASE ~VideoIsThere
      BY <1>3, <2>1, <2>3, CountsQuiet, Zenon DEF FaceSeen
    <2> QED
      BY <2>2, <2>3
  <1>4. ASSUME NEW c \in Letters, OpenPage(c) \/ PressRevoke(c) \/ PrintComplete(c)
        PROVE  LettersAreCounted'
    BY <1>4, SendsCounts, Zenon DEF OpenPage, PressRevoke, PrintComplete, rowVars, scannerVars
  <1>5. ASSUME NEW c \in Letters, RevokeAnswered(c) \/ FaceAnswered(c) \/ PrintAnswered(c)
        PROVE  LettersAreCounted'
    <2>1. Follows(c) /\ changes' = changes
      BY <1>5, Zenon DEF RevokeAnswered, FaceAnswered, PrintAnswered, rowVars
    <2>2. closers' = closers \/ (closers' = closers + 1 /\ Capturing(letter[c]))
      BY <1>5, SMT DEF RevokeAnswered, FaceAnswered, PrintAnswered, scannerVars, Capturing
    <2> QED
      BY <2>1, <2>2, FollowsCounts, Zenon
  <1>6. ASSUME NEW c \in Letters,
               StatusAnswered(c) \/ StatusFails(c) \/ RevokeFails(c) \/ FaceFails(c) \/ PrintFails(c)
        PROVE  LettersAreCounted'
    <2>1. Closes(c) /\ changes' = changes /\ closers' = closers
      BY <1>6, Zenon DEF StatusAnswered, StatusFails, RevokeFails, FaceFails, PrintFails, rowVars, scannerVars
    <2> QED
      BY <2>1, ClosesCounts, Zenon
  <1>7. CASE UNCHANGED settingsVars
    BY <1>7, CountsQuiet, Zenon DEF settingsVars, scannerVars, rowVars
  <1> QED
    BY <1>1, <1>2, <1>3, <1>4, <1>5, <1>6, <1>7, ServesCounts, Zenon DEF SettingsNext

\* What an action makes of the field.
LEMMA FieldKeeps ==
  ASSUME touch \in Fields, SettingsNext
  PROVE  touch' \in Fields
  <1>1. ClosedField \in Fields
    BY SMT DEF ClosedField, Fields
  <1>2. ASSUME NEW t \in Fields, NEW st \in {"idle", "scanning", "success", "failed"}
        PROVE  /\ [t EXCEPT !.open = FALSE] \in Fields
               /\ [open |-> TRUE, state |-> st, ticking |-> TRUE, closing |-> FALSE] \in Fields
               /\ [t EXCEPT !.ticking = FALSE, !.state = st] \in Fields
               /\ [t EXCEPT !.closing = TRUE, !.state = st] \in Fields
               /\ [t EXCEPT !.state = st] \in Fields
    BY Zenon DEF Fields
  <1>3. CASE LeavePage \/ PressField \/ ReleaseField \/ FieldCloses
    BY <1>1, <1>2, <1>3, Zenon DEF LeavePage, PressField, ReleaseField, FieldCloses
  <1>4. ASSUME NEW c \in Letters, PrintComplete(c) \/ PrintFails(c) PROVE touch' \in Fields
    BY <1>2, <1>4, Zenon DEF PrintComplete, PrintFails
  <1>5. ASSUME NEW c \in Letters, PrintAnswered(c) PROVE touch' \in Fields
    <2> DEFINE st == IF letter[c].ok THEN touch.state ELSE "failed"
    <2>1. st \in {"idle", "scanning", "success", "failed"}
      BY Zenon DEF Fields
    <2>2. touch' = [touch EXCEPT !.closing = TRUE, !.state = st]
      BY <1>5, Zenon DEF PrintAnswered
    <2> HIDE DEF st
    <2> QED
      BY <1>2, <2>1, <2>2, Zenon
  <1>6. CASE StartScanner \/ CancelScanner \/ CloserFires
    BY <1>6, Zenon DEF StartScanner, CancelScanner, CloserFires
  <1>7. ASSUME NEW s \in Scans,
               \/ CameraOpens(s) \/ CameraRefused(s) \/ Look(s) \/ FaceNotSeen(s)
               \/ \E c \in Letters : FaceSeen(s, c)
        PROVE  touch' \in Fields
    BY <1>7, Zenon DEF CameraOpens, CameraRefused, Look, FaceNotSeen, FaceSeen
  <1>8. ASSUME NEW c \in Letters,
               \/ OpenPage(c) \/ ServeStatus(c) \/ StatusAnswered(c) \/ StatusFails(c)
               \/ \E ok \in BOOLEAN : ServeChange(c, ok)
               \/ PressRevoke(c) \/ RevokeAnswered(c) \/ RevokeFails(c)
               \/ FaceAnswered(c) \/ FaceFails(c)
        PROVE  touch' \in Fields
    BY <1>8, Zenon DEF OpenPage, ServeStatus, StatusAnswered, StatusFails, ServeChange, PressRevoke,
                       RevokeAnswered, RevokeFails, FaceAnswered, FaceFails
  <1> QED
    BY <1>3, <1>4, <1>5, <1>6, <1>7, <1>8, Zenon DEF SettingsNext

\* The page, its badges and the histories keep their types.
LEMMA NextPageTypes == SettingsInv /\ [SettingsNext]_settingsVars => PageTypes'
  <1> SUFFICES ASSUME SettingsInv, [SettingsNext]_settingsVars PROVE PageTypes'
    OBVIOUS
  <1> DEFINE Typed == /\ place \in {"elsewhere", "page", "left"} /\ badges \in Flags
                      /\ slipped \in BOOLEAN /\ lost \in BOOLEAN
  <1>1. touch' \in Fields
    BY FieldKeeps, Zenon DEF SettingsInv, PageTypes, settingsVars
  <1>2. Typed
    BY Zenon DEF SettingsInv, PageTypes
  <1>3. Typed'
    <2>1. CASE \/ LeavePage \/ StartScanner \/ CancelScanner \/ CloserFires
               \/ PressField \/ ReleaseField \/ FieldCloses
      BY <1>2, <2>1, Zenon DEF LeavePage, StartScanner, CancelScanner, CloserFires, PressField,
                               ReleaseField, FieldCloses, badgeVars, scannerVars
    <2>2. ASSUME NEW s \in Scans,
                 \/ CameraOpens(s) \/ CameraRefused(s) \/ Look(s) \/ FaceNotSeen(s)
                 \/ \E c \in Letters : FaceSeen(s, c)
          PROVE  Typed'
      BY <1>2, <2>2, Zenon DEF CameraOpens, CameraRefused, Look, FaceNotSeen, FaceSeen, badgeVars
    <2>3. ASSUME NEW c \in Letters, StatusAnswered(c) PROVE Typed'
      <3>1. badges' \in Flags
        <4>1. letter[c].value \in Flags
          BY Zenon DEF SettingsInv, RowInv, RowTypes, LetterRecords
        <4> QED
          BY <1>2, <2>3, <4>1, Zenon DEF StatusAnswered
      <3> QED
        BY <1>2, <2>3, <3>1, Zenon DEF StatusAnswered, scannerVars
    <2>4. ASSUME NEW c \in Letters,
                 \/ OpenPage(c) \/ ServeStatus(c) \/ StatusFails(c)
                 \/ \E ok \in BOOLEAN : ServeChange(c, ok)
                 \/ PressRevoke(c) \/ RevokeAnswered(c) \/ RevokeFails(c)
                 \/ FaceAnswered(c) \/ FaceFails(c)
                 \/ PrintComplete(c) \/ PrintAnswered(c) \/ PrintFails(c)
          PROVE  Typed'
      BY <1>2, <2>4, Zenon DEF OpenPage, ServeStatus, StatusFails, ServeChange, PressRevoke, RevokeAnswered,
                               RevokeFails, FaceAnswered, FaceFails, PrintComplete, PrintAnswered, PrintFails,
                               badgeVars, scannerVars
    <2>5. CASE UNCHANGED settingsVars
      BY <1>2, <2>5, Zenon DEF settingsVars, badgeVars, scannerVars
    <2> QED
      BY <2>1, <2>2, <2>3, <2>4, <2>5, Zenon DEF SettingsNext
  <1> QED
    BY <1>1, <1>3, Zenon DEF PageTypes

LEMMA InitSettingsInv == SettingsInit => SettingsInv
  <1> SUFFICES ASSUME SettingsInit PROVE SettingsInv
    OBVIOUS
  <1>1. PageTypes
    <2>1. ClosedField \in Fields /\ NoFlags \in Flags
      BY SMT DEF ClosedField, Fields, NoFlags, Flags
    <2>2. /\ place = "elsewhere" /\ touch = ClosedField /\ badges = NoFlags
          /\ slipped = FALSE /\ lost = FALSE
      BY Zenon DEF SettingsInit
    <2> QED
      BY <2>1, <2>2, Zenon DEF PageTypes
  <1>2. \A c \in Letters : letter[c] = NoLetter
    BY Zenon DEF SettingsInit
  <1>3. UnservedIn(letter) = {} /\ CapturingIn(letter) = {}
    BY <1>2, NumbersOfLetters, Zenon DEF UnservedIn, CapturingIn
  <1>4. letters = 0 /\ changes = 0 /\ closers = 0
    BY Zenon DEF SettingsInit
  <1>5. AtMost(0, {}, 0)
    BY FS_EmptySet, SMT DEF AtMost
  <1>6. \A c \in Letters : letter[c].number <= letters
    BY <1>2, <1>4, NumbersOfLetters, SMT
  <1>7. letters \in 0..MaxLetters
    BY <1>4, SettingsAssumption, SMT
  <1> QED
    BY <1>1, <1>3, <1>4, <1>5, <1>6, <1>7, InitRowInv, Zenon DEF SettingsInv, LettersAreCounted

LEMMA SettingsInvariant == SettingsSpec => []SettingsInv
  <1>1. SettingsInv /\ [SettingsNext]_settingsVars => SettingsInv'
    BY NextRowInv, NextPageTypes, NextLettersCounted, Zenon DEF SettingsInv
  <1> QED
    BY <1>1, InitSettingsInv, PTL DEF SettingsSpec

\* The variables of the settings page have their types: no more timers wait than
\* requests were sent, for any number of either (DynamicRolePage.tsx).
THEOREM SettingsTypeCorrect == SettingsSpec => []SettingsTypeOK
  <1>1. SettingsInv /\ ScannerInv => SettingsTypeOK
    <2> SUFFICES ASSUME SettingsInv, ScannerInv PROVE SettingsTypeOK
      OBVIOUS
    <2>1. letters \in 0..MaxLetters /\ letters \in Nat /\ MaxLetters \in Nat
      BY SettingsAssumption, SMT DEF SettingsInv, LettersAreCounted
    <2>2. changes \in Nat /\ closers \in Nat /\ changes <= letters /\ closers <= letters
      <3>1. AtMost(changes, UnservedIn(letter), letters) /\ AtMost(closers, CapturingIn(letter), letters)
        BY Zenon DEF SettingsInv, LettersAreCounted
      <3>2. changes \in Nat /\ closers \in Nat
        BY <3>1, Zenon DEF AtMost
      <3> QED
        BY <2>1, <3>1, <3>2, CountedSets
    <2>3. applied \in Nat /\ newest \in Nat /\ applied <= newest /\ newest <= changes
      BY Zenon DEF SettingsInv, RowInv, RowTypes
    <2>4. /\ changes \in 0..MaxLetters /\ closers \in 0..MaxLetters
          /\ applied \in 0..MaxLetters /\ newest \in 0..MaxLetters
      BY <2>1, <2>2, <2>3, SMT
    <2> DEFINE R == [pc : {"idle", "sent", "served"}, kind : {"status", "face", "print", "revoke"},
                     ok : BOOLEAN, value : Flags, number : 0..MaxLetters]
    <2>5. letter \in [Letters -> R]
      <3>1. letter \in [Letters -> LetterRecords]
        BY Zenon DEF SettingsInv, RowInv, RowTypes
      <3>2. ASSUME NEW c \in Letters PROVE letter[c] \in R
        <4>1. letter[c] \in LetterRecords /\ letter[c].number \in Nat /\ letter[c].number <= letters
          BY <3>1, Zenon DEF LetterRecords, SettingsInv, LettersAreCounted
        <4>2. ASSUME NEW n \in Nat, n <= letters PROVE n \in 0..MaxLetters
          BY <2>1, <4>2, SMT
        <4> QED
          BY <4>1, <4>2, Zenon DEF LetterRecords
      <3> QED
        BY <3>1, <3>2, Zenon
    <2> QED
      BY <2>1, <2>4, <2>5, Zenon
      DEF SettingsTypeOK, SettingsInv, PageTypes, Fields, RowInv, RowTypes, ScannerInv, ScannerTypes
  <1> QED
    BY <1>1, SettingsInvariant, ScannerInvariant, PTL
=============================================================================
