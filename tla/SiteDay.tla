------------------------------ MODULE SiteDay ------------------------------
(***************************************************************************)
(* The gate log of a site and the figures read from it: journey_tracker.py *)
(* and the routes of app.py over it.  record_journey_event takes its stamp *)
(* before the lock of the module and inserts its row under it, so rows may *)
(* be inserted in another order than that of their stamps.  The timeline   *)
(* of a worker and the figures of a day are read in one transaction each;  *)
(* the health score reads twice, and records are inserted in between.      *)
(*                                                                         *)
(* Abstractions.  Time is a tick.  A day has DayTicks of them: the first   *)
(* stands for the hours up to the limit of lateness, the last one for the  *)
(* second that begins at 23:59:59, which the queries leave out.  There is  *)
(* one site.  ZONE_CHANGE, RE_VERIFY and the breaks are the kind OTHER.    *)
(* The trust score of an event is whatever the caller sends: no service    *)
(* limits it to 1; 0 stands for the scores up to 0, which the average      *)
(* leaves out.                                                             *)
(* Rates and trust scores are integers, in ten-thousandths; the grade and  *)
(* the recommendations, which restate the score, are left out.             *)
(***************************************************************************)
EXTENDS Integers, Sequences, FiniteSets, Functions

CONSTANTS Crew,           \* the workers of the site
          Recorders,      \* calls to record that can be in progress together
          DayTicks,
          LastTick,       \* bound: the clock stops here
          MaxEvents,      \* bound: events recorded in all
          Events,         \* what callers report: the kind of event; whether the liveness
                          \* check passed and the equipment was complete; the trust score
          Expectations,   \* head counts a reader may expect
          MaxIncidents,   \* bound: incidents of a day in worker_risk_log
          Absent          \* no record in progress, no question

EventKinds == {"ENTRY", "EXIT", "OTHER"}
Row == [who : Crew, kind : EventKinds, at : 0..LastTick,
        live : BOOLEAN, ppe : BOOLEAN, trust : Nat]

ASSUME SiteAssumption ==
    /\ Absent \notin Row
    /\ IsFiniteSet(Recorders)
    /\ DayTicks \in Nat \ {0, 1}
    /\ LastTick \in Nat
    /\ MaxEvents \in Nat
    /\ MaxIncidents \in Nat
    /\ Expectations \subseteq Nat
    /\ Events \subseteq EventKinds \X BOOLEAN \X Nat

VARIABLES
    journey,     \* table worker_journey, in the order of its ids
    tick,
    recording,   \* of each call to record: the row it will insert
    question,    \* of a health score: the day and the figures read first
    (* history: the last passage of each worker; the days each worker was
       inside at the start of; workers whose passage could not be recorded *)
    passage, nights, unrecorded

siteVars == <<journey, tick, recording, question, passage, nights, unrecorded>>

Passage == [kind : {"ENTRY", "EXIT"}, at : -1..LastTick]
Figures == [day : Nat, expected : Nat, present : Nat, absent : Nat, late : Nat,
            attendance : Nat, ppe : Nat, trust : Nat, failed : Nat]
Full == 10000    \* the rate 1.0

SiteTypeOK ==
    /\ journey \in Seq(Row)
    /\ Len(journey) <= MaxEvents
    /\ tick \in 0..LastTick
    /\ recording \in [Recorders -> Row \cup {Absent}]
    /\ question \in Figures \cup {Absent}
    /\ passage \in [Crew -> Passage]
    /\ nights \subseteq Crew \X Nat
    /\ unrecorded \subseteq Crew

SiteInit ==
    /\ journey = <<>>
    /\ tick = 0
    /\ recording = [r \in Recorders |-> Absent]
    /\ question = Absent
    /\ passage = [w \in Crew |-> [kind |-> "EXIT", at |-> -1]]
    /\ nights = {}
    /\ unrecorded = {}

DayOf(t) == t \div DayTicks
Inside(w) == passage[w].kind = "ENTRY"

-----------------------------------------------------------------------------
(* What the queries read.                                                  *)

\* created_at >= dateT00:00:00 and created_at < dateT23:59:59
InDay(t, day) == DayOf(t) = day /\ t % DayTicks # DayTicks - 1

Logged(kind, day) ==
    {i \in DOMAIN journey : journey[i].kind = kind /\ InDay(journey[i].at, day)}

Present(day) == {journey[i].who : i \in Logged("ENTRY", day)}

\* Everybody with an entry after the limit, a second one of the day too.
Late(day) == {journey[i].who : i \in {j \in Logged("ENTRY", day) : journey[j].at % DayTicks > 0}}

\* Faulty variant: the exit's row must follow the entry's.
OnSite_byRow(day) ==
    {w \in Crew :
        \E i \in DOMAIN journey :
            /\ journey[i].who = w /\ journey[i].kind = "ENTRY"
            /\ journey[i].at >= day * DayTicks
            /\ ~ \E j \in i..Len(journey) : /\ journey[j].who = w
                                            /\ journey[j].kind = "EXIT"}

\* Entered since the day began, and no exit stamped since that entry.
OnSite(day) ==
    {w \in Crew :
        \E i \in DOMAIN journey :
            /\ journey[i].who = w /\ journey[i].kind = "ENTRY"
            /\ journey[i].at >= day * DayTicks
            /\ ~ \E j \in DOMAIN journey : /\ journey[j].who = w
                                           /\ journey[j].kind = "EXIT"
                                           /\ journey[j].at >= journey[i].at}

\* The timeline of w, ordered by stamp: first entry, last exit, and the time
\* between them if there are both.
Stay(w, day) ==
    LET Stamps(kind) == {journey[i].at : i \in {j \in Logged(kind, day) : journey[j].who = w}}
    IN  {last - first : first \in {t \in Stamps("ENTRY") : \A s \in Stamps("ENTRY") : t <= s},
                        last \in {t \in Stamps("EXIT") : \A s \in Stamps("EXIT") : t >= s}}

Rate(part, whole) == (part * Full + whole \div 2) \div whole
AtLeastOne(n) == IF n = 0 THEN 1 ELSE n

\* AVG(trust_score) over the entries of a day that have one, rounded.
AverageTrust(day) ==
    LET scored == {i \in Logged("ENTRY", day) : journey[i].trust > 0}
        n == AtLeastOne(Cardinality(scored))
    IN  (SumFunction([i \in scored |-> journey[i].trust]) + n \div 2) \div n

\* get_site_intelligence, in one transaction.
Intelligence(day, expected) ==
    LET entries == Logged("ENTRY", day)
        present == Cardinality(Present(day))
    IN  [day |-> day, expected |-> expected, present |-> present,
         absent |-> IF expected > present THEN expected - present ELSE 0,
         late |-> Cardinality(Late(day)),
         attendance |-> IF expected > 0 THEN Rate(present, expected) ELSE 0,
         ppe |-> Rate(Cardinality({i \in entries : journey[i].ppe}),
                      AtLeastOne(Cardinality(entries))),
         trust |-> AverageTrust(day),
         failed |-> Cardinality({i \in DOMAIN journey : /\ InDay(journey[i].at, day)
                                                        /\ ~journey[i].live})]

\* Faulty variant: the events of every kind.
PassedLiveness_ofAllKinds(day) ==
    {i \in DOMAIN journey : InDay(journey[i].at, day) /\ journey[i].live}

PassedLiveness(day) == {i \in Logged("ENTRY", day) : journey[i].live}

\* The second transaction of compute_site_health_score, and the score of the
\* figures that both have read; reported is the number of incidents, which the
\* risk engine writes.
Score(figures, reported) ==
    LET passed == Cardinality(PassedLiveness(figures.day))
        entries == Cardinality(Logged("ENTRY", figures.day))
        workforce == AtLeastOne(figures.present)
        security == IF reported >= workforce THEN 0 ELSE Full - Rate(reported, workforce)
    IN  figures.attendance * 30 + figures.ppe * 25 + figures.trust * 20
          + security * 15 + Rate(passed, AtLeastOne(entries)) * 10

-----------------------------------------------------------------------------
(* record_journey_event                                                    *)

Begun == Len(journey) + Cardinality({r \in Recorders : recording[r] # Absent})
           + Cardinality(unrecorded)

\* Nobody leaves who is not inside, and a worker passes at most once a tick.
MayPass(w, kind) ==
    \/ kind = "OTHER"
    \/ passage[w].at < tick /\ (kind = "EXIT" => Inside(w))

RecordJourneyEvent(r, w, kind, fine, trust) ==
    /\ recording[r] = Absent
    /\ Begun < MaxEvents
    /\ MayPass(w, kind)
    /\ recording' = [recording EXCEPT ![r] =
                       [who |-> w, kind |-> kind, at |-> tick, live |-> fine, ppe |-> fine,
                        trust |-> trust]]
    /\ passage' = IF kind = "OTHER" THEN passage
                  ELSE [passage EXCEPT ![w] = [kind |-> kind, at |-> tick]]
    /\ UNCHANGED <<journey, tick, question, nights, unrecorded>>

Insert(r) ==
    /\ recording[r] # Absent
    /\ journey' = Append(journey, recording[r])
    /\ recording' = [recording EXCEPT ![r] = Absent]
    /\ UNCHANGED <<tick, question, passage, nights, unrecorded>>

\* The insert raises, or the process dies before it: no row, no retry.  It
\* happens once.
InsertFails(r) ==
    /\ recording[r] # Absent
    /\ unrecorded = {}
    /\ recording' = [recording EXCEPT ![r] = Absent]
    /\ unrecorded' = unrecorded \cup {recording[r].who}
    /\ UNCHANGED <<journey, tick, question, passage, nights>>

-----------------------------------------------------------------------------
(* compute_site_health_score: figures first, the answer from a second      *)
(* transaction later; the clock.                                           *)

AskHealth ==
    /\ question = Absent
    /\ \E expected \in Expectations :
         question' = Intelligence(DayOf(tick), expected)
    /\ UNCHANGED <<journey, tick, recording, passage, nights, unrecorded>>

AnswerHealth ==
    /\ question # Absent
    /\ question' = Absent
    /\ UNCHANGED <<journey, tick, recording, passage, nights, unrecorded>>

ClockMoves ==
    /\ tick < LastTick
    /\ tick' = tick + 1
    /\ nights' = IF DayOf(tick') = DayOf(tick) THEN nights
                 ELSE nights \cup {<<w, DayOf(tick')>> : w \in {v \in Crew : Inside(v)}}
    /\ UNCHANGED <<journey, recording, question, passage, unrecorded>>

SiteNext ==
    \/ \E r \in Recorders, w \in Crew, event \in Events :
         RecordJourneyEvent(r, w, event[1], event[2], event[3])
    \/ \E r \in Recorders : Insert(r) \/ InsertFails(r)
    \/ AskHealth
    \/ AnswerHealth
    \/ ClockMoves

SiteSpec == SiteInit /\ [][SiteNext]_siteVars

-----------------------------------------------------------------------------
(* Properties.                                                             *)

\* Every passage of w has its row.
Settled(w) == /\ w \notin unrecorded
              /\ \A r \in Recorders : recording[r] = Absent \/ recording[r].who # w

\* Rows inserted out of order are read in order: the list of workers on site
\* names a worker whose passages are all recorded exactly if the last one was
\* an entry of today, and the time on site of a day is negative only for who
\* was inside when the day began (get_site_intelligence and
\* get_worker_timeline, against the stamp that record_journey_event takes
\* before the lock).
PassagesReadInOrder ==
    \A w \in Crew : Settled(w) =>
        /\ w \in OnSite(DayOf(tick)) <=> Inside(w) /\ DayOf(passage[w].at) = DayOf(tick)
        /\ \A day \in 0..DayOf(tick) :
             (\E stay \in Stay(w, day) : stay < 0) => <<w, day>> \in nights

\* The health score of a site is documented as one from 0 to 100
\* (compute_site_health_score and its endpoint), and is not: two figures have no
\* upper limit, the attendance rate and the trust score that a caller sends.
\* They are all that is to blame.  Whatever is inserted between the two
\* transactions of compute_site_health_score, and however many incidents there
\* are, the score leaves the scale upwards only if more workers were present
\* than expected, or an entry of the day was recorded with a trust above 1, and
\* it is never negative: the shares that are counted at different moments and
\* over different rows stay shares.
HealthKeepsItsScale ==
    question # Absent =>
        \A reported \in 0..MaxIncidents :
            /\ Score(question, reported) >= 0
            /\ Score(question, reported) > 100 * Full =>
                 \/ question.present > question.expected
                 \/ \E i \in Logged("ENTRY", question.day) : journey[i].trust > Full
=============================================================================
