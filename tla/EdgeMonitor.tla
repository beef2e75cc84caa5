---------------------------- MODULE EdgeMonitor ----------------------------
(***************************************************************************)
(* Risk scores, the watchlist, gate decisions and entries of the Python    *)
(* service: risk_engine.py, watchlist.py, trust_engine.py, the recording   *)
(* half of journey_tracker.py and their endpoints in app.py.  Each module  *)
(* has a lock of its own, so an endpoint that scans and then charges a     *)
(* worker holds neither in between; update_risk_score takes the time       *)
(* before it waits for its lock.                                           *)
(*                                                                         *)
(* Abstractions.  One tenant, which a request may or may not name; time in *)
(* hours, less than the 48 hours after which a charge stops counting       *)
(* against behaviour; faces are inputs: a scan may match any entry, a      *)
(* ghost check any workers.  A person nobody registered is Stranger.       *)
(***************************************************************************)
EXTENDS Integers, FiniteSets, Functions, Sequences

CONSTANTS Staff,        \* users: workers, and the operators who call
          Stranger,     \* a watchlist entry without a user_id
          Requests,     \* calls of the endpoints that may charge a worker
          FirstHour, LastHour, HourStep,   \* bounds: the clock and its steps
          MaxCopies,    \* bound: active watchlist entries
          Regulars,     \* those who start with four ENTRY rows, at eight o'clock
          MaxEntries    \* bound: further ENTRY rows of each of them

ASSUME EdgeAssumption ==
    /\ Stranger \notin Staff
    /\ IsFiniteSet(Staff) /\ IsFiniteSet(Requests)
    /\ FirstHour \in Nat /\ LastHour \in Nat /\ FirstHour <= LastHour /\ HourStep \in Nat \ {0}
    /\ {MaxCopies, MaxEntries} \subseteq Nat

VARIABLES
    hour,      \* datetime.utcnow()
    copies,    \* copies[p]: active entries of watchlist_entries about p
    hits,      \* rows of watchlist_hits
    riskLog,   \* rows of worker_risk_log
    riskScore, \* riskScore[w]: row of worker_risk_scores
    entered,   \* entered[w]: number and total of entry_hour of ENTRY rows
    request,   \* request[r]: progress, and the charges it still has to make
    first      \* history: first[w]: whether w's first charge named the tenant

edgeVars == <<hour, copies, hits, riskLog, riskScore, entered, request, first>>

People == Staff \cup {Stranger}
Hours == FirstHour..LastHour

\* EVENT_WEIGHTS of the events that endpoints raise.
Weight == [WATCHLIST_HIT |-> 40, SPOOF_ATTEMPT |-> 20, DUPLICATE_IDENTITY |-> 35,
           FAILED_FACE_MATCH |-> 5]
RiskEvents == DOMAIN Weight

NoRow == [score |-> 0, tenant |-> FALSE, exists |-> FALSE]
NewRequest == [pc |-> "new", event |-> "SPOOF_ATTEMPT", whom |-> {}, tenant |-> FALSE, at |-> FirstHour]

\* Journeys recorded before the period that is modelled.
PastEntries(w) == IF w \in Regulars THEN [count |-> 4, total |-> 32] ELSE [count |-> 0, total |-> 0]

EdgeTypeOK ==
    /\ hour \in Hours
    /\ copies \in [People -> 0..MaxCopies]
    /\ hits \in Nat
    /\ riskLog \in Seq([user : Staff, event : RiskEvents, at : Hours])
    /\ riskScore \in [Staff -> [score : 0..1200, tenant : BOOLEAN, exists : BOOLEAN]]
    /\ entered \in [Staff -> [count : Nat, total : Nat]]
    /\ request \in [Requests -> [pc : {"new", "charge", "wait", "done", "failed"}, event : RiskEvents,
                                 whom : SUBSET Staff, tenant : BOOLEAN, at : Hours]]
    /\ first \in [Staff -> BOOLEAN]

EdgeInit ==
    /\ hour = FirstHour
    /\ copies = [p \in People |-> 0]
    /\ hits = 0
    /\ riskLog = <<>>
    /\ riskScore = [w \in Staff |-> NoRow]
    /\ entered = [w \in Staff |-> PastEntries(w)]
    /\ request = [r \in Requests |-> NewRequest]
    /\ first = [w \in Staff |-> FALSE]

-----------------------------------------------------------------------------
(* Scores                                                                  *)

Capped(n, cap) == IF n > cap THEN cap ELSE n

RowsOf(w, log) == {i \in DOMAIN log : log[i].user = w}

\* Twelve times _compute_decayed_score: DECAY_RATE_PER_HOUR takes a twelfth of
\* a weight per hour, so that a charge counts nothing after twelve hours.
DecayedScore(w, log, time) ==
    LET Decayed(row) == Weight[row.event] * (12 - Capped(time - row.at, 12))
    IN  Capped(SumFunction([i \in RowsOf(w, log) |-> Decayed(log[i])]), 1200)

RiskLevel(score) == CASE score >= 76 * 12 -> 3
                      [] score >= 56 * 12 /\ score < 76 * 12 -> 2
                      [] score >= 31 * 12 /\ score < 56 * 12 -> 1
                      [] OTHER -> 0

HighRisk == 2

\* get_high_risk_workers, which reads the stored level.
HighRiskList == {w \in Staff : riskScore[w].exists /\ RiskLevel(riskScore[w].score) >= HighRisk}
HighRiskListOfTenant == {w \in HighRiskList : riskScore[w].tenant}

Charges(e) == Cardinality({i \in DOMAIN riskLog : riskLog[i].event = e})

\* Faulty variant: the two penalties swapped.
Penalty_swapped(risk) == IF risk > 30 THEN 10 ELSE IF risk > 10 THEN 20 ELSE 0

\* What the weights charged in the last 48 hours cost.
Penalty(risk) == IF risk > 30 THEN 20 ELSE IF risk > 10 THEN 10 ELSE 0

\* compute_behaviour_score, in percent.
BehaviourScore(w) ==
    LET risk == SumFunction([i \in RowsOf(w, riskLog) |-> Weight[riskLog[i].event]])
        n == entered[w].count
        gap == (hour % 24) * n - entered[w].total
        unusual == n > 0 /\ (gap > 6 * n \/ -gap > 6 * n)
    IN 75 + (IF n >= 5 THEN 10 ELSE IF n >= 2 THEN 5 ELSE 0)
          - Penalty(risk) - (IF unusual THEN 15 ELSE 0)

\* compute_trust_score: inputs in percent, the score in hundredths of one.
TrustScore(face, liveness, gps, device, behaviour) ==
    40 * face + 25 * liveness + 15 * gps + 10 * device + 10 * behaviour

\* Faulty variants: the score computed before the row is inserted; a hit for
\* every entry instead of the best.
Recomputed_before(w, log) == DecayedScore(w, riskLog, hour)
Hit_everyEntry(p) == hits + copies[p]

\* GRANTED, GRANTED_LOW, MANUAL_REVIEW, DENIED.
Gate(score) == IF score >= 8000 THEN 3 ELSE IF score >= 6000 THEN 2
               ELSE IF score >= 4500 THEN 1 ELSE 0

\* Samples a request brings.  No kiosk is ever registered, therefore a device
\* is trusted 0.7 when it is named and 0.4 otherwise.
Samples == [face : {30, 50, 100}, liveness : {0, 100}, gps : {0, 100}, device : {40, 70}]

GateFor(s, behaviour) == Gate(TrustScore(s.face, s.liveness, s.gps, s.device, behaviour))

-----------------------------------------------------------------------------
Elapse ==
    /\ hour + HourStep <= LastHour
    /\ hour' = hour + HourStep
    /\ UNCHANGED <<copies, hits, riskLog, riskScore, entered, request, first>>

\* A request with something to charge goes on to update_risk_score.
Owing(event, whom, tenant) ==
    [NewRequest EXCEPT !.pc = "charge", !.event = event, !.whom = whom, !.tenant = tenant]

-----------------------------------------------------------------------------
(* Watchlist                                                               *)

Entries == {pn \in People \X (1..MaxCopies) : pn[2] <= copies[pn[1]]}

\* add_to_watchlist
AddToWatchlist(p) ==
    /\ Cardinality(Entries) < MaxCopies
    /\ copies' = [copies EXCEPT ![p] = @ + 1]
    /\ UNCHANGED <<hour, hits, riskLog, riskScore, entered, request, first>>

\* sync_watchlist_from_pg adds the users who are suspended at the time, whom
\* the backend decides: no column is unique, so that a user is added again by
\* every sync, and nothing removes one who was reinstated.
SyncWatchlist(suspended) ==
    /\ Cardinality(Entries) + Cardinality(suspended) <= MaxCopies
    /\ copies' = [p \in People |-> IF p \in suspended THEN copies[p] + 1 ELSE copies[p]]
    /\ UNCHANGED <<hour, hits, riskLog, riskScore, entered, request, first>>

\* An entry with an expires_at is no longer selected after it.
EntryExpires(p) ==
    /\ copies[p] > 0
    /\ copies' = [copies EXCEPT ![p] = @ - 1]
    /\ UNCHANGED <<hour, hits, riskLog, riskScore, entered, request, first>>

\* result["entry"]["user_id"] or userId
Charged(p, caller) == IF p \in Staff THEN {p} ELSE {caller}

\* The best entry alone is logged.
Hit(p) == hits + 1

\* scan_against_watchlist, a transaction of its own, in one that matches.
ScanWatchlist(r, p, caller, tenant) ==
    /\ request[r].pc = "new"
    /\ copies[p] > 0
    /\ hits' = Hit(p)
    /\ request' = [request EXCEPT ![r] = Owing("WATCHLIST_HIT", Charged(p, caller), tenant)]
    /\ UNCHANGED <<hour, copies, riskLog, riskScore, entered, first>>

-----------------------------------------------------------------------------
(* The other endpoints that charge                                         *)

\* A sample that is denied charges the worker it was presented for.
TrustScoreEndpoint(r, w, tenant) ==
    /\ request[r].pc = "new"
    /\ LET behaviour == BehaviourScore(w) IN \E s \in Samples : GateFor(s, behaviour) = 0
    /\ request' = [request EXCEPT ![r] = Owing("FAILED_FACE_MATCH", {w}, tenant)]
    /\ UNCHANGED <<hour, copies, hits, riskLog, riskScore, entered, first>>

\* A spoof charges the caller and names no tenant.
AntispoofAnalyze(r, caller) ==
    /\ request[r].pc = "new"
    /\ request' = [request EXCEPT ![r] = Owing("SPOOF_ATTEMPT", {caller}, FALSE)]
    /\ UNCHANGED <<hour, copies, hits, riskLog, riskScore, entered, first>>

\* Two or more users resemble the face: each is charged under its own tenant.
GhostWorkerCheck(r, matches) ==
    /\ request[r].pc = "new"
    /\ Cardinality(matches) > 1
    /\ request' = [request EXCEPT ![r] = Owing("DUPLICATE_IDENTITY", matches, TRUE)]
    /\ UNCHANGED <<hour, copies, hits, riskLog, riskScore, entered, first>>

\* record_journey_event with an ENTRY; no decision reads the other events.
RecordEntry(w) ==
    /\ w \in Regulars
    /\ entered[w].count < PastEntries(w).count + MaxEntries
    /\ entered' = [entered EXCEPT ![w] = [count |-> @.count + 1, total |-> @.total + (hour % 24)]]
    /\ UNCHANGED <<hour, copies, hits, riskLog, riskScore, request, first>>

-----------------------------------------------------------------------------
(* update_risk_score                                                       *)

\* The time is taken, then the lock is awaited.
Stamp(r) ==
    /\ request[r].pc = "charge"
    /\ request' = [request EXCEPT ![r].pc = "wait", ![r].at = hour]
    /\ UNCHANGED <<hour, copies, hits, riskLog, riskScore, entered, first>>

Recomputed(w, log) == DecayedScore(w, log, hour)

\* The upsert leaves tenant_id as the first event set it.
Upserted(row, score, tenant) ==
    [score |-> score, exists |-> TRUE, tenant |-> IF row.exists THEN row.tenant ELSE tenant]

\* Under the lock: the row is inserted, the score recomputed and both commit.
Charge(r) ==
    /\ request[r].pc = "wait"
    /\ \E w \in request[r].whom :
         LET h == request[r]
             log == Append(riskLog, [user |-> w, event |-> h.event, at |-> h.at])
         IN /\ riskLog' = log
            /\ riskScore' = [riskScore EXCEPT ![w] = Upserted(@, Recomputed(w, log), h.tenant)]
            /\ first' = [first EXCEPT ![w] = IF riskScore[w].exists THEN @ ELSE h.tenant]
            /\ request' = [request EXCEPT ![r] =
                             IF h.whom = {w} THEN [NewRequest EXCEPT !.pc = "done"]
                             ELSE [h EXCEPT !.pc = "charge", !.whom = @ \ {w}]]
    /\ UNCHANGED <<hour, copies, hits, entered>>

\* "database is locked", or the process dies: the transaction is rolled back
\* and the request ends.
ChargeFails(r) ==
    /\ request[r].pc \in {"charge", "wait"}
    /\ request' = [request EXCEPT ![r] = [NewRequest EXCEPT !.pc = "failed", !.event = request[r].event]]
    /\ UNCHANGED <<hour, copies, hits, riskLog, riskScore, entered, first>>

EdgeNext ==
    \/ Elapse
    \/ \E W \in SUBSET Staff : SyncWatchlist(W)
    \/ \E w \in Staff : RecordEntry(w)
    \/ \E p \in People : AddToWatchlist(p) \/ EntryExpires(p)
    \/ \E r \in Requests :
         \/ \E p \in People, c \in Staff, t \in BOOLEAN : ScanWatchlist(r, p, c, t)
         \/ \E w \in Staff, t \in BOOLEAN : TrustScoreEndpoint(r, w, t)
         \/ \E c \in Staff : AntispoofAnalyze(r, c)
         \/ \E m \in SUBSET Staff : GhostWorkerCheck(r, m)
         \/ Stamp(r) \/ Charge(r) \/ ChargeFails(r)

EdgeSpec == EdgeInit /\ [][EdgeNext]_edgeVars

-----------------------------------------------------------------------------
\* The list of high-risk workers rests on levels stored at the last event
\* (risk_engine.py, get_high_risk_workers), the score of a worker on all
\* events and the time: whoever is at HIGH now is in the list, and in that of
\* the tenant if the first event, which alone sets tenant_id, named it.
HighRiskListIsComplete ==
    \A w \in Staff :
      RiskLevel(DecayedScore(w, riskLog, hour)) >= HighRisk =>
        w \in HighRiskList /\ (first[w] => w \in HighRiskListOfTenant)

\* A scan that alerts charges one worker once, however many copies of an
\* entry the syncs have left, unless SQLite or the process fails between the
\* two transactions of the endpoint (watchlist_scan_endpoint).
HitsAreCharged ==
    hits = Charges("WATCHLIST_HIT")
             + Cardinality({r \in Requests : /\ request[r].pc \in {"charge", "wait", "failed"}
                                             /\ request[r].event = "WATCHLIST_HIT"})

\* A denial charges the worker, and charges lower the score of the worker's
\* next samples (compute_trust_score_endpoint and compute_behaviour_score).  The
\* loop works one way only: whoever is charged, by which endpoint and in which
\* order, the step that writes the risk log improves the gate decision of no
\* sample of anybody, so that a sample that was denied is not let in by being
\* presented again, before an hour passes or another entry is recorded.
ChargesNeverHelp ==
    [][riskLog' # riskLog =>
         \A w \in Staff :
           LET before == BehaviourScore(w)
               after == BehaviourScore(w)'
           IN \A s \in Samples : GateFor(s, after) <= GateFor(s, before)]_edgeVars
=============================================================================
