----------------------------- MODULE Attendance -----------------------------
(***************************************************************************)
(* AttendanceService of the NestJS backend: check-in, check-out and the    *)
(* day they belong to.  The table attendance has no constraint that ties a *)
(* user to one row per day; the handlers keep that rule themselves with a  *)
(* lookup followed, several awaits later, by an insert.  Every database    *)
(* statement is an action and requests interleave between them.  "Today"   *)
(* is computed once, when the handler starts, while the inserted row is    *)
(* stamped with the time of the insert: midnight can fall in between.      *)
(*                                                                         *)
(* Abstractions.  A day is a number.  A position is compared with the site *)
(* the worker is assigned to: "none" (missing, or a zero coordinate, which *)
(* the code's truthiness test treats as missing), "inside" or "outside".   *)
(* Liveness is whether the score reaches 0.5.  The trust score, which only *)
(* decorates the row, and the WebSocket announcement, which no handler     *)
(* reads, are left out; so are requests refused before the first query     *)
(* (poor GPS accuracy, unknown user, another tenant), which write nothing. *)
(* Who is assigned to a site is any set that stays as it is: the one route *)
(* that assigns a worker (sites.controller.ts:31) hands an undefined author *)
(* to a column that requires one, and so never stores a row.               *)
(***************************************************************************)
EXTENDS Naturals, Sequences

CONSTANTS Workers,
          Requests,     \* requests that can be in flight at the same time
          Nil,
          LastDay,      \* bound: the clock stops there
          MaxRecords,   \* bound: no more check-ins start beyond that many rows
          MaxFaults     \* bound: handlers that die between two statements

ASSUME AttendanceAssumption ==
    /\ LastDay \in Nat /\ MaxRecords \in Nat
    /\ Nil \notin Workers
    /\ MaxFaults \in Nat

VARIABLES
    today,
    assigned,    \* table worker_sites: the workers with a site (see below)
    records,     \* table attendance, in order of insertion
    incidents,   \* table incidents: who and what
    pc, who,     \* requests: next statement, user
    gps, live,   \* requests: the evidence in the check-in body
    day,         \* requests: the day the handler took for today
    picked,      \* requests: the row a check-out has found
    overlapped,  \* history: a rival check-in inserted its row meanwhile
    faults       \* handlers that have died so far

requestVars == <<pc, who, gps, live, day, picked, overlapped>>
vars == <<today, assigned, records, incidents, requestVars, faults>>

Positions == {"none", "inside", "outside"}
CheckInSteps == {"ci_existing", "ci_site", "ci_geofence", "ci_spoof", "ci_create"}
Steps == {"idle", "co_update"} \cup CheckInSteps

\* outs counts the writes of checkOut (0 is NULL); raced and outRaced are
\* history: a rival request was in flight when the row, or checkOut, was written.
Record == [user : Workers, day : Nat, gps : Positions, live : BOOLEAN,
           outs : Nat, raced : BOOLEAN, outRaced : BOOLEAN]

Incident == [user : Workers, type : {"GEOFENCE_VIOLATION", "SPOOF_ATTEMPT"}]

TypeOK ==
    /\ today \in Nat
    /\ assigned \subseteq Workers
    /\ records \in Seq(Record)
    /\ incidents \subseteq Incident
    /\ pc \in [Requests -> Steps]
    /\ who \in [Requests -> Workers \cup {Nil}]
    /\ gps \in [Requests -> Positions]
    /\ live \in [Requests -> BOOLEAN]
    /\ day \in [Requests -> Nat]
    /\ picked \in [Requests -> Nat]
    /\ overlapped \in [Requests -> BOOLEAN]
    /\ faults \in Nat

Init ==
    /\ today = 1
    /\ assigned \in SUBSET Workers
    /\ records = << >>
    /\ incidents = {}
    /\ pc = [r \in Requests |-> "idle"]
    /\ who = [r \in Requests |-> Nil]
    /\ gps = [r \in Requests |-> "none"]
    /\ live = [r \in Requests |-> FALSE]
    /\ day = [r \in Requests |-> 0]
    /\ picked = [r \in Requests |-> 0]
    /\ overlapped = [r \in Requests |-> FALSE]
    /\ faults = 0

-----------------------------------------------------------------------------
(* Faulty variants: what TLC must catch when one replaces the code's rule. *)

CheckedIn_openOnly(w, d) ==
    \E i \in DOMAIN records : /\ records[i].user = w /\ records[i].day = d
                              /\ records[i].outs = 0

OpenRecords_closedToo(w, d) ==
    {i \in DOMAIN records : records[i].user = w /\ records[i].day = d}

OpenRecords_dayBefore(w, d) ==
    {i \in DOMAIN records : /\ records[i].user = w /\ records[i].day < d
                            /\ records[i].outs = 0}

-----------------------------------------------------------------------------
Goto(r, step) ==
    /\ pc' = [pc EXCEPT ![r] = step]
    /\ UNCHANGED <<who, gps, live, day, picked, overlapped>>

\* The request's answer is sent, whatever it says; its locals are gone.
Finish(r) ==
    /\ pc' = [pc EXCEPT ![r] = "idle"]
    /\ who' = [who EXCEPT ![r] = Nil]
    /\ gps' = [gps EXCEPT ![r] = "none"]
    /\ live' = [live EXCEPT ![r] = FALSE]
    /\ day' = [day EXCEPT ![r] = 0]
    /\ picked' = [picked EXCEPT ![r] = 0]
    /\ overlapped' = [overlapped EXCEPT ![r] = FALSE]

Midnight ==
    /\ today < LastDay
    /\ today' = today + 1
    /\ UNCHANGED <<assigned, records, incidents, requestVars, faults>>

Abort(r) ==
    /\ faults < MaxFaults
    /\ faults' = faults + 1
    /\ pc[r] # "idle"
    /\ Finish(r)
    /\ UNCHANGED <<today, assigned, records, incidents>>

-----------------------------------------------------------------------------
(* checkIn                                                                 *)

CheckIn(r) ==
    /\ pc[r] = "idle"
    /\ Len(records) < MaxRecords
    /\ pc' = [pc EXCEPT ![r] = "ci_existing"]
    /\ \E w \in Workers : who' = [who EXCEPT ![r] = w]
    /\ \E p \in Positions : gps' = [gps EXCEPT ![r] = p]
    /\ \E l \in BOOLEAN : live' = [live EXCEPT ![r] = l]
    /\ day' = [day EXCEPT ![r] = today]
    /\ UNCHANGED <<today, assigned, records, incidents, picked, overlapped, faults>>

\* Open or closed: a user checks in once a day.
CheckedIn(w, d) ==
    \E i \in DOMAIN records : records[i].user = w /\ records[i].day = d

CheckInExisting(r) ==
    /\ pc[r] = "ci_existing"
    /\ IF CheckedIn(who[r], day[r]) \/ gps[r] = "none"
       THEN Finish(r)
       ELSE Goto(r, "ci_site")
    /\ UNCHANGED <<today, assigned, records, incidents, faults>>

\* The geofence is examined before the liveness score.
AfterSite(r) ==
    IF who[r] \in assigned /\ gps[r] = "outside" THEN "ci_geofence"
    ELSE IF ~live[r] THEN "ci_spoof"
    ELSE "ci_create"

CheckInSite(r) ==
    /\ pc[r] = "ci_site"
    /\ Goto(r, AfterSite(r))
    /\ UNCHANGED <<today, assigned, records, incidents, faults>>

\* The incident is stored, then the check-in is refused.
Refuse(r, type) ==
    /\ incidents' = incidents \cup {[user |-> who[r], type |-> type]}
    /\ Finish(r)
    /\ UNCHANGED <<today, assigned, records, faults>>

RefuseOutside(r) == pc[r] = "ci_geofence" /\ Refuse(r, "GEOFENCE_VIOLATION")

RefuseSpoof(r) == pc[r] = "ci_spoof" /\ Refuse(r, "SPOOF_ATTEMPT")

Rivals(r) == {q \in Requests \ {r} : pc[q] \in CheckInSteps /\ who[q] = who[r]}

CheckInCreate(r) ==
    /\ pc[r] = "ci_create"
    /\ records' = Append(records,
                    [user |-> who[r], day |-> today, gps |-> gps[r], live |-> live[r],
                     outs |-> 0, raced |-> overlapped[r] \/ Rivals(r) # {},
                     outRaced |-> FALSE])
    /\ pc' = [pc EXCEPT ![r] = "idle"]
    /\ who' = [who EXCEPT ![r] = Nil]
    /\ gps' = [gps EXCEPT ![r] = "none"]
    /\ live' = [live EXCEPT ![r] = FALSE]
    /\ day' = [day EXCEPT ![r] = 0]
    /\ overlapped' = [q \in Requests |->
                        q # r /\ (overlapped[q] \/ q \in Rivals(r))]
    /\ UNCHANGED <<today, assigned, incidents, picked, faults>>

-----------------------------------------------------------------------------
(* checkOut                                                                *)

\* findFirst without an order: any row that matches.
OpenRecords(w, d) ==
    {i \in DOMAIN records : /\ records[i].user = w /\ records[i].day = d
                            /\ records[i].outs = 0}

CheckOut(r, w) ==
    /\ pc[r] = "idle"
    /\ \E i \in OpenRecords(w, today) : picked' = [picked EXCEPT ![r] = i]
    /\ pc' = [pc EXCEPT ![r] = "co_update"]
    /\ who' = [who EXCEPT ![r] = w]
    /\ UNCHANGED <<today, assigned, records, incidents, gps, live, day, overlapped, faults>>

\* updateMany by id and tenant only: checkOut is not examined again.
CheckOutUpdate(r) ==
    /\ pc[r] = "co_update"
    /\ records' = [records EXCEPT
                     ![picked[r]].outs = @ + 1,
                     ![picked[r]].outRaced = @ \/ \E q \in Requests \ {r} :
                         pc[q] = "co_update" /\ picked[q] = picked[r]]
    /\ Finish(r)
    /\ UNCHANGED <<today, assigned, incidents, faults>>

-----------------------------------------------------------------------------
Proceed(r) == \/ CheckInExisting(r) \/ CheckInSite(r) \/ RefuseOutside(r)
              \/ RefuseSpoof(r) \/ CheckInCreate(r) \/ CheckOutUpdate(r)

Next == \/ Midnight
        \/ \E r \in Requests : \/ CheckIn(r) \/ Proceed(r) \/ Abort(r)
                               \/ \E w \in Workers : CheckOut(r, w)

Spec == Init /\ [][Next]_vars

\* Handlers finish, and a worker who can check out does so in the end.  The
\* server takes any number of requests, the model a few: that a check-out may
\* find all of Requests busy is the model's limit, hence strong fairness.
FairSpec ==
    /\ Spec
    /\ \A r \in Requests : WF_vars(Proceed(r))
    /\ \A w \in Workers : SF_vars(\E r \in Requests : CheckOut(r, w))

-----------------------------------------------------------------------------
(* Properties.                                                             *)

SameUserAndDay(i, j) == /\ records[i].user = records[j].user
                        /\ records[i].day = records[j].day

\* A user gets a second row on a day only through two check-ins that were in
\* flight together; neither midnight nor a crash nor a check-out in between
\* ever opens the door to one.
SecondRecordNeedsOverlap ==
    \A i, j \in DOMAIN records :
        i # j /\ SameUserAndDay(i, j) => records[i].raced /\ records[j].raced

\* A check-out time is overwritten only by check-outs in flight together.
OverwriteNeedsOverlap ==
    \A i \in DOMAIN records : records[i].outs > 1 => records[i].outRaced

\* Every stored row passed the geofence of its user's site and the liveness
\* test, whatever else happened between those tests and the insert.
RecordsPassedChecks ==
    \A i \in DOMAIN records :
        /\ records[i].live
        /\ records[i].gps # "none"
        /\ records[i].user \in assigned => records[i].gps = "inside"

\* A check-in of today is eventually closed by its worker's check-out, unless
\* midnight comes first.
ClosedUnlessMidnight ==
    \A i \in 1..MaxRecords :
        (i \in DOMAIN records /\ records[i].day = today /\ records[i].outs = 0)
            ~> (i \in DOMAIN records /\ (records[i].outs > 0 \/ records[i].day < today))

\* Every check-in is eventually closed by its worker's check-out.
EveryCheckInIsClosed ==
    \A i \in 1..MaxRecords :
        (i \in DOMAIN records /\ records[i].outs = 0)
            ~> (i \in DOMAIN records /\ records[i].outs > 0)
=============================================================================
