-------------------------- MODULE AttendanceProofs --------------------------
(***************************************************************************)
(* Theorems about Attendance, for every set of workers and requests, every *)
(* number of rows and days, with or without handlers that die.  The        *)
(* inductive invariant IInv says what a handler in flight can rely on: a   *)
(* row of its user that it has not seen was inserted by a rival.           *)
(***************************************************************************)
EXTENDS Attendance, SequenceTheorems, TLAPS

PastCheck == CheckInSteps \ {"ci_existing"}

\* A handler works for a worker, on a day that has begun.
InFlight ==
    \A r \in Requests : pc[r] \in CheckInSteps => who[r] \in Workers /\ day[r] <= today

NoRowFromTomorrow == \A i \in DOMAIN records : records[i].day <= today

\* What a rival check-in inserted while r was in flight.
ByRival(r, i) == overlapped[r] /\ records[i].raced

\* Before the lookup, rows later than the handler's day are a rival's ...
KnowsBefore ==
    \A r \in Requests : pc[r] \in CheckInSteps =>
        \A i \in DOMAIN records :
            records[i].user = who[r] => records[i].day <= day[r] \/ ByRival(r, i)

\* ... and after it, so are the rows of that day.
KnowsAfter ==
    \A r \in Requests : pc[r] \in PastCheck =>
        \A i \in DOMAIN records :
            records[i].user = who[r] => records[i].day < day[r] \/ ByRival(r, i)

\* What the handler has tested of the evidence.
Tested ==
    \A r \in Requests :
        /\ pc[r] \in PastCheck => gps[r] # "none"
        /\ pc[r] = "ci_create" =>
              live[r] /\ (who[r] \in assigned => gps[r] = "inside")

\* A check-out holds a row that is open, or that a rival closed.
HoldsRow ==
    \A r \in Requests : pc[r] = "co_update" =>
        /\ picked[r] \in DOMAIN records
        /\ records[picked[r]].outs > 0 => records[picked[r]].outRaced

IInv ==
    /\ TypeOK
    /\ InFlight
    /\ NoRowFromTomorrow
    /\ KnowsBefore
    /\ KnowsAfter
    /\ Tested
    /\ HoldsRow
    /\ SecondRecordNeedsOverlap
    /\ OverwriteNeedsOverlap
    /\ RecordsPassedChecks

-----------------------------------------------------------------------------

\* What the table holds are rows.
LEMMA RowType ==
    ASSUME TypeOK, NEW i \in DOMAIN records
    PROVE  records[i] \in Record /\ records[i].day \in Nat
<1>1. records[i] \in Record
  BY DEF TypeOK
<1>. QED  BY <1>1 DEF Record

\* An empty table and no request in flight.
LEMMA InitIInv == Init => IInv
<1> SUFFICES ASSUME Init PROVE IInv
  OBVIOUS
<1>1. TypeOK
  BY DEF Init, TypeOK, Steps, Positions
<1>2. InFlight /\ KnowsBefore /\ KnowsAfter /\ Tested /\ HoldsRow
  BY DEF Init, InFlight, KnowsBefore, KnowsAfter, Tested, HoldsRow,
         CheckInSteps, PastCheck
<1>3. NoRowFromTomorrow /\ SecondRecordNeedsOverlap /\ OverwriteNeedsOverlap
      /\ RecordsPassedChecks
  BY DEF Init, NoRowFromTomorrow, SecondRecordNeedsOverlap,
         OverwriteNeedsOverlap, RecordsPassedChecks
<1>. QED  BY <1>1, <1>2, <1>3 DEF IInv

\* When a request is answered nothing is known of it any more, and the other
\* requests and the tables are as they were.
LEMMA FinishIInv ==
    ASSUME IInv, NEW r \in Requests, Finish(r), UNCHANGED <<today, assigned, records>>,
           incidents' \subseteq Incident, faults' \in Nat
    PROVE  IInv'
<1> USE DEF IInv
<1>1. TypeOK'
  BY DEF TypeOK, Finish, Steps, Positions
<1>2. pc'[r] = "idle" /\ \A q \in Requests \ {r} :
        /\ pc'[q] = pc[q] /\ who'[q] = who[q] /\ gps'[q] = gps[q]
        /\ live'[q] = live[q] /\ day'[q] = day[q] /\ picked'[q] = picked[q]
        /\ overlapped'[q] = overlapped[q]
  BY DEF TypeOK, Finish
<1>3. (InFlight /\ Tested)'
  BY <1>2 DEF InFlight, Tested, CheckInSteps, PastCheck
<1>4. (KnowsBefore /\ KnowsAfter)'
  BY <1>2 DEF KnowsBefore, KnowsAfter, ByRival, CheckInSteps, PastCheck
<1>5. HoldsRow'
  BY <1>2 DEF HoldsRow
<1>6. (NoRowFromTomorrow /\ SecondRecordNeedsOverlap /\ OverwriteNeedsOverlap
       /\ RecordsPassedChecks)'
  BY DEF NoRowFromTomorrow, SecondRecordNeedsOverlap, SameUserAndDay,
         OverwriteNeedsOverlap, RecordsPassedChecks
<1>. QED  BY <1>1, <1>3, <1>4, <1>5, <1>6

\* A new row: of the handler's user, today, and raced if any other row of
\* that user and day exists.
LEMMA CreateIInv ==
    ASSUME IInv, NEW r \in Requests, CheckInCreate(r)
    PROVE  IInv'
<1> USE DEF IInv
<1> DEFINE row == [user |-> who[r], day |-> today, gps |-> gps[r], live |-> live[r],
                   outs |-> 0, raced |-> overlapped[r] \/ Rivals(r) # {},
                   outRaced |-> FALSE]
           n == Len(records) + 1
<1>1. who[r] \in Workers /\ pc[r] = "ci_create" /\ r \notin Rivals(r)
      /\ day[r] <= today
  BY DEF CheckInCreate, InFlight, CheckInSteps, Rivals
<1>2. row \in Record
  BY <1>1 DEF TypeOK, Record
<1>3. records' = Append(records, row)
  BY DEF CheckInCreate
<1>4. /\ DOMAIN records' = DOMAIN records \cup {n} /\ n \notin DOMAIN records
      /\ records'[n] = row /\ \A i \in DOMAIN records : records'[i] = records[i]
  BY <1>2, <1>3 DEF TypeOK
<1> HIDE DEF n
<1>5. row.user = who[r] /\ row.day = today /\ row.gps = gps[r] /\ row.live = live[r]
      /\ row.outs = 0 /\ row.raced = (overlapped[r] \/ Rivals(r) # {})
  OBVIOUS
<1> HIDE DEF row
<1>6. /\ pc'[r] = "idle" /\ UNCHANGED <<today, assigned, incidents, picked, faults>>
      /\ \A q \in Requests \ {r} :
            /\ pc'[q] = pc[q] /\ who'[q] = who[q] /\ gps'[q] = gps[q]
            /\ live'[q] = live[q] /\ day'[q] = day[q]
            /\ overlapped'[q] = (overlapped[q] \/ q \in Rivals(r))
  BY DEF TypeOK, CheckInCreate
<1>7. TypeOK'
  <2>1. records' \in Seq(Record)
    BY <1>2, <1>3 DEF TypeOK
  <2>2. /\ pc' \in [Requests -> Steps] /\ who' \in [Requests -> Workers \cup {Nil}]
        /\ gps' \in [Requests -> Positions] /\ live' \in [Requests -> BOOLEAN]
        /\ day' \in [Requests -> Nat]
    BY DEF TypeOK, CheckInCreate, Steps, Positions
  <2>3. overlapped' \in [Requests -> BOOLEAN]
    BY DEF TypeOK, CheckInCreate
  <2>. QED  BY <1>6, <2>1, <2>2, <2>3 DEF TypeOK
<1>8. (InFlight /\ Tested)'
  BY <1>6 DEF InFlight, Tested, CheckInSteps, PastCheck
<1>9. NoRowFromTomorrow'
  BY <1>4, <1>5, <1>6 DEF NoRowFromTomorrow, TypeOK
<1>10. ASSUME NEW q \in Requests, pc'[q] \in CheckInSteps, NEW i \in DOMAIN records',
              records'[i].user = who'[q]
       PROVE  /\ records'[i].day <= day'[q] \/ ByRival(q, i)'
              /\ pc'[q] \in PastCheck => records'[i].day < day'[q] \/ ByRival(q, i)'
  <2>1. q # r /\ pc[q] \in CheckInSteps /\ pc'[q] = pc[q] /\ who[q] = who'[q]
        /\ day'[q] = day[q]
    BY <1>6, <1>10 DEF CheckInSteps
  <2>2. CASE i = n
    <3>1. q \in Rivals(r)
      BY <1>4, <1>5, <1>10, <2>1, <2>2 DEF Rivals
    <3>2. r \in Rivals(q) /\ overlapped'[q]
      BY <1>1, <1>6, <3>1, <2>1 DEF Rivals, CheckInSteps
    <3>3. records'[i].raced
      BY <1>4, <1>5, <2>2, <3>1
    <3>. QED  BY <3>2, <3>3 DEF ByRival
  <2>3. CASE i \in DOMAIN records
    <3>1. records'[i] = records[i]
      BY <1>4, <2>3
    <3>2. ByRival(q, i) => ByRival(q, i)'
      BY <1>6, <2>1, <3>1 DEF ByRival
    <3>. QED
      BY <1>10, <2>1, <2>3, <3>1, <3>2 DEF KnowsBefore, KnowsAfter
  <2>. QED  BY <1>4, <2>2, <2>3
<1>11. (KnowsBefore /\ KnowsAfter)'
  BY <1>10 DEF KnowsBefore, KnowsAfter, PastCheck
<1>12. HoldsRow'
  BY <1>4, <1>6 DEF HoldsRow
<1>13. ASSUME NEW i \in DOMAIN records, records[i].user = who[r],
              records[i].day = today
       PROVE  records[i].raced /\ row.raced
  <2>1. ByRival(r, i)
    <3>1. records[i].day < day[r] \/ ByRival(r, i)
      BY <1>1, <1>13 DEF KnowsAfter, PastCheck, CheckInSteps
    <3>2. today \in Nat /\ day[r] \in Nat
      BY DEF TypeOK
    <3>. QED  BY <1>1, <1>13, <3>1, <3>2
  <2>. QED  BY <1>5, <2>1 DEF ByRival
<1>14. SecondRecordNeedsOverlap'
  <2> SUFFICES ASSUME NEW i \in DOMAIN records', NEW j \in DOMAIN records',
                      i # j, SameUserAndDay(i, j)'
               PROVE  records'[i].raced /\ records'[j].raced
    BY DEF SecondRecordNeedsOverlap
  <2>1. CASE i \in DOMAIN records /\ j \in DOMAIN records
    BY <1>4, <2>1 DEF SecondRecordNeedsOverlap, SameUserAndDay
  <2>2. CASE i = n /\ j \in DOMAIN records
    BY <1>4, <1>5, <1>13, <2>2 DEF SameUserAndDay
  <2>3. CASE j = n /\ i \in DOMAIN records
    BY <1>4, <1>5, <1>13, <2>3 DEF SameUserAndDay
  <2>. QED  BY <1>4, <2>1, <2>2, <2>3
<1>15. OverwriteNeedsOverlap'
  BY <1>4, <1>5 DEF OverwriteNeedsOverlap
<1>16. RecordsPassedChecks'
  BY <1>1, <1>4, <1>5, <1>6 DEF RecordsPassedChecks, Tested, PastCheck, CheckInSteps
<1>. QED
  BY <1>7, <1>8, <1>9, <1>11, <1>12, <1>14, <1>15, <1>16

-----------------------------------------------------------------------------

\* What a check-out writes is a row.
LEMMA WrittenRow ==
    ASSUME NEW x \in Record, NEW n \in Nat, NEW b \in BOOLEAN
    PROVE  [x EXCEPT !.outs = n, !.outRaced = b] \in Record
<1>1. CASE b = TRUE
  BY <1>1 DEF Record
<1>2. CASE b = FALSE
  BY <1>2 DEF Record
<1>. QED  BY <1>1, <1>2

\* A check-out writes one row, held by every rival that found it open too.
LEMMA CheckOutIInv ==
    ASSUME IInv, NEW r \in Requests, CheckOutUpdate(r)
    PROVE  IInv'
<1> USE DEF IInv
<1> DEFINE k == picked[r]
           rival == \E q \in Requests \ {r} : pc[q] = "co_update" /\ picked[q] = k
<1>1. k \in DOMAIN records /\ records \in Seq(Record)
  BY DEF CheckOutUpdate, HoldsRow, TypeOK
<1>2. /\ DOMAIN records' = DOMAIN records
      /\ \A i \in DOMAIN records \ {k} : records'[i] = records[i]
      /\ records'[k] = [records[k] EXCEPT !.outs = @ + 1, !.outRaced = @ \/ rival]
  BY <1>1 DEF CheckOutUpdate
<1>3. records[k] \in Record
  BY <1>1
<1> DEFINE bool == records[k].outRaced \/ rival
           written == [records[k] EXCEPT !.outs = records[k].outs + 1, !.outRaced = bool]
<1>4. records'[k] = written /\ written \in Record
  <2>1. bool \in BOOLEAN /\ records[k].outs + 1 \in Nat
    BY <1>3 DEF Record
  <2>2. records'[k] = written
    BY <1>2, <1>3 DEF Record
  <2>. HIDE DEF bool
  <2>. QED  BY <1>3, <2>1, <2>2, WrittenRow
<1>5. records' \in Seq(Record)
  <2>1. records' = [records EXCEPT ![k] = written]
    <3>1. records' = [i \in DOMAIN records |-> records'[i]]
      BY <1>1, <1>2 DEF CheckOutUpdate
    <3>. QED  BY <1>2, <1>4, <3>1
  <2>. HIDE DEF written
  <2>. QED  BY <1>1, <1>4, <2>1, ExceptSeq
<1>6. /\ records'[k].outs = records[k].outs + 1
      /\ records[k].outRaced \/ rival => records'[k].outRaced
      /\ records'[k].user = records[k].user /\ records'[k].day = records[k].day
      /\ records'[k].gps = records[k].gps /\ records'[k].live = records[k].live
      /\ records'[k].raced = records[k].raced
  BY <1>2, <1>3 DEF Record
<1>7. \A i \in DOMAIN records :
        /\ records'[i].user = records[i].user /\ records'[i].day = records[i].day
        /\ records'[i].gps = records[i].gps /\ records'[i].live = records[i].live
        /\ records'[i].raced = records[i].raced
  BY <1>2, <1>6
<1>8. pc'[r] = "idle" /\ UNCHANGED <<today, assigned, incidents, faults>> /\ \A q \in Requests \ {r} :
        /\ pc'[q] = pc[q] /\ who'[q] = who[q] /\ gps'[q] = gps[q]
        /\ live'[q] = live[q] /\ day'[q] = day[q] /\ picked'[q] = picked[q]
        /\ overlapped'[q] = overlapped[q]
  BY DEF TypeOK, CheckOutUpdate, Finish
<1> HIDE DEF k, written
<1>9. TypeOK'
  BY <1>5 DEF TypeOK, CheckOutUpdate, Finish, Steps, Positions
<1>10. (InFlight /\ Tested)'
  BY <1>8 DEF InFlight, Tested, CheckInSteps, PastCheck
<1>11. (KnowsBefore /\ KnowsAfter)'
  BY <1>2, <1>7, <1>8 DEF KnowsBefore, KnowsAfter, ByRival, CheckInSteps, PastCheck
<1>12. (NoRowFromTomorrow /\ SecondRecordNeedsOverlap /\ RecordsPassedChecks)'
  BY <1>2, <1>7, <1>8 DEF NoRowFromTomorrow, SecondRecordNeedsOverlap,
         SameUserAndDay, RecordsPassedChecks
<1>13. HoldsRow'
  <2> SUFFICES ASSUME NEW q \in Requests, pc'[q] = "co_update"
               PROVE  /\ picked'[q] \in DOMAIN records'
                      /\ records'[picked'[q]].outs > 0 => records'[picked'[q]].outRaced
    BY DEF HoldsRow
  <2>1. q # r /\ pc[q] = "co_update" /\ picked'[q] = picked[q]
    BY <1>8
  <2>2. CASE picked[q] = k
    BY <1>1, <1>2, <1>6, <2>1, <2>2
  <2>3. CASE picked[q] # k
    BY <1>2, <2>1, <2>3 DEF HoldsRow
  <2>. QED  BY <2>2, <2>3
<1>14. OverwriteNeedsOverlap'
  <2>1. records'[k].outs > 1 => records'[k].outRaced
    <3>1. records[k].outs > 0 => records[k].outRaced
      BY DEF k, CheckOutUpdate, HoldsRow
    <3>2. records[k].outs \in Nat
      BY <1>3 DEF Record
    <3>. QED  BY <1>6, <3>1, <3>2
  <2>2. \A i \in DOMAIN records \ {k} : records'[i].outs > 1 => records'[i].outRaced
    BY <1>2 DEF OverwriteNeedsOverlap
  <2>. QED  BY <1>2, <2>1, <2>2 DEF OverwriteNeedsOverlap
<1>. QED  BY <1>9, <1>10, <1>11, <1>12, <1>13, <1>14

\* A request that moves on without touching the tables.
LEMMA GotoIInv ==
    ASSUME IInv, NEW r \in Requests, NEW step \in Steps, Goto(r, step),
           UNCHANGED <<today, assigned, records, incidents, faults>>,
           step # "co_update",
           step \in CheckInSteps => pc[r] \in CheckInSteps,
           step \in PastCheck => /\ gps[r] # "none"
                                 /\ pc[r] \in PastCheck \/ ~CheckedIn(who[r], day[r]),
           step = "ci_create" => live[r] /\ (who[r] \in assigned => gps[r] = "inside")
    PROVE  IInv'
<1> USE DEF IInv
<1>1. TypeOK'
  BY DEF TypeOK, Goto
<1>2. /\ pc'[r] = step /\ \A q \in Requests \ {r} : pc'[q] = pc[q]
      /\ UNCHANGED <<who, gps, live, day, picked, overlapped>>
  BY DEF TypeOK, Goto
<1>3. (InFlight /\ Tested /\ HoldsRow)'
  BY <1>2 DEF InFlight, Tested, HoldsRow, PastCheck
<1>4. KnowsBefore'
  BY <1>2 DEF KnowsBefore, ByRival
<1>5. KnowsAfter'
  <2> SUFFICES ASSUME NEW q \in Requests, pc'[q] \in PastCheck,
                      NEW i \in DOMAIN records, records[i].user = who[q]
               PROVE  records[i].day < day[q] \/ ByRival(q, i)
    BY <1>2 DEF KnowsAfter, ByRival
  <2>1. CASE pc[q] \in PastCheck
    BY <2>1 DEF KnowsAfter
  <2>2. CASE q = r /\ pc[r] \notin PastCheck
    <3>1. records[i].day # day[r]
      BY <1>2, <2>2 DEF CheckedIn
    <3>2. records[i].day <= day[r] \/ ByRival(r, i)
      BY <1>2, <2>2 DEF KnowsBefore, PastCheck
    <3>3. records[i].day \in Nat /\ day[r] \in Nat
      BY RowType DEF TypeOK
    <3>. QED  BY <2>2, <3>1, <3>2, <3>3
  <2>. QED  BY <1>2, <2>1, <2>2
<1>6. (NoRowFromTomorrow /\ SecondRecordNeedsOverlap /\ OverwriteNeedsOverlap
       /\ RecordsPassedChecks)'
  BY DEF NoRowFromTomorrow, SecondRecordNeedsOverlap, SameUserAndDay,
         OverwriteNeedsOverlap, RecordsPassedChecks
<1>. QED  BY <1>1, <1>3, <1>4, <1>5, <1>6

\* A new check-in: every row so far is of today or earlier.
LEMMA CheckInIInv ==
    ASSUME IInv, NEW r \in Requests, CheckIn(r)
    PROVE  IInv'
<1> USE DEF IInv
<1>1. /\ pc'[r] = "ci_existing" /\ day'[r] = today /\ who'[r] \in Workers
      /\ UNCHANGED <<today, assigned, records, incidents, picked, overlapped, faults>>
      /\ \A q \in Requests \ {r} :
            /\ pc'[q] = pc[q] /\ who'[q] = who[q] /\ gps'[q] = gps[q]
            /\ live'[q] = live[q] /\ day'[q] = day[q]
  BY DEF TypeOK, CheckIn
<1>2. TypeOK'
  BY DEF TypeOK, CheckIn, Steps, CheckInSteps
<1>3. InFlight'
  <2> SUFFICES ASSUME NEW q \in Requests, pc'[q] \in CheckInSteps
               PROVE  who'[q] \in Workers /\ day'[q] <= today'
    BY DEF InFlight
  <2>1. CASE q = r
    BY <1>1, <2>1 DEF TypeOK
  <2>2. CASE q # r
    BY <1>1, <2>2 DEF InFlight
  <2>. QED  BY <2>1, <2>2
<1>4. KnowsBefore'
  BY <1>1 DEF KnowsBefore, ByRival, NoRowFromTomorrow
<1>5. KnowsAfter'
  BY <1>1 DEF KnowsAfter, ByRival, PastCheck
<1>6. (Tested /\ HoldsRow)'
  BY <1>1 DEF Tested, HoldsRow, PastCheck, CheckInSteps
<1>7. (NoRowFromTomorrow /\ SecondRecordNeedsOverlap /\ OverwriteNeedsOverlap
       /\ RecordsPassedChecks)'
  BY <1>1 DEF NoRowFromTomorrow, SecondRecordNeedsOverlap, SameUserAndDay,
         OverwriteNeedsOverlap, RecordsPassedChecks
<1>. QED  BY <1>2, <1>3, <1>4, <1>5, <1>6, <1>7

\* A check-out that has found an open row.
LEMMA CheckOutFindIInv ==
    ASSUME IInv, NEW r \in Requests, NEW w \in Workers, CheckOut(r, w)
    PROVE  IInv'
<1> USE DEF IInv
<1>1. PICK i \in DOMAIN records : /\ records[i].outs = 0
                                  /\ picked' = [picked EXCEPT ![r] = i]
  BY DEF CheckOut, OpenRecords
<1>2. i \in Nat
  BY DEF TypeOK
<1>3. /\ pc'[r] = "co_update" /\ picked'[r] = i
      /\ UNCHANGED <<today, assigned, records, incidents, gps, live, day, overlapped, faults>>
      /\ \A q \in Requests \ {r} :
            pc'[q] = pc[q] /\ who'[q] = who[q] /\ picked'[q] = picked[q]
  BY <1>1 DEF TypeOK, CheckOut
<1>4. TypeOK'
  BY <1>1, <1>2 DEF TypeOK, CheckOut, Steps
<1>5. (InFlight /\ Tested)'
  BY <1>3 DEF InFlight, Tested, PastCheck, CheckInSteps
<1>6. (KnowsBefore /\ KnowsAfter)'
  BY <1>3 DEF KnowsBefore, KnowsAfter, ByRival, PastCheck, CheckInSteps
<1>7. HoldsRow'
  BY <1>1, <1>3 DEF HoldsRow
<1>8. (NoRowFromTomorrow /\ SecondRecordNeedsOverlap /\ OverwriteNeedsOverlap
       /\ RecordsPassedChecks)'
  BY <1>3 DEF NoRowFromTomorrow, SecondRecordNeedsOverlap, SameUserAndDay,
         OverwriteNeedsOverlap, RecordsPassedChecks
<1>. QED  BY <1>4, <1>5, <1>6, <1>7, <1>8

-----------------------------------------------------------------------------

\* Every step of a handler, and midnight, preserves the invariant.
LEMMA NextIInv == IInv /\ [Next]_vars => IInv'
<1> SUFFICES ASSUME IInv, [Next]_vars PROVE IInv'
  OBVIOUS
<1>1. CASE Midnight
  <2>1. today' = today + 1 /\ today \in Nat
        /\ UNCHANGED <<assigned, records, incidents, pc, who, gps, live, day, picked,
                       overlapped, faults>>
    BY <1>1 DEF Midnight, requestVars, IInv, TypeOK
  <2>2. TypeOK'
    BY <2>1 DEF IInv, TypeOK
  <2>3. (InFlight /\ NoRowFromTomorrow)'
    <3>1. \A r \in Requests : day[r] \in Nat
      BY DEF IInv, TypeOK
    <3>2. InFlight'
      BY <2>1, <3>1 DEF IInv, InFlight
    <3>3. \A i \in DOMAIN records : records[i].day \in Nat
      BY RowType DEF IInv
    <3>. QED  BY <2>1, <3>2, <3>3 DEF IInv, NoRowFromTomorrow
  <2>4. (KnowsBefore /\ KnowsAfter /\ Tested /\ HoldsRow)'
    BY <2>1 DEF IInv, KnowsBefore, KnowsAfter, ByRival, Tested, HoldsRow
  <2>5. (SecondRecordNeedsOverlap /\ OverwriteNeedsOverlap /\ RecordsPassedChecks)'
    BY <2>1 DEF IInv, SecondRecordNeedsOverlap, SameUserAndDay,
                OverwriteNeedsOverlap, RecordsPassedChecks
  <2>. QED  BY <2>2, <2>3, <2>4, <2>5 DEF IInv
<1>2. ASSUME NEW r \in Requests, CheckIn(r) PROVE IInv'
  BY <1>2, CheckInIInv
<1>3. ASSUME NEW r \in Requests, CheckInExisting(r) PROVE IInv'
  <2>1. pc[r] = "ci_existing" /\ UNCHANGED <<today, assigned, records, incidents, faults>>
    BY <1>3 DEF CheckInExisting
  <2>2. CASE CheckedIn(who[r], day[r]) \/ gps[r] = "none"
    BY <1>3, <2>1, <2>2, FinishIInv DEF CheckInExisting, IInv, TypeOK
  <2>3. CASE ~CheckedIn(who[r], day[r]) /\ gps[r] # "none"
    BY <1>3, <2>1, <2>3, GotoIInv DEF CheckInExisting, Steps, CheckInSteps, PastCheck
  <2>. QED  BY <2>2, <2>3
<1>4. ASSUME NEW r \in Requests, CheckInSite(r) PROVE IInv'
  <2>1. /\ pc[r] = "ci_site" /\ UNCHANGED <<today, assigned, records, incidents, faults>>
        /\ Goto(r, AfterSite(r))
    BY <1>4 DEF CheckInSite
  <2>2. gps[r] # "none" /\ gps[r] \in Positions
    BY <2>1 DEF IInv, TypeOK, Tested, PastCheck, CheckInSteps
  <2>3. AfterSite(r) \in {"ci_geofence", "ci_spoof", "ci_create"}
    BY DEF AfterSite
  <2>4. AfterSite(r) = "ci_create" =>
          live[r] /\ (who[r] \in assigned => gps[r] = "inside")
    BY <2>2 DEF AfterSite, Positions
  <2>. QED
    BY <2>1, <2>2, <2>3, <2>4, GotoIInv DEF Steps, CheckInSteps, PastCheck
<1>5. ASSUME NEW r \in Requests, RefuseOutside(r) \/ RefuseSpoof(r) PROVE IInv'
  <2>1. PICK type \in {"GEOFENCE_VIOLATION", "SPOOF_ATTEMPT"} :
          pc[r] \in CheckInSteps /\ Refuse(r, type)
    BY <1>5 DEF RefuseOutside, RefuseSpoof, CheckInSteps
  <2>2. incidents' \subseteq Incident
    BY <2>1 DEF Refuse, IInv, TypeOK, InFlight, Incident
  <2>3. faults' \in Nat
    BY <2>1 DEF Refuse, IInv, TypeOK
  <2>. QED  BY <2>1, <2>2, <2>3, FinishIInv DEF Refuse
<1>6. ASSUME NEW r \in Requests, CheckInCreate(r) PROVE IInv'
  BY <1>6, CreateIInv
<1>7. ASSUME NEW r \in Requests, NEW w \in Workers, CheckOut(r, w) PROVE IInv'
  BY <1>7, CheckOutFindIInv
<1>8. ASSUME NEW r \in Requests, CheckOutUpdate(r) PROVE IInv'
  BY <1>8, CheckOutIInv
<1>9. ASSUME NEW r \in Requests, Abort(r) PROVE IInv'
  BY <1>9, FinishIInv DEF Abort, IInv, TypeOK
<1>10. CASE UNCHANGED vars
  <2>1. UNCHANGED <<today, assigned, records, incidents, pc, who, gps, live, day,
                     picked, overlapped, faults>>
    BY <1>10 DEF vars, requestVars
  <2>. QED
    BY <2>1 DEF IInv, TypeOK, InFlight, NoRowFromTomorrow, KnowsBefore, KnowsAfter,
                ByRival, Tested, HoldsRow, SecondRecordNeedsOverlap, SameUserAndDay,
                OverwriteNeedsOverlap, RecordsPassedChecks
<1>. QED
  BY <1>1, <1>2, <1>3, <1>4, <1>5, <1>6, <1>7, <1>8, <1>9, <1>10
     DEF Next, Proceed

\* The inductive invariant holds in every reachable state.
LEMMA Invariance == Spec => []IInv
  BY InitIInv, NextIInv, PTL DEF Spec

\* For any number of workers, requests and days: two rows of a user on one
\* day come from check-ins that were in flight together (checkIn's lookup and
\* insert are separate statements, and only that separation is to blame).
THEOREM SecondRecordNeedsOverlapThm == Spec => []SecondRecordNeedsOverlap
<1>1. IInv => SecondRecordNeedsOverlap
  BY DEF IInv
<1>. QED  BY <1>1, Invariance, PTL

\* A check-out time is overwritten only by check-outs in flight together.
THEOREM OverwriteNeedsOverlapThm == Spec => []OverwriteNeedsOverlap
<1>1. IInv => OverwriteNeedsOverlap
  BY DEF IInv
<1>. QED  BY <1>1, Invariance, PTL

\* No row is stored without a position inside the user's site and a liveness
\* score that passed.
THEOREM RecordsPassedChecksThm == Spec => []RecordsPassedChecks
<1>1. IInv => RecordsPassedChecks
  BY DEF IInv
<1>. QED  BY <1>1, Invariance, PTL

\* Type correctness.
THEOREM TypeCorrect == Spec => []TypeOK
<1>1. IInv => TypeOK
  BY DEF IInv
<1>. QED  BY <1>1, Invariance, PTL
=============================================================================
