------------------------------- MODULE Outbox -------------------------------
(***************************************************************************)
(* What the Datalake integration promises about one stored event, without  *)
(* saying how: an event that is queued, or parked after a failed attempt,  *)
(* may be sent any number of times.  Once it is "done" it has been sent at *)
(* least once and is never touched again (at-least-once delivery).         *)
(***************************************************************************)
EXTENDS Naturals

CONSTANT Ids                 \* row ids of the stored events

VARIABLES phase,             \* phase[i]: where event i stands
          sends              \* sends[i]: copies of event i the receiver took

vars == <<phase, sends>>

Phase == {"absent", "queued", "done", "parked"}

Init == /\ phase = [i \in Ids |-> "absent"]
        /\ sends = [i \in Ids |-> 0]

Enqueue(i) ==
    /\ phase[i] = "absent"
    /\ phase' = [phase EXCEPT ![i] = "queued"]
    /\ UNCHANGED sends

Open(i) == phase[i] \in {"queued", "parked"}

Send(i) ==
    /\ Open(i)
    /\ sends' = [sends EXCEPT ![i] = @ + 1]
    /\ UNCHANGED phase

\* Outcomes are recorded in batches: the events in good were sent, those in
\* bad are parked.
Settle(good, bad) ==
    /\ \A i \in good \cup bad : Open(i)
    /\ \A i \in good : sends[i] > 0
    /\ good \cap bad = {}
    /\ phase' = [i \in Ids |-> IF i \in good THEN "done"
                               ELSE IF i \in bad THEN "parked" ELSE phase[i]]
    /\ UNCHANGED sends

Next == \/ \E i \in Ids : Enqueue(i) \/ Send(i)
        \/ \E good, bad \in SUBSET Ids : Settle(good, bad)

Spec == Init /\ [][Next]_vars

-----------------------------------------------------------------------------
TypeOK == /\ phase \in [Ids -> Phase]
          /\ sends \in [Ids -> Nat]
=============================================================================
