--------------------------- MODULE DatalakeQueue ---------------------------
(***************************************************************************)
(* The store-and-forward queue of biometrics_service/datalake_adapter.py:  *)
(* the SQLite table datalake_event_queue, queue_event, flush_queue and the *)
(* POST to the Datalake endpoint, with the threads of FastAPI's pool that  *)
(* run POST /datalake/sync, the single transaction a flush keeps open      *)
(* while it pushes, SQLite errors, and a crash of the process.             *)
(*                                                                         *)
(* Abstractions.  A row is its id and its push_status.  _push_lock is held *)
(* exactly by the thread that is inside flush_queue's with block, so it is *)
(* derived from pc.  A failed queue_event and a flush without a configured *)
(* endpoint change nothing and are stuttering steps.                       *)
(***************************************************************************)
EXTENDS Naturals, FiniteSets

CONSTANTS Flushers,     \* worker threads that may run flush_queue
          MaxRows,      \* bound: rows ever inserted
          BatchLimit,   \* flush_queue's max_events
          MaxFaults     \* bound: crashes and SQLite errors

ASSUME QueueAssumption ==
    /\ MaxRows \in Nat
    /\ BatchLimit \in Nat
    /\ MaxFaults \in Nat

Ids == 1 .. MaxRows

VARIABLES status,     \* committed push_status of each row, ABSENT before INSERT
          lastId,     \* the AUTOINCREMENT counter
          pc,         \* pc[t]: idle, or the step of flush_queue t is at
          batch,      \* batch[t]: selected rows t has still to handle
          ok,         \* ok[t]: what _push_single returned for the current row
          markedOk,   \* markedOk[t]: rows t's open transaction sets PUSHED
          markedBad,  \* markedBad[t]: rows t's open transaction sets FAILED
          delivered,  \* delivered[i]: copies of row i the endpoint has taken
          reachable,  \* whether the endpoint answers
          faults      \* history: crashes and SQLite errors so far

vars == <<status, lastId, pc, batch, ok, markedOk, markedBad, delivered,
          reachable, faults>>

flushVars == <<pc, batch, ok, markedOk, markedBad>>

Status == {"ABSENT", "PENDING", "PUSHED", "FAILED"}

TypeOK ==
    /\ status \in [Ids -> Status]
    /\ lastId \in 0 .. MaxRows
    /\ pc \in [Flushers -> {"idle", "push", "mark"}]
    /\ batch \in [Flushers -> SUBSET Ids]
    /\ ok \in [Flushers -> BOOLEAN]
    /\ markedOk \in [Flushers -> SUBSET Ids]
    /\ markedBad \in [Flushers -> SUBSET Ids]
    /\ delivered \in [Ids -> Nat]
    /\ reachable \in BOOLEAN
    /\ faults \in 0 .. MaxFaults

Init ==
    /\ status = [i \in Ids |-> "ABSENT"]
    /\ lastId = 0
    /\ pc = [t \in Flushers |-> "idle"]
    /\ batch = [t \in Flushers |-> {}]
    /\ ok = [t \in Flushers |-> FALSE]
    /\ markedOk = [t \in Flushers |-> {}]
    /\ markedBad = [t \in Flushers |-> {}]
    /\ delivered = [i \in Ids |-> 0]
    /\ reachable \in BOOLEAN
    /\ faults = 0

-----------------------------------------------------------------------------
(* Faulty variants: what TLC must catch when one replaces the code's rule. *)

LockFree_noLock == TRUE

Selected_newestFirst ==
    LET pending == {i \in Ids : status[i] = "PENDING"}
    IN  {i \in pending : Cardinality({j \in pending : j >= i}) <= BatchLimit}

Marked_alwaysPushed(t, i) ==
    /\ markedOk' = [markedOk EXCEPT ![t] = @ \cup {i}]
    /\ UNCHANGED markedBad

Committed_droppingFailed(t) ==
    [i \in Ids |-> IF i \in markedOk[t] THEN "PUSHED" ELSE status[i]]

-----------------------------------------------------------------------------
(* The queue.                                                              *)

LockFree == \A t \in Flushers : pc[t] = "idle"

\* SELECT ... WHERE push_status = 'PENDING' ORDER BY id ASC LIMIT max_events
Selected ==
    LET pending == {i \in Ids : status[i] = "PENDING"}
    IN  {i \in pending : Cardinality({j \in pending : j <= i}) <= BatchLimit}

\* The end of flush_queue's with block, by return or by exception: the
\* connection is closed, which rolls an uncommitted transaction back.
Release(t) ==
    /\ pc' = [pc EXCEPT ![t] = "idle"]
    /\ batch' = [batch EXCEPT ![t] = {}]
    /\ ok' = [ok EXCEPT ![t] = FALSE]
    /\ markedOk' = [markedOk EXCEPT ![t] = {}]
    /\ markedBad' = [markedBad EXCEPT ![t] = {}]

Fault == /\ faults < MaxFaults
         /\ faults' = faults + 1

\* queue_event: INSERT and commit under _push_lock.
QueueEvent ==
    /\ LockFree
    /\ lastId < MaxRows
    /\ lastId' = lastId + 1
    /\ status' = [status EXCEPT ![lastId + 1] = "PENDING"]
    /\ UNCHANGED <<flushVars, delivered, reachable, faults>>

\* flush_queue takes the lock and reads the batch.
BeginFlush(t) ==
    /\ LockFree
    /\ pc' = [pc EXCEPT ![t] = "push"]
    /\ batch' = [batch EXCEPT ![t] = Selected]
    /\ UNCHANGED <<status, lastId, ok, markedOk, markedBad, delivered,
                   reachable, faults>>

\* The row the loop is at: the batch is worked through in id order.
Current(t, i) == i \in batch[t] /\ \A j \in batch[t] : i <= j

\* _push_single: the endpoint takes the event and its answer arrives, takes
\* it and the answer is lost, or cannot be reached.
Push(t) ==
    /\ pc[t] = "push"
    /\ \E i \in Ids :
         /\ Current(t, i)
         /\ \/ /\ reachable
               /\ delivered' = [delivered EXCEPT ![i] = @ + 1]
               /\ ok' \in {[ok EXCEPT ![t] = TRUE], [ok EXCEPT ![t] = FALSE]}
            \/ /\ ~reachable
               /\ ok' = [ok EXCEPT ![t] = FALSE]
               /\ UNCHANGED delivered
    /\ pc' = [pc EXCEPT ![t] = "mark"]
    /\ UNCHANGED <<status, lastId, batch, markedOk, markedBad, reachable,
                   faults>>

\* The UPDATE of push_status, in the flush's transaction.
Marked(t, i) ==
    IF ok[t]
    THEN /\ markedOk' = [markedOk EXCEPT ![t] = @ \cup {i}]
         /\ UNCHANGED markedBad
    ELSE /\ markedBad' = [markedBad EXCEPT ![t] = @ \cup {i}]
         /\ UNCHANGED markedOk

Mark(t) ==
    /\ pc[t] = "mark"
    /\ \E i \in Ids :
         /\ Current(t, i)
         /\ Marked(t, i)
         /\ batch' = [batch EXCEPT ![t] = @ \ {i}]
    /\ pc' = [pc EXCEPT ![t] = "push"]
    /\ UNCHANGED <<status, lastId, ok, delivered, reachable, faults>>

\* The UPDATE raises: another module of the service writes to the same
\* database file.  The loop catches it and goes on; the row stays PENDING.
\* Once one UPDATE went through, the transaction holds the write lock.
MarkError(t) ==
    /\ pc[t] = "mark"
    /\ markedOk[t] \cup markedBad[t] = {}
    /\ Fault
    /\ \E i \in Ids :
         /\ Current(t, i)
         /\ batch' = [batch EXCEPT ![t] = @ \ {i}]
    /\ pc' = [pc EXCEPT ![t] = "push"]
    /\ UNCHANGED <<status, lastId, ok, markedOk, markedBad, delivered,
                   reachable>>

Committed(t) ==
    [i \in Ids |-> IF i \in markedOk[t] THEN "PUSHED"
                   ELSE IF i \in markedBad[t] THEN "FAILED" ELSE status[i]]

Commit(t) ==
    /\ pc[t] = "push"
    /\ batch[t] = {}
    /\ status' = Committed(t)
    /\ Release(t)
    /\ UNCHANGED <<lastId, delivered, reachable, faults>>

\* conn.commit() raises: the outer except reports the error, nothing is kept.
CommitError(t) ==
    /\ pc[t] = "push"
    /\ batch[t] = {}
    /\ Fault
    /\ Release(t)
    /\ UNCHANGED <<status, lastId, delivered, reachable>>

\* The process dies and restarts: every thread and open transaction is gone.
Crash ==
    /\ Fault
    /\ pc' = [t \in Flushers |-> "idle"]
    /\ batch' = [t \in Flushers |-> {}]
    /\ ok' = [t \in Flushers |-> FALSE]
    /\ markedOk' = [t \in Flushers |-> {}]
    /\ markedBad' = [t \in Flushers |-> {}]
    /\ UNCHANGED <<status, lastId, delivered, reachable>>

\* Environment: connectivity comes and goes.
NetworkChange ==
    /\ reachable' = ~reachable
    /\ UNCHANGED <<status, lastId, flushVars, delivered, faults>>

FlushStep(t) == Push(t) \/ Mark(t) \/ MarkError(t) \/ Commit(t) \/ CommitError(t)

Next == \/ QueueEvent \/ Crash \/ NetworkChange
        \/ \E t \in Flushers : BeginFlush(t) \/ FlushStep(t)

Spec == Init /\ [][Next]_vars

\* Every POST has a timeout and every SQLite call ends, so a started flush
\* goes on; clients keep calling POST /datalake/sync.
Fairness == /\ WF_vars(\E t \in Flushers : BeginFlush(t))
            /\ \A t \in Flushers : WF_vars(FlushStep(t))

FairSpec == Spec /\ Fairness

-----------------------------------------------------------------------------
(* Properties.                                                             *)

\* A row the database calls PUSHED was taken by the endpoint, whatever was
\* interrupted in between (flush_queue marks after the POST answered).
PushedWasDelivered ==
    \A i \in Ids : status[i] = "PUSHED" => delivered[i] > 0

\* A PUSHED row is final: no later flush, of any thread, after any crash,
\* sends it again or changes its status.
KeepsPushed ==
    \A i \in Ids : status[i] = "PUSHED" =>
        status'[i] = "PUSHED" /\ delivered'[i] = delivered[i]

PushedIsFinal == [][KeepsPushed]_vars

\* Concurrent flush requests alone never send an event twice: each extra
\* copy is paid for by a crash or a SQLite error.
DuplicatesNeedFaults ==
    \A i \in Ids : delivered[i] <= 1 + faults

\* Without faults an event never overtakes an older one: by the time an
\* event is delivered every older one has been attempted and recorded.
NoOvertaking ==
    faults = 0 =>
        \A i, j \in Ids :
            i < j /\ delivered[j] > 0 =>
                \/ status[i] \in {"PUSHED", "FAILED"}
                \/ \E t \in Flushers : i \in markedOk[t] \cup markedBad[t]

\* Every queued event is eventually attempted and recorded, although one
\* flush handles at most max_events rows.
PendingIsSettled ==
    \A i \in Ids : status[i] = "PENDING" ~> status[i] \in {"PUSHED", "FAILED"}

\* The module docstring's promise: an event queued while the endpoint was
\* unreachable is delivered by the flushes that follow once it is back.
FlushedWhenReachable ==
    <>[]reachable =>
        \A i \in Ids : status[i] # "ABSENT" ~> delivered[i] > 0

-----------------------------------------------------------------------------
(* The queue implements the abstract outbox.                               *)

Phase(s) == CASE s = "ABSENT"  -> "absent"
              [] s = "PENDING" -> "queued"
              [] s = "PUSHED"  -> "done"
              [] s = "FAILED"  -> "parked"

Abstract == INSTANCE Outbox WITH
                phase <- [i \in Ids |-> Phase(status[i])],
                sends <- delivered

ImplementsOutbox == Abstract!Spec
=============================================================================
