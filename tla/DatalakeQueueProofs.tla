------------------------ MODULE DatalakeQueueProofs ------------------------
(***************************************************************************)
(* Theorems about DatalakeQueue, for every number of threads, rows, faults *)
(* and every batch limit.  The inductive invariant IInv says what a thread *)
(* inside flush_queue knows while it holds the lock: the rows it works on  *)
(* are still PENDING in the database, and those its transaction marks      *)
(* PUSHED have been delivered.                                             *)
(***************************************************************************)
EXTENDS DatalakeQueue, FiniteSetTheorems, TLAPS

\* At most one thread is inside the with block of flush_queue.
OneFlusher == \A t, u \in Flushers : pc[t] # "idle" /\ pc[u] # "idle" => t = u

\* A thread outside flush_queue holds no rows.
IdleIsEmpty ==
    \A t \in Flushers : pc[t] = "idle" =>
        batch[t] = {} /\ markedOk[t] = {} /\ markedBad[t] = {}

\* What a flush works on, handled or not, is PENDING until it commits.
HeldIsPending ==
    \A t \in Flushers : \A i \in batch[t] \cup markedOk[t] \cup markedBad[t] :
        status[i] = "PENDING"

\* A row is handled once per flush.
HeldOnce ==
    \A t \in Flushers :
        /\ batch[t] \cap (markedOk[t] \cup markedBad[t]) = {}
        /\ markedOk[t] \cap markedBad[t] = {}

MarkedWasDelivered ==
    \A t \in Flushers : \A i \in markedOk[t] : delivered[i] > 0

\* Between the answer of the endpoint and the UPDATE.
AnsweredWasDelivered ==
    \A t \in Flushers : pc[t] = "mark" /\ ok[t] =>
        \A i \in Ids : Current(t, i) => delivered[i] > 0

UnusedIds == \A i \in Ids : status[i] = "ABSENT" <=> i > lastId

IInv ==
    /\ TypeOK
    /\ OneFlusher
    /\ IdleIsEmpty
    /\ HeldIsPending
    /\ HeldOnce
    /\ MarkedWasDelivered
    /\ AnsweredWasDelivered
    /\ UnusedIds
    /\ PushedWasDelivered

-----------------------------------------------------------------------------

\* The initial states satisfy the invariant.
LEMMA InitIInv == Init => IInv
  BY QueueAssumption
     DEF Init, IInv, TypeOK, OneFlusher, IdleIsEmpty, HeldIsPending, HeldOnce,
         MarkedWasDelivered, AnsweredWasDelivered, UnusedIds,
         PushedWasDelivered, Ids, Status

\* Every step of the queue, the endpoint and the environment preserves the
\* invariant.
LEMMA NextIInv == IInv /\ [Next]_vars => IInv'
<1> USE QueueAssumption DEF Ids, Status
<1> SUFFICES ASSUME IInv, [Next]_vars PROVE IInv'
  OBVIOUS
<1> USE DEF IInv, TypeOK
<1>1. CASE QueueEvent
  <2>1. TypeOK'
    BY <1>1 DEF QueueEvent, flushVars
  <2>2. (OneFlusher /\ IdleIsEmpty /\ HeldIsPending /\ HeldOnce)'
    BY <1>1 DEF QueueEvent, flushVars, LockFree, OneFlusher, IdleIsEmpty,
                HeldIsPending, HeldOnce
  <2>3. (MarkedWasDelivered /\ AnsweredWasDelivered)'
    BY <1>1 DEF QueueEvent, flushVars, MarkedWasDelivered,
                AnsweredWasDelivered, Current
  <2>4. (UnusedIds /\ PushedWasDelivered)'
    BY <1>1 DEF QueueEvent, UnusedIds, PushedWasDelivered
  <2>. QED  BY <2>1, <2>2, <2>3, <2>4
<1>2. CASE Crash
  BY <1>2 DEF Crash, Fault, OneFlusher, IdleIsEmpty, HeldIsPending, HeldOnce,
              MarkedWasDelivered, AnsweredWasDelivered, UnusedIds,
              PushedWasDelivered
<1>3. CASE NetworkChange
  BY <1>3 DEF NetworkChange, flushVars, OneFlusher, IdleIsEmpty,
              HeldIsPending, HeldOnce, MarkedWasDelivered,
              AnsweredWasDelivered, Current, UnusedIds, PushedWasDelivered
<1>4. ASSUME NEW t \in Flushers, BeginFlush(t) PROVE IInv'
  <2>1. Selected \subseteq {i \in Ids : status[i] = "PENDING"}
    BY DEF Selected
  <2>2. TypeOK'
    BY <1>4, <2>1 DEF BeginFlush
  <2>3. (OneFlusher /\ IdleIsEmpty)'
    BY <1>4 DEF BeginFlush, LockFree, OneFlusher, IdleIsEmpty
  <2>4. (HeldIsPending /\ HeldOnce)'
    BY <1>4, <2>1 DEF BeginFlush, LockFree, IdleIsEmpty, HeldIsPending, HeldOnce
  <2>5. (MarkedWasDelivered /\ AnsweredWasDelivered)'
    BY <1>4 DEF BeginFlush, LockFree, MarkedWasDelivered,
                AnsweredWasDelivered, Current
  <2>6. (UnusedIds /\ PushedWasDelivered)'
    BY <1>4 DEF BeginFlush, UnusedIds, PushedWasDelivered
  <2>. QED  BY <2>2, <2>3, <2>4, <2>5, <2>6
<1>5. ASSUME NEW t \in Flushers, Push(t) PROVE IInv'
  <2>1. PICK i \in Ids :
          /\ Current(t, i)
          /\ \/ /\ reachable
                /\ delivered' = [delivered EXCEPT ![i] = @ + 1]
                /\ ok' \in {[ok EXCEPT ![t] = TRUE], [ok EXCEPT ![t] = FALSE]}
             \/ /\ ~reachable
                /\ ok' = [ok EXCEPT ![t] = FALSE]
                /\ UNCHANGED delivered
    BY <1>5 DEF Push
  <2>2. UNCHANGED <<status, lastId, batch, markedOk, markedBad, reachable, faults>>
    BY <1>5 DEF Push
  <2>3. pc[t] = "push" /\ pc' = [pc EXCEPT ![t] = "mark"]
    BY <1>5 DEF Push
  <2>4. TypeOK'
    <3>1. ok' \in [Flushers -> BOOLEAN]
      <4>1. CASE ok' = [ok EXCEPT ![t] = TRUE]
        BY <4>1
      <4>2. CASE ok' = [ok EXCEPT ![t] = FALSE]
        BY <4>2
      <4>. QED  BY <2>1, <4>1, <4>2
    <3>2. delivered' \in [Ids -> Nat]
      <4>1. CASE delivered' = [delivered EXCEPT ![i] = @ + 1]
        BY <4>1
      <4>2. CASE UNCHANGED delivered
        BY <4>2
      <4>. QED  BY <2>1, <4>1, <4>2
    <3>. QED  BY <2>2, <2>3, <3>1, <3>2
  <2>5. \A j \in Ids : delivered'[j] >= delivered[j]
    BY <2>1
  <2>6. (OneFlusher /\ IdleIsEmpty)'
    BY <2>2, <2>3 DEF OneFlusher, IdleIsEmpty
  <2>7. (HeldIsPending /\ HeldOnce)'
    BY <2>2 DEF HeldIsPending, HeldOnce
  <2>8. (MarkedWasDelivered /\ UnusedIds /\ PushedWasDelivered)'
    BY <2>2, <2>5, <2>4 DEF MarkedWasDelivered, UnusedIds, PushedWasDelivered
  <2>9. AnsweredWasDelivered'
    <3> SUFFICES ASSUME NEW u \in Flushers, pc'[u] = "mark", ok'[u],
                        NEW j \in Ids, Current(u, j)'
                 PROVE  delivered'[j] > 0
      BY DEF AnsweredWasDelivered
    <3>1. u = t
      BY <2>3 DEF OneFlusher
    <3>2. j = i
      BY <2>1, <2>2, <3>1 DEF Current
    <3>. QED  BY <2>1, <3>1, <3>2
  <2>. QED  BY <2>4, <2>6, <2>7, <2>8, <2>9
<1>6. ASSUME NEW t \in Flushers, Mark(t) PROVE IInv'
  <2>1. PICK i \in Ids : Current(t, i) /\ Marked(t, i)
                         /\ batch' = [batch EXCEPT ![t] = @ \ {i}]
    BY <1>6 DEF Mark
  <2>2. UNCHANGED <<status, lastId, ok, delivered, reachable, faults>>
    BY <1>6 DEF Mark
  <2>3. pc[t] = "mark" /\ pc' = [pc EXCEPT ![t] = "push"]
    BY <1>6 DEF Mark
  <2>4. i \in batch[t]
    BY <2>1 DEF Current
  <2>5. TypeOK'
    <3>1. batch' \in [Flushers -> SUBSET Ids] /\ pc' \in [Flushers -> {"idle", "push", "mark"}]
      BY <2>1, <2>3
    <3>2. markedOk' \in [Flushers -> SUBSET Ids]
      <4>1. markedOk' = [markedOk EXCEPT ![t] = markedOk[t] \cup {i}] \/ markedOk' = markedOk
        BY <2>1 DEF Marked
      <4>2. markedOk \in [Flushers -> SUBSET Ids] /\ markedOk[t] \cup {i} \in SUBSET Ids
        OBVIOUS
      <4>. QED  BY ONLY <4>1, <4>2, t \in Flushers
    <3>3. markedBad' \in [Flushers -> SUBSET Ids]
      <4>1. markedBad' = [markedBad EXCEPT ![t] = markedBad[t] \cup {i}] \/ markedBad' = markedBad
        BY <2>1 DEF Marked
      <4>2. markedBad \in [Flushers -> SUBSET Ids] /\ markedBad[t] \cup {i} \in SUBSET Ids
        OBVIOUS
      <4>. QED  BY ONLY <4>1, <4>2, t \in Flushers
    <3>. QED  BY <2>2, <3>1, <3>2, <3>3
  <2>6. (OneFlusher /\ IdleIsEmpty)'
    BY <2>1, <2>3 DEF OneFlusher, IdleIsEmpty, Marked
  <2>7. HeldIsPending'
    BY <2>1, <2>2, <2>4 DEF HeldIsPending, Marked
  <2>8. HeldOnce'
    BY <2>1, <2>4 DEF HeldOnce, Marked
  <2>9. MarkedWasDelivered'
    BY <2>1, <2>2, <2>3 DEF MarkedWasDelivered, AnsweredWasDelivered, Marked
  <2>10. AnsweredWasDelivered'
    BY <2>2, <2>3 DEF AnsweredWasDelivered, OneFlusher
  <2>11. (UnusedIds /\ PushedWasDelivered)'
    BY <2>2 DEF UnusedIds, PushedWasDelivered
  <2>. QED  BY <2>5, <2>6, <2>7, <2>8, <2>9, <2>10, <2>11
<1>7. ASSUME NEW t \in Flushers, MarkError(t) PROVE IInv'
  <2>1. PICK i \in Ids : batch' = [batch EXCEPT ![t] = @ \ {i}]
    BY <1>7 DEF MarkError
  <2>2. /\ UNCHANGED <<status, lastId, ok, markedOk, markedBad, delivered, reachable>>
        /\ pc[t] = "mark"
        /\ pc' = [pc EXCEPT ![t] = "push"]
        /\ Fault
    BY <1>7 DEF MarkError
  <2>3. TypeOK'
    BY <2>1, <2>2 DEF Fault
  <2>4. (OneFlusher /\ IdleIsEmpty /\ HeldIsPending /\ HeldOnce)'
    BY <2>1, <2>2 DEF OneFlusher, IdleIsEmpty, HeldIsPending, HeldOnce
  <2>5. AnsweredWasDelivered'
    BY <2>2 DEF AnsweredWasDelivered, OneFlusher
  <2>6. (MarkedWasDelivered /\ UnusedIds /\ PushedWasDelivered)'
    BY <2>2 DEF MarkedWasDelivered, UnusedIds, PushedWasDelivered
  <2>. QED  BY <2>3, <2>4, <2>5, <2>6
<1>8. ASSUME NEW t \in Flushers, Commit(t) PROVE IInv'
  <2>1. /\ status' = Committed(t)
        /\ pc[t] = "push"
        /\ Release(t)
        /\ UNCHANGED <<lastId, delivered, reachable, faults>>
    BY <1>8 DEF Commit
  <2>2. TypeOK'
    BY <2>1 DEF Committed, Release
  <2>3. \A u \in Flushers : u # t => pc[u] = "idle"
    BY <2>1 DEF OneFlusher
  <2>4. (OneFlusher /\ IdleIsEmpty /\ HeldIsPending /\ HeldOnce)'
    BY <2>1, <2>3 DEF Release, OneFlusher, IdleIsEmpty, HeldIsPending, HeldOnce
  <2>5. (MarkedWasDelivered /\ AnsweredWasDelivered)'
    BY <2>1, <2>3 DEF Release, MarkedWasDelivered, AnsweredWasDelivered
  <2>6. UnusedIds'
    BY <2>1 DEF Committed, UnusedIds, HeldIsPending
  <2>7. PushedWasDelivered'
    BY <2>1 DEF Committed, PushedWasDelivered, MarkedWasDelivered
  <2>. QED  BY <2>2, <2>4, <2>5, <2>6, <2>7
<1>9. ASSUME NEW t \in Flushers, CommitError(t) PROVE IInv'
  <2>1. /\ pc[t] = "push"
        /\ Fault
        /\ Release(t)
        /\ UNCHANGED <<status, lastId, delivered, reachable>>
    BY <1>9 DEF CommitError
  <2>2. \A u \in Flushers : u # t => pc[u] = "idle"
    BY <2>1 DEF OneFlusher
  <2>3. TypeOK'
    BY <2>1 DEF Fault, Release
  <2>4. (OneFlusher /\ IdleIsEmpty /\ HeldIsPending /\ HeldOnce)'
    BY <2>1, <2>2 DEF Release, OneFlusher, IdleIsEmpty, HeldIsPending, HeldOnce
  <2>5. (MarkedWasDelivered /\ AnsweredWasDelivered /\ UnusedIds /\ PushedWasDelivered)'
    BY <2>1, <2>2 DEF Release, MarkedWasDelivered, AnsweredWasDelivered,
                      UnusedIds, PushedWasDelivered
  <2>. QED  BY <2>3, <2>4, <2>5
<1>10. CASE UNCHANGED vars
  BY <1>10 DEF vars, OneFlusher, IdleIsEmpty, HeldIsPending, HeldOnce,
               MarkedWasDelivered, AnsweredWasDelivered, Current, UnusedIds,
               PushedWasDelivered
<1>. QED
  BY <1>1, <1>2, <1>3, <1>4, <1>5, <1>6, <1>7, <1>8, <1>9, <1>10
     DEF Next, FlushStep

\* The invariant holds in every reachable state.
LEMMA Invariance == Spec => []IInv
  BY InitIInv, NextIInv, PTL DEF Spec

-----------------------------------------------------------------------------

\* The rows of the queue and the threads that flush it keep their types.
THEOREM TypeCorrect == Spec => []TypeOK
<1>1. IInv => TypeOK
  BY DEF IInv
<1>. QED  BY <1>1, Invariance, PTL

\* flush_queue marks a row PUSHED only after the endpoint took it, whatever
\* crash or SQLite error comes in between.
THEOREM PushedWasDeliveredThm == Spec => []PushedWasDelivered
<1>1. IInv => PushedWasDelivered
  BY DEF IInv
<1>. QED  BY <1>1, Invariance, PTL

\* A row marked PUSHED is never sent or changed again.
THEOREM PushedIsFinalThm == Spec => PushedIsFinal
<1>1. ASSUME IInv, [Next]_vars, NEW i \in Ids, status[i] = "PUSHED"
      PROVE  status'[i] = "PUSHED" /\ delivered'[i] = delivered[i]
  <2> USE <1>1, QueueAssumption DEF IInv, TypeOK, Ids
  <2>1. CASE QueueEvent
    BY <2>1 DEF QueueEvent, UnusedIds
  <2>2. ASSUME NEW t \in Flushers, Push(t)
        PROVE  status'[i] = "PUSHED" /\ delivered'[i] = delivered[i]
    BY <2>2 DEF Push, Current, HeldIsPending
  <2>3. ASSUME NEW t \in Flushers, Commit(t)
        PROVE  status'[i] = "PUSHED" /\ delivered'[i] = delivered[i]
    BY <2>3 DEF Commit, Committed, HeldIsPending
  <2>4. ASSUME NEW t \in Flushers,
               BeginFlush(t) \/ Mark(t) \/ MarkError(t) \/ CommitError(t)
        PROVE  status'[i] = "PUSHED" /\ delivered'[i] = delivered[i]
    BY <2>4 DEF BeginFlush, Mark, MarkError, CommitError
  <2>5. CASE Crash \/ NetworkChange \/ UNCHANGED vars
    BY <2>5 DEF Crash, NetworkChange, vars
  <2>. QED  BY <2>1, <2>2, <2>3, <2>4, <2>5 DEF Next, FlushStep
<1>2. IInv /\ [Next]_vars => [KeepsPushed]_vars
  BY <1>1 DEF KeepsPushed
<1>. QED  BY <1>2, Invariance, PTL DEF Spec, PushedIsFinal

-----------------------------------------------------------------------------
(* Duplicates.  A PENDING row that no open flush has attempted has at most *)
(* one copy per fault: to become unattempted again after it was sent, the  *)
(* flush that sent it must have lost its mark to a fault.                  *)

Attempted(t, i) == \/ i \in markedOk[t] \cup markedBad[t]
                   \/ pc[t] = "mark" /\ Current(t, i)

DupInv ==
    \A i \in Ids :
        /\ delivered[i] <= 1 + faults
        /\ status[i] = "ABSENT" => delivered[i] = 0
        /\ status[i] = "PENDING" /\ (\A t \in Flushers : ~Attempted(t, i))
              => delivered[i] <= faults

\* The bound on duplicates is preserved by every step.
LEMMA NextDupInv == IInv /\ DupInv /\ [Next]_vars => DupInv'
<1> USE QueueAssumption DEF Ids, Status, IInv, TypeOK
<1> SUFFICES ASSUME IInv, DupInv, [Next]_vars, NEW i \in Ids
             PROVE  /\ delivered'[i] <= 1 + faults'
                    /\ status'[i] = "ABSENT" => delivered'[i] = 0
                    /\ status'[i] = "PENDING"
                         /\ (\A t \in Flushers : ~Attempted(t, i)')
                         => delivered'[i] <= faults'
  BY DEF DupInv
<1> DEFINE Goal == /\ delivered'[i] <= 1 + faults'
                   /\ status'[i] = "ABSENT" => delivered'[i] = 0
                   /\ status'[i] = "PENDING"
                        /\ (\A t \in Flushers : ~Attempted(t, i)')
                        => delivered'[i] <= faults'
<1>1. CASE QueueEvent
  BY <1>1 DEF QueueEvent, flushVars, DupInv, UnusedIds, Attempted, Current,
              LockFree, IdleIsEmpty
<1>2. CASE Crash
  BY <1>2 DEF Crash, Fault, DupInv
<1>3. CASE NetworkChange
  BY <1>3 DEF NetworkChange, flushVars, DupInv, Attempted, Current
<1>4. ASSUME NEW t \in Flushers, BeginFlush(t) PROVE Goal
  BY <1>4 DEF BeginFlush, LockFree, IdleIsEmpty, DupInv, Attempted, Current
<1>5. ASSUME NEW t \in Flushers, Push(t) PROVE Goal
  <2>1. PICK j \in Ids :
          /\ Current(t, j)
          /\ \/ delivered' = [delivered EXCEPT ![j] = @ + 1]
             \/ UNCHANGED delivered
    BY <1>5 DEF Push
  <2>2. /\ UNCHANGED <<status, lastId, batch, markedOk, markedBad, reachable, faults>>
        /\ pc[t] = "push"
        /\ pc' = [pc EXCEPT ![t] = "mark"]
    BY <1>5 DEF Push
  <2>3. status[j] = "PENDING"
    BY <2>1 DEF Current, HeldIsPending
  <2>4. \A u \in Flushers : ~Attempted(u, j)
    <3>1. ~Attempted(t, j)
      BY <2>1, <2>2 DEF Attempted, HeldOnce, Current
    <3>2. ASSUME NEW u \in Flushers, u # t PROVE ~Attempted(u, j)
      BY <2>2, <3>2 DEF Attempted, OneFlusher, IdleIsEmpty
    <3>. QED  BY <3>1, <3>2
  <2>5. delivered[j] <= faults
    BY <2>3, <2>4 DEF DupInv
  <2>6. Attempted(t, j)'
    BY <2>1, <2>2 DEF Attempted, Current
  <2>7. CASE i = j
    <3>1. delivered'[j] <= delivered[j] + 1 /\ delivered'[j] \in Nat
      BY <2>1
    <3>. QED  BY <2>2, <2>3, <2>5, <2>6, <2>7, <3>1
  <2>8. CASE i # j
    <3>1. delivered'[i] = delivered[i]
      BY <2>1, <2>8
    <3>2. \A u \in Flushers : Attempted(u, i) => Attempted(u, i)'
      BY <2>2 DEF Attempted, Current
    <3>. QED  BY <2>2, <3>1, <3>2 DEF DupInv
  <2>. QED  BY <2>7, <2>8
<1>6. ASSUME NEW t \in Flushers, Mark(t) PROVE Goal
  <2>1. PICK j \in Ids : Current(t, j) /\ Marked(t, j)
                         /\ batch' = [batch EXCEPT ![t] = @ \ {j}]
    BY <1>6 DEF Mark
  <2>2. /\ UNCHANGED <<status, lastId, ok, delivered, reachable, faults>>
        /\ pc[t] = "mark"
        /\ pc' = [pc EXCEPT ![t] = "push"]
    BY <1>6 DEF Mark
  <2>3. \A u \in Flushers : Attempted(u, i) => Attempted(u, i)'
    <3> SUFFICES ASSUME NEW u \in Flushers, Attempted(u, i)
                 PROVE  Attempted(u, i)'
      OBVIOUS
    <3>1. \A v \in Flushers : /\ markedOk[v] \subseteq markedOk'[v]
                              /\ markedBad[v] \subseteq markedBad'[v]
      <4>1. /\ markedOk' = [markedOk EXCEPT ![t] = @ \cup {j}] \/ markedOk' = markedOk
            /\ markedBad' = [markedBad EXCEPT ![t] = @ \cup {j}] \/ markedBad' = markedBad
        BY <2>1 DEF Marked
      <4>2. \A v \in Flushers : markedOk[v] \subseteq markedOk'[v]
        BY <4>1
      <4>3. \A v \in Flushers : markedBad[v] \subseteq markedBad'[v]
        BY <4>1
      <4>. QED  BY <4>2, <4>3
    <3>2. CASE i \in markedOk[u] \cup markedBad[u]
      BY <3>1, <3>2 DEF Attempted
    <3>3. CASE pc[u] = "mark" /\ Current(u, i)
      <4>1. u = t
        BY <2>2, <3>3 DEF OneFlusher
      <4>2. i = j
        BY <2>1, <3>3, <4>1 DEF Current
      <4>3. j \in markedOk'[t] \cup markedBad'[t]
        BY <2>1 DEF Marked
      <4>. QED  BY <4>1, <4>2, <4>3 DEF Attempted
    <3>. QED  BY <3>2, <3>3 DEF Attempted
  <2>. QED  BY <2>2, <2>3 DEF DupInv
<1>7. ASSUME NEW t \in Flushers, MarkError(t) PROVE Goal
  BY <1>7 DEF MarkError, Fault, DupInv
<1>8. ASSUME NEW t \in Flushers, Commit(t) PROVE Goal
  <2>1. /\ status' = Committed(t)
        /\ UNCHANGED <<delivered, faults>>
        /\ pc[t] = "push"
        /\ Release(t)
    BY <1>8 DEF Commit
  <2>2. status'[i] = "ABSENT" => status[i] = "ABSENT"
    BY <2>1 DEF Committed
  <2>3. ASSUME status'[i] = "PENDING"
        PROVE  \A u \in Flushers : ~Attempted(u, i)
    <3>1. i \notin markedOk[t] \cup markedBad[t] /\ status[i] = "PENDING"
      BY <2>1, <2>3 DEF Committed
    <3>2. ASSUME NEW u \in Flushers, u # t PROVE ~Attempted(u, i)
      BY <2>1, <3>2 DEF Attempted, OneFlusher, IdleIsEmpty
    <3>. QED  BY <2>1, <3>1, <3>2 DEF Attempted
  <2>4. status'[i] = "PENDING" => status[i] = "PENDING"
    BY <2>1 DEF Committed
  <2>. QED  BY <2>1, <2>2, <2>3, <2>4 DEF DupInv
<1>9. ASSUME NEW t \in Flushers, CommitError(t) PROVE Goal
  BY <1>9 DEF CommitError, Fault, DupInv
<1>10. CASE UNCHANGED vars
  BY <1>10 DEF vars, DupInv, Attempted, Current
<1>. QED
  BY <1>1, <1>2, <1>3, <1>4, <1>5, <1>6, <1>7, <1>8, <1>9, <1>10
     DEF Next, FlushStep

\* However many threads flush at once, an event is delivered at most once
\* more than there were crashes and SQLite errors.
THEOREM DuplicatesNeedFaultsThm == Spec => []DuplicatesNeedFaults
<1>1. Init => DupInv
  BY QueueAssumption DEF Init, DupInv, Ids
<1>2. DupInv => DuplicatesNeedFaults
  BY DEF DupInv, DuplicatesNeedFaults
<1>. QED  BY <1>1, <1>2, NextDupInv, Invariance, PTL DEF Spec

-----------------------------------------------------------------------------
(* Order.  Without faults, whatever was touched has only handled rows      *)
(* before it, and a flush has before a row of its batch only handled rows  *)
(* and rows that are still in the batch.                                   *)

Handled(i) == \/ status[i] \in {"PUSHED", "FAILED"}
              \/ \E t \in Flushers : i \in markedOk[t] \cup markedBad[t]

Touched(i) == delivered[i] > 0 \/ Handled(i)

OrderInv ==
    faults = 0 =>
        /\ \A i, j \in Ids : i < j /\ Touched(j) => Handled(i)
        /\ \A t \in Flushers : \A j \in batch[t] : \A i \in Ids :
             i < j => i \in batch[t] \/ Handled(i)

\* A batch is a prefix of the rows that are PENDING.
LEMMA SelectedIsPrefix ==
  ASSUME TypeOK, NEW j \in Selected, NEW i \in Ids, i < j, status[i] = "PENDING"
  PROVE  i \in Selected
<1> DEFINE pending == {k \in Ids : status[k] = "PENDING"}
           upTo(n) == {k \in pending : k <= n}
<1>1. j \in pending /\ Cardinality(upTo(j)) <= BatchLimit
  BY DEF Selected
<1>2. i \in pending /\ upTo(i) \in SUBSET upTo(j)
  BY <1>1, SMT DEF Ids
<1>3. IsFiniteSet(upTo(j))
  <2>1. IsFiniteSet(Ids)
    BY QueueAssumption, FS_Interval DEF Ids
  <2>2. upTo(j) \in SUBSET Ids
    OBVIOUS
  <2>. QED  BY <2>1, <2>2, FS_Subset
<1>4. /\ Cardinality(upTo(i)) <= Cardinality(upTo(j))
      /\ Cardinality(upTo(i)) \in Nat /\ Cardinality(upTo(j)) \in Nat
  <2> HIDE DEF upTo
  <2>. QED  BY <1>2, <1>3, FS_Subset, FS_CardinalityType
<1>5. Cardinality(upTo(i)) <= BatchLimit
  <2> HIDE DEF upTo
  <2>. QED  BY <1>1, <1>4, QueueAssumption, SMT
<1>. QED  BY <1>2, <1>5 DEF Selected

\* The order is preserved by every step.
LEMMA NextOrderInv == IInv /\ OrderInv /\ [Next]_vars => OrderInv'
<1> SUFFICES ASSUME IInv, OrderInv, [Next]_vars, faults' = 0
             PROVE  /\ \A i, j \in Ids : i < j /\ Touched(j)' => Handled(i)'
                    /\ \A t \in Flushers : \A j \in batch'[t] : \A i \in Ids :
                         i < j => i \in batch'[t] \/ Handled(i)'
  BY DEF OrderInv
<1>. DEFINE Goal == /\ \A i, j \in Ids : i < j /\ Touched(j)' => Handled(i)'
                    /\ \A t \in Flushers : \A j \in batch'[t] : \A i \in Ids :
                         i < j => i \in batch'[t] \/ Handled(i)'
<1>. USE QueueAssumption DEF Ids, Status, IInv, TypeOK
<1>1. faults = 0 /\ ~Fault
  BY DEF Next, FlushStep, Fault, vars, QueueEvent, Crash, NetworkChange, BeginFlush, Push, Mark,
         MarkError, Commit, CommitError
<1>2. /\ \A i, j \in Ids : i < j /\ Touched(j) => Handled(i)
      /\ \A t \in Flushers : \A j \in batch[t] : \A i \in Ids :
           i < j => i \in batch[t] \/ Handled(i)
  BY <1>1 DEF OrderInv
<1>3. CASE QueueEvent
  <2>1. \A i \in Ids : (Touched(i)' <=> Touched(i)) /\ (Handled(i)' <=> Handled(i))
    BY <1>3 DEF QueueEvent, flushVars, UnusedIds, Touched, Handled
  <2>2. UNCHANGED batch
    BY <1>3 DEF QueueEvent, flushVars
  <2>. QED  BY <1>2, <2>1, <2>2
<1>4. CASE NetworkChange \/ UNCHANGED vars
  BY <1>2, <1>4 DEF NetworkChange, flushVars, vars, Touched, Handled
<1>5. ASSUME NEW t \in Flushers, BeginFlush(t) PROVE Goal
  <2>1. \A i \in Ids : (Touched(i)' <=> Touched(i)) /\ (Handled(i)' <=> Handled(i))
    BY <1>5 DEF BeginFlush, Touched, Handled
  <2>2. batch' = [batch EXCEPT ![t] = Selected]
    BY <1>5 DEF BeginFlush
  <2>3. ASSUME NEW j \in Selected, NEW i \in Ids, i < j
        PROVE  i \in Selected \/ Handled(i)
    <3>1. j \in Ids /\ status[j] = "PENDING"
      BY DEF Selected
    <3>2. status[i] # "ABSENT"
      BY <2>3, <3>1 DEF UnusedIds
    <3>. QED  BY <2>3, <3>2, SelectedIsPrefix DEF Handled
  <2>. QED  BY <1>2, <2>1, <2>2, <2>3
<1>6. ASSUME NEW t \in Flushers, Push(t) PROVE Goal
  <2>1. PICK k \in Ids : Current(t, k) /\ \A i \in Ids : i # k => delivered'[i] = delivered[i]
    BY <1>6 DEF Push
  <2>2. \A i \in Ids : Handled(i)' <=> Handled(i)
    BY <1>6 DEF Push, Handled
  <2>3. \A i \in Ids : i < k => Handled(i)
    BY <1>2, <2>1 DEF Current
  <2>4. \A j \in Ids : Touched(j)' => Touched(j) \/ j = k
    BY <2>1, <2>2 DEF Touched
  <2>5. UNCHANGED batch
    BY <1>6 DEF Push
  <2>. QED  BY <1>2, <2>2, <2>3, <2>4, <2>5
<1>7. ASSUME NEW t \in Flushers, Mark(t) PROVE Goal
  <2>1. PICK k \in Ids : /\ Current(t, k) /\ Marked(t, k)
                         /\ batch' = [batch EXCEPT ![t] = @ \ {k}]
    BY <1>7 DEF Mark
  <2>2. \A i \in Ids : Handled(i)' <=> Handled(i) \/ i = k
    <3>1. /\ UNCHANGED status
          /\ \/ markedOk' = [markedOk EXCEPT ![t] = @ \cup {k}] /\ UNCHANGED markedBad
             \/ markedBad' = [markedBad EXCEPT ![t] = @ \cup {k}] /\ UNCHANGED markedOk
      BY <1>7, <2>1, Zenon DEF Mark, Marked
    <3>2. CASE markedOk' = [markedOk EXCEPT ![t] = @ \cup {k}] /\ UNCHANGED markedBad
      BY <3>1, <3>2 DEF Handled
    <3>3. CASE markedBad' = [markedBad EXCEPT ![t] = @ \cup {k}] /\ UNCHANGED markedOk
      BY <3>1, <3>3 DEF Handled
    <3>. QED  BY <3>1, <3>2, <3>3
  <2>3. \A i \in Ids : i < k => Handled(i)
    BY <1>2, <2>1 DEF Current
  <2>4. \A j \in Ids : Touched(j)' => Touched(j) \/ j = k
    BY <1>7, <2>2 DEF Mark, Touched
  <2>. QED  BY <1>2, <2>1, <2>2, <2>3, <2>4
<1>8. ASSUME NEW t \in Flushers, Commit(t) PROVE Goal
  <2>1. \A u \in Flushers : u # t => markedOk[u] = {} /\ markedBad[u] = {} /\ batch[u] = {}
    BY <1>8 DEF Commit, OneFlusher, IdleIsEmpty
  <2>2. \A i \in Ids : Handled(i)' <=> Handled(i)
    BY <1>8, <2>1 DEF Commit, Committed, Release, Handled
  <2>3. \A j \in Ids : Touched(j)' <=> Touched(j)
    BY <1>8, <2>2 DEF Commit, Touched
  <2>4. \A u \in Flushers : batch'[u] = {}
    BY <1>8, <2>1 DEF Commit, Release
  <2>. QED  BY <1>2, <2>2, <2>3, <2>4
<1>9. ~Crash /\ \A t \in Flushers : ~MarkError(t) /\ ~CommitError(t)
  BY <1>1 DEF Crash, MarkError, CommitError
<1>. QED  BY <1>3, <1>4, <1>5, <1>6, <1>7, <1>8, <1>9 DEF Next, FlushStep

\* While nothing crashes and SQLite raises no error, flush_queue attempts the
\* rows in the order of their ids, whatever threads run it and however small its
\* batches are (ORDER BY id, LIMIT max_events, under _push_lock).
THEOREM NoOvertakingThm == Spec => []NoOvertaking
<1>1. Init => OrderInv
  BY QueueAssumption DEF Init, OrderInv, Touched, Handled, Ids
<1>2. OrderInv => NoOvertaking
  BY DEF OrderInv, NoOvertaking, Touched, Handled
<1>. QED  BY <1>1, <1>2, NextOrderInv, Invariance, PTL DEF Spec

-----------------------------------------------------------------------------
(* Refinement.                                                             *)

\* The initial states are initial states of the outbox.
LEMMA RefinesInit == Init => Abstract!Init
  BY DEF Init, Abstract!Init, Phase

\* Each step of the queue is an outbox step or leaves the outbox unchanged.
LEMMA RefinesNext ==
    IInv /\ IInv' /\ [Next]_vars => [Abstract!Next]_(Abstract!vars)
<1> USE QueueAssumption DEF Ids, Status, IInv, TypeOK
<1> SUFFICES ASSUME IInv, IInv', [Next]_vars
             PROVE  Abstract!Next \/ UNCHANGED Abstract!vars
  OBVIOUS
<1>1. CASE QueueEvent
  <2>1. lastId + 1 \in Ids
    BY <1>1 DEF QueueEvent
  <2>2. status[lastId + 1] = "ABSENT"
    BY <2>1 DEF UnusedIds
  <2>3. \A i \in Ids : status'[i] = IF i = lastId + 1 THEN "PENDING" ELSE status[i]
    BY <1>1 DEF QueueEvent
  <2>4. Abstract!Enqueue(lastId + 1)
    BY <1>1, <2>1, <2>2, <2>3 DEF QueueEvent, Abstract!Enqueue, Phase
  <2>. QED  BY <2>1, <2>4 DEF Abstract!Next
<1>2. ASSUME NEW t \in Flushers, Push(t)
      PROVE  Abstract!Next \/ UNCHANGED Abstract!vars
  <2>1. PICK j \in Ids :
          /\ Current(t, j)
          /\ \/ delivered' = [delivered EXCEPT ![j] = @ + 1]
             \/ UNCHANGED delivered
    BY <1>2 DEF Push
  <2>2. UNCHANGED status
    BY <1>2 DEF Push
  <2>3. CASE UNCHANGED delivered
    BY <2>2, <2>3 DEF Abstract!vars
  <2>4. CASE delivered' = [delivered EXCEPT ![j] = @ + 1]
    <3>1. status[j] = "PENDING"
      BY <2>1 DEF Current, HeldIsPending
    <3>2. Abstract!Send(j)
      BY <2>2, <2>4, <3>1 DEF Abstract!Send, Abstract!Open, Phase
    <3>. QED  BY <3>2 DEF Abstract!Next
  <2>. QED  BY <2>1, <2>3, <2>4
<1>3. ASSUME NEW t \in Flushers, Commit(t)
      PROVE  Abstract!Next
  <2>1. status' = Committed(t) /\ UNCHANGED delivered
    BY <1>3 DEF Commit
  <2>2. Abstract!Settle(markedOk[t], markedBad[t])
    <3>1. \A i \in markedOk[t] \cup markedBad[t] : status[i] = "PENDING"
      BY DEF HeldIsPending
    <3>2. \A i \in markedOk[t] : delivered[i] > 0
      BY DEF MarkedWasDelivered
    <3>3. markedOk[t] \cap markedBad[t] = {}
      BY DEF HeldOnce
    <3>4. markedOk[t] \subseteq Ids /\ markedBad[t] \subseteq Ids
      OBVIOUS
    <3>. QED  BY <2>1, <3>1, <3>2, <3>3, <3>4
              DEF Abstract!Settle, Abstract!Open, Phase, Committed
  <2>. QED  BY <2>2 DEF Abstract!Next
<1>4. ASSUME NEW t \in Flushers,
             BeginFlush(t) \/ Mark(t) \/ MarkError(t) \/ CommitError(t)
      PROVE  UNCHANGED Abstract!vars
  BY <1>4 DEF BeginFlush, Mark, MarkError, CommitError, Abstract!vars
<1>5. CASE Crash \/ NetworkChange \/ UNCHANGED vars
  BY <1>5 DEF Crash, NetworkChange, vars, Abstract!vars
<1>. QED  BY <1>1, <1>2, <1>3, <1>4, <1>5 DEF Next, FlushStep

\* The queue is an at-least-once outbox.
THEOREM ImplementsOutboxThm == Spec => ImplementsOutbox
<1>1. Spec => Abstract!Init /\ [][Abstract!Next]_(Abstract!vars)
  BY RefinesInit, RefinesNext, Invariance, PTL DEF Spec
<1>. QED  BY <1>1 DEF ImplementsOutbox, Abstract!Spec
=============================================================================
