--------------------------- MODULE FaceCacheProofs ---------------------------
(***************************************************************************)
(* Theorems about FaceCache, for every number of users, threads,           *)
(* embeddings and faults.  The inductive invariant IInv says that whoever  *)
(* is in the cache, in the hands of a sync or an adaptive enrolment, or    *)
(* among the candidates of a login, could log in with PostgreSQL once.     *)
(***************************************************************************)
EXTENDS FaceCache, TLAPS

StoredOnce == Stored \subseteq once

CachedOnce == Cached \subseteq once

HeldOnce == \A t \in Threads, u \in Users : held[t][u] # 0 => u \in once

\* PostgreSQL fails over the first row without an embedding, or at once.
FoundOnce ==
    \A t \in Threads : found[t] = << >> \/ \E u \in once : found[t] = <<u>>

Answered ==
    /\ GrantWasEntitled
    /\ OnlineGrantWasCurrent
    /\ AmbiguousGrantNeedsPartialRead

IInv ==
    /\ TypeOK
    /\ StoredOnce
    /\ CachedOnce
    /\ HeldOnce
    /\ FoundOnce
    /\ Answered

-----------------------------------------------------------------------------

\* The two best of a set are at most two of its members.
LEMMA TopTwoShape ==
    ASSUME NEW S, NEW m, NEW q \in TopTwo(S, m)
    PROVE  \/ q = << >>
           \/ \E u \in S : q = <<u>>
           \/ \E u, v \in S : q = <<u, v>>
<1>1. CASE S = {}
  BY <1>1 DEF TopTwo
<1>2. CASE S # {}
  <2>1. PICK u \in Best(S, m) :
          q \in IF S = {u} THEN {<<u>>} ELSE {<<u, v>> : v \in Best(S \ {u}, m)}
    BY <1>2 DEF TopTwo
  <2>2. u \in S
    BY <2>1 DEF Best
  <2>3. Best(S \ {u}, m) \subseteq S
    BY DEF Best
  <2>. QED  BY <2>1, <2>2, <2>3
<1>. QED  BY <1>1, <1>2

\* A set of one has one candidate to offer.
LEMMA TopOneShape ==
    ASSUME NEW S, NEW m, NEW q \in TopTwo(S, m), \A u, v \in S : u = v
    PROVE  q = << >> \/ \E u \in S : q = <<u>>
<1>1. CASE S = {}
  BY <1>1 DEF TopTwo
<1>2. CASE S # {}
  <2>1. PICK u \in Best(S, m) :
          q \in IF S = {u} THEN {<<u>>} ELSE {<<u, v>> : v \in Best(S \ {u}, m)}
    BY <1>2 DEF TopTwo
  <2>2. S = {u}
    BY <2>1 DEF Best
  <2>. QED  BY <2>1, <2>2
<1>. QED  BY <1>1, <1>2

\* Without an answer there is nothing to show of it.
LEMMA NoMatchAnswered ==
    ASSUME answer' = NoMatch
    PROVE  Answered' /\ answer' \in Answers
BY DEF NoMatch, Answered, Answers, GrantWasEntitled, OnlineGrantWasCurrent,
       AmbiguousGrantNeedsPartialRead

-----------------------------------------------------------------------------

\* Empty databases and idle threads.
LEMMA InitIInv == Init => IInv
<1> SUFFICES ASSUME Init PROVE IInv
  OBVIOUS
<1>1. TypeOK
  BY FaceCacheAssumption
     DEF Init, TypeOK, Rows, Versions, NoRows, NoMatch, Answers
<1>2. StoredOnce /\ CachedOnce /\ HeldOnce /\ FoundOnce
  BY DEF Init, StoredOnce, Stored, Registered, CachedOnce, Cached, HeldOnce,
         FoundOnce, NoRows
<1>3. Answered
  BY DEF Init, NoMatch, Answered, GrantWasEntitled, OnlineGrantWasCurrent,
         AmbiguousGrantNeedsPartialRead
<1>. QED  BY <1>1, <1>2, <1>3 DEF IInv

\* A change of a row of users: who can log in afterwards is recorded.
LEMMA SetRowIInv ==
    ASSUME IInv, NEW u \in Users, NEW row \in Rows, SetRow(u, row)
    PROVE  /\ db' \in [Users -> Rows] /\ once' \subseteq Users
           /\ once \subseteq once' /\ StoredOnce'
<1>1. db' = [db EXCEPT ![u] = row] /\ db \in [Users -> Rows] /\ once \subseteq Users
  BY DEF SetRow, IInv, TypeOK
<1>2. /\ db' \in [Users -> Rows]
      /\ db'[u] = row /\ \A v \in Users \ {u} : db'[v] = db[v]
  BY <1>1
<1>3. once' = IF row.reg /\ row.active /\ row.emb # 0 THEN once \cup {u} ELSE once
  BY DEF SetRow
<1>4. once \subseteq once' /\ once' \subseteq Users
  BY <1>1, <1>3
<1>5. ASSUME NEW v \in Users, db'[v].reg, db'[v].active, db'[v].emb # 0
      PROVE  v \in once'
  <2>1. CASE v = u
    BY <1>2, <1>3, <1>5, <2>1
  <2>2. CASE v # u
    BY <1>2, <1>4, <1>5, <2>2 DEF IInv, StoredOnce, Stored, Registered
  <2>. QED  BY <2>1, <2>2
<1>6. StoredOnce'
  BY <1>5 DEF StoredOnce, Stored, Registered
<1>. QED  BY <1>2, <1>4, <1>6

\* The invariant from its parts, for the steps that touch users only.
LEMMA RowStepIInv ==
    ASSUME IInv, NEW u \in Users, NEW row \in Rows, SetRow(u, row),
           version' \in Versions, NoAnswer,
           UNCHANGED <<dbUp, cache, pc, held, alike, found, faults>>
    PROVE  IInv'
<1>1. /\ db' \in [Users -> Rows] /\ once' \subseteq Users
      /\ once \subseteq once' /\ StoredOnce'
  BY SetRowIInv
<1>2. Answered' /\ answer' \in Answers
  BY NoMatchAnswered DEF NoAnswer
<1>3. TypeOK'
  BY <1>1, <1>2 DEF IInv, TypeOK
<1>4. (CachedOnce /\ HeldOnce /\ FoundOnce)'
  BY <1>1 DEF IInv, CachedOnce, Cached, HeldOnce, FoundOnce
<1>. QED  BY <1>1, <1>2, <1>3, <1>4 DEF IInv

\* A thread that is done holds nothing any more.
LEMMA FinishHolds ==
    ASSUME IInv, NEW t \in Threads, Finish(t), once \subseteq once'
    PROVE  /\ pc' \in [Threads -> {"idle", "sync_write", "login_cache", "adaptive_db"}]
           /\ held' \in [Threads -> [Users -> Versions]]
           /\ alike' \in [Threads -> SUBSET Users]
           /\ found' \in [Threads -> Seq(Users)]
           /\ HeldOnce' /\ FoundOnce'
<1>1. NoRows \in [Users -> Versions]
  BY FaceCacheAssumption DEF NoRows, Versions
<1>2. /\ pc' \in [Threads -> {"idle", "sync_write", "login_cache", "adaptive_db"}]
      /\ held' \in [Threads -> [Users -> Versions]]
      /\ alike' \in [Threads -> SUBSET Users]
      /\ found' \in [Threads -> Seq(Users)]
  BY <1>1 DEF Finish, IInv, TypeOK
<1>3. /\ held'[t] = NoRows /\ \A s \in Threads \ {t} : held'[s] = held[s]
      /\ found'[t] = << >> /\ \A s \in Threads \ {t} : found'[s] = found[s]
  BY DEF Finish, IInv, TypeOK
<1>4. HeldOnce'
  BY <1>3 DEF IInv, HeldOnce, NoRows
<1>5. FoundOnce'
  BY <1>3 DEF IInv, FoundOnce
<1>. QED  BY <1>2, <1>4, <1>5

-----------------------------------------------------------------------------

LEMMA UsersStepIInv ==
    ASSUME IInv, NEW u \in Users,
           RegisterCreate(u) \/ Enroll(u) \/ Revoke(u) \/ Remove(u)
    PROVE  IInv'
<1>1. db[u] \in Rows /\ version \in Versions /\ MaxVersions \in Nat
  BY FaceCacheAssumption DEF IInv, TypeOK
<1>2. CASE RegisterCreate(u)
  <2>1. [db[u] EXCEPT !.reg = TRUE] \in Rows
    BY <1>1 DEF Rows
  <2>. QED  BY <1>1, <1>2, <2>1, RowStepIInv DEF RegisterCreate, threadVars
<1>3. CASE Enroll(u)
  <2>1. version + 1 \in Versions
    BY <1>1, <1>3 DEF Enroll, Versions
  <2>2. [db[u] EXCEPT !.emb = version + 1, !.reg = TRUE] \in Rows
    BY <1>1, <2>1 DEF Rows
  <2>. QED  BY <1>3, <2>1, <2>2, RowStepIInv DEF Enroll, threadVars
<1>4. CASE Revoke(u)
  <2>1. 0 \in Versions
    BY FaceCacheAssumption DEF Versions
  <2>2. [db[u] EXCEPT !.emb = 0, !.reg = FALSE] \in Rows
    BY <1>1, <2>1 DEF Rows
  <2>. QED  BY <1>1, <1>4, <2>2, RowStepIInv DEF Revoke, threadVars
<1>5. CASE Remove(u)
  <2>1. [db[u] EXCEPT !.active = FALSE] \in Rows
    BY <1>1 DEF Rows
  <2>. QED  BY <1>1, <1>5, <2>1, RowStepIInv DEF Remove, threadVars
<1>. QED  BY <1>2, <1>3, <1>4, <1>5

\* The link, a restart, and a stuttering step.
LEMMA QuietStepIInv ==
    ASSUME IInv, LinkChange \/ Crash \/ UNCHANGED vars
    PROVE  IInv'
<1>1. CASE LinkChange
  <2>1. Answered' /\ answer' \in Answers
    BY <1>1, NoMatchAnswered DEF LinkChange, NoAnswer
  <2>2. TypeOK'
    BY <1>1, <2>1 DEF LinkChange, threadVars, IInv, TypeOK
  <2>3. (StoredOnce /\ CachedOnce /\ HeldOnce /\ FoundOnce)'
    BY <1>1 DEF LinkChange, threadVars, IInv, StoredOnce, Stored, Registered,
                CachedOnce, Cached, HeldOnce, FoundOnce
  <2>. QED  BY <2>1, <2>2, <2>3 DEF IInv
<1>2. CASE Crash
  <2>1. Answered' /\ answer' \in Answers
    BY <1>2, NoMatchAnswered DEF Crash, NoAnswer
  <2>2. NoRows \in [Users -> Versions] /\ faults' \in Nat
    BY <1>2, FaceCacheAssumption DEF NoRows, Versions, Crash, Fault, IInv, TypeOK
  <2>3. TypeOK'
    BY <1>2, <2>1, <2>2 DEF Crash, IInv, TypeOK
  <2>4. (StoredOnce /\ CachedOnce)'
    BY <1>2 DEF Crash, IInv, StoredOnce, Stored, Registered, CachedOnce, Cached
  <2>5. (HeldOnce /\ FoundOnce)'
    BY <1>2 DEF Crash, HeldOnce, FoundOnce, NoRows
  <2>. QED  BY <2>1, <2>3, <2>4, <2>5 DEF IInv
<1>3. CASE UNCHANGED vars
  <2>1. UNCHANGED <<db, dbUp, cache, version, pc, held, alike, found, answer, once, faults>>
    BY <1>3 DEF vars, threadVars
  <2>. QED
    BY <2>1 DEF IInv, TypeOK, StoredOnce, Stored, Registered, CachedOnce, Cached,
                HeldOnce, FoundOnce, Answered, GrantWasEntitled,
                OnlineGrantWasCurrent, AmbiguousGrantNeedsPartialRead
<1>. QED  BY <1>1, <1>2, <1>3

\* A sync fetches users who can log in, and merges them into the cache.
LEMMA SyncIInv ==
    ASSUME IInv, NEW t \in Threads, SyncRead(t) \/ SyncWrite(t) \/ SyncError(t)
    PROVE  IInv'
<1>1. Answered' /\ answer' \in Answers
  BY NoMatchAnswered DEF SyncRead, SyncWrite, SyncError, NoAnswer
<1>2. CASE SyncRead(t)
  <2> DEFINE rows == [u \in Users |-> IF u \in Stored THEN db[u].emb ELSE 0]
  <2>1. rows \in [Users -> Versions]
    BY FaceCacheAssumption DEF IInv, TypeOK, Rows, Versions, Stored, Registered
  <2>2. /\ held' = [held EXCEPT ![t] = rows] /\ pc' = [pc EXCEPT ![t] = "sync_write"]
        /\ UNCHANGED <<db, dbUp, cache, version, alike, found, once, faults>>
    BY <1>2 DEF SyncRead
  <2>3. \A u \in Users : rows[u] # 0 => u \in once
    BY DEF IInv, StoredOnce
  <2>. HIDE DEF rows
  <2>4. TypeOK'
    BY <1>1, <2>1, <2>2 DEF IInv, TypeOK
  <2>5. HeldOnce'
    BY <2>2, <2>3 DEF IInv, TypeOK, HeldOnce
  <2>6. (StoredOnce /\ CachedOnce /\ FoundOnce)'
    BY <2>2 DEF IInv, StoredOnce, Stored, Registered, CachedOnce, Cached, FoundOnce
  <2>. QED  BY <1>1, <2>4, <2>5, <2>6 DEF IInv
<1>3. CASE SyncWrite(t)
  <2>1. cache' = Merged(t) /\ Finish(t) /\ UNCHANGED <<db, dbUp, version, once, faults>>
    BY <1>3 DEF SyncWrite
  <2>2. cache' \in [Users -> Versions]
    BY <2>1 DEF Merged, IInv, TypeOK
  <2>3. CachedOnce'
    BY <2>1 DEF Merged, IInv, CachedOnce, Cached, HeldOnce
  <2>4. StoredOnce'
    BY <2>1 DEF IInv, StoredOnce, Stored, Registered
  <2>. QED  BY <1>1, <2>1, <2>2, <2>3, <2>4, FinishHolds DEF IInv, TypeOK
<1>4. CASE SyncError(t)
  <2>1. /\ Finish(t) /\ UNCHANGED <<db, dbUp, version, once>>
        /\ faults' = faults + 1 /\ faults \in Nat
    BY <1>4 DEF SyncError, Fault, IInv, TypeOK
  <2>2. /\ cache' \in [Users -> Versions]
        /\ \A u \in Users : cache'[u] = cache[u] \/ cache'[u] = held[t][u]
    <3>1. PICK written \in SUBSET Users :
            cache' = [u \in Users |-> IF u \in written THEN Merged(t)[u] ELSE cache[u]]
      BY <1>4 DEF SyncError
    <3>. QED  BY <3>1 DEF Merged, IInv, TypeOK
  <2>3. CachedOnce'
    BY <2>1, <2>2 DEF IInv, CachedOnce, Cached, HeldOnce
  <2>4. StoredOnce'
    BY <2>1 DEF IInv, StoredOnce, Stored, Registered
  <2>. QED  BY <1>1, <2>1, <2>2, <2>3, <2>4, FinishHolds DEF IInv, TypeOK
<1>. QED  BY <1>2, <1>3, <1>4

\* An adaptive enrolment writes for a user it found in the cache.
LEMMA AdaptiveIInv ==
    ASSUME IInv, NEW t \in Threads,
           (\E u \in Users : AdaptiveEnroll(t, u)) \/ AdaptiveStore(t)
    PROVE  IInv'
<1>1. Answered' /\ answer' \in Answers
  BY NoMatchAnswered DEF AdaptiveEnroll, AdaptiveStore, NoAnswer
<1>2. ASSUME NEW u \in Users, AdaptiveEnroll(t, u) PROVE IInv'
  <2>1. u \in once /\ version + 1 \in Versions /\ version' = version + 1
    BY <1>2, FaceCacheAssumption
       DEF AdaptiveEnroll, IInv, TypeOK, CachedOnce, Versions
  <2>2. 0 \in Versions
    BY FaceCacheAssumption DEF Versions
  <2> DEFINE rows == [NoRows EXCEPT ![u] = version + 1]
  <2>3. /\ rows \in [Users -> Versions]
        /\ \A v \in Users : rows[v] # 0 => v = u
    BY <2>1, <2>2 DEF NoRows
  <2>4. /\ held' = [held EXCEPT ![t] = rows] /\ pc' = [pc EXCEPT ![t] = "adaptive_db"]
        /\ UNCHANGED <<db, dbUp, alike, found, once>>
    BY <1>2 DEF AdaptiveEnroll
  <2>. HIDE DEF rows
  <2>5. cache' = [cache EXCEPT ![u] = version + 1] \/ cache' = cache
    BY <1>2 DEF AdaptiveEnroll
  <2>6. faults' \in Nat
    BY <1>2 DEF AdaptiveEnroll, Fault, IInv, TypeOK
  <2>7. cache' \in [Users -> Versions] /\ CachedOnce'
    BY <2>1, <2>4, <2>5 DEF IInv, TypeOK, CachedOnce, Cached
  <2>8. TypeOK'
    BY <1>1, <2>1, <2>3, <2>4, <2>6, <2>7 DEF IInv, TypeOK
  <2>9. HeldOnce'
    BY <2>1, <2>3, <2>4 DEF IInv, TypeOK, HeldOnce
  <2>10. (StoredOnce /\ FoundOnce)'
    BY <2>4 DEF IInv, StoredOnce, Stored, Registered, FoundOnce
  <2>. QED  BY <1>1, <2>7, <2>8, <2>9, <2>10 DEF IInv
<1>3. CASE AdaptiveStore(t)
  <2>1. Finish(t) /\ UNCHANGED <<dbUp, cache, version, faults>>
    BY <1>3 DEF AdaptiveStore
  <2>2. PICK u \in Users :
          IF dbUp THEN SetRow(u, [db[u] EXCEPT !.emb = held[t][u]])
                  ELSE UNCHANGED <<db, once>>
    BY <1>3 DEF AdaptiveStore
  <2>3. [db[u] EXCEPT !.emb = held[t][u]] \in Rows
    <3>1. db[u] \in Rows /\ held[t][u] \in Versions
      BY DEF IInv, TypeOK
    <3>. QED  BY <3>1 DEF Rows
  <2>4. /\ db' \in [Users -> Rows] /\ once' \subseteq Users
        /\ once \subseteq once' /\ StoredOnce'
    <3>1. CASE dbUp
      BY <2>2, <2>3, <3>1, SetRowIInv
    <3>2. CASE ~dbUp
      BY <2>2, <3>2 DEF IInv, TypeOK, StoredOnce, Stored, Registered
    <3>. QED  BY <3>1, <3>2
  <2>5. CachedOnce'
    BY <2>1, <2>4 DEF IInv, CachedOnce, Cached
  <2>. QED  BY <1>1, <2>1, <2>4, <2>5, FinishHolds DEF IInv, TypeOK
<1>. QED  BY <1>2, <1>3

-----------------------------------------------------------------------------

\* What an answer says, by the candidates it is computed from.
LEMMA AnswerShape ==
    ASSUME NEW q, NEW m, NEW mode, NEW part, NEW a,
           q = << >> \/ q[1] \in Users,
           mode \in {"ONLINE", "OFFLINE"},
           part \in BOOLEAN,
           a = Answer(q, m, mode, part)
    PROVE  /\ a \in Answers
           /\ a.kind = "granted" =>
                /\ q # << >> /\ a.user = {q[1]} /\ a.mode = mode
                /\ part => a.partial
                /\ q[1] \in Stored => a.current
                /\ ~Ambiguous(q, m)
                /\ a.rival => \E i \in DOMAIN q : q[i] \in m \ {q[1]}
<1>1. CASE q = << >> \/ q[1] \notin m
  BY <1>1 DEF Answer, NoMatch, Answers
<1>2. CASE ~(q = << >> \/ q[1] \notin m)
  <2> DEFINE r == \E i \in DOMAIN q : q[i] \in m \ {q[1]}
             c == q[1] \in Stored
             k == IF Ambiguous(q, m) THEN "ambiguous" ELSE "granted"
  <2>1. Answer(q, m, mode, part) =
          [kind |-> k, user |-> {q[1]}, mode |-> mode, rival |-> r,
           partial |-> part, current |-> c]
    BY <1>2 DEF Answer
  <2>2. r \in BOOLEAN /\ c \in BOOLEAN /\ k \in {"granted", "ambiguous"}
        /\ (k = "granted" => ~Ambiguous(q, m)) /\ q # << >> /\ {q[1]} \in SUBSET Users
    BY <1>2
  <2>3. r = (\E i \in DOMAIN q : q[i] \in m \ {q[1]}) /\ c = (q[1] \in Stored)
    OBVIOUS
  <2>. HIDE DEF r, c, k
  <2>4. Answer(q, m, mode, part) \in Answers
    BY <2>1, <2>2 DEF Answers
  <2>5. /\ a \in Answers /\ a.kind = k /\ a.user = {q[1]} /\ a.mode = mode
        /\ a.rival = r /\ a.partial = part /\ a.current = c
    BY <2>1, <2>4
  <2>. QED  BY <2>2, <2>3, <2>5
<1>. QED  BY <1>1, <1>2

\* Two candidates alike are refused, unless there is a third.
LEMMA TwoAlikeRefused ==
    ASSUME NEW S, NEW m, NEW q \in TopTwo(S, m), q # << >>,
           \E i \in DOMAIN q : q[i] \in m \ {q[1]}
    PROVE  Ambiguous(q, m)
<1>1. CASE \E u \in S : q = <<u>>
  BY <1>1
<1>2. CASE \E u, v \in S : q = <<u, v>>
  BY <1>2 DEF Ambiguous
<1>. QED  BY <1>1, <1>2, TopTwoShape

\* A login that PostgreSQL answers.
LEMMA OnlineIInv ==
    ASSUME IInv, NEW t \in Threads, NEW m \in SUBSET Users, FaceLoginOnline(t, m)
    PROVE  IInv'
<1>1. /\ UNCHANGED <<db, dbUp, cache, version, pc, held, alike, found, once, faults>>
  BY DEF FaceLoginOnline, threadVars
<1>2. PICK q \in TopTwo(Stored, m) : answer' = Answer(q, m, "ONLINE", FALSE)
  BY DEF FaceLoginOnline
<1>3. q = << >> \/ q[1] \in Stored
  <2>1. \/ q = << >>
        \/ \E u \in Stored : q = <<u>>
        \/ \E u, v \in Stored : q = <<u, v>>
    BY TopTwoShape
  <2>. QED  BY <2>1
<1>4. Stored \subseteq Users /\ Stored \subseteq once
  BY DEF IInv, StoredOnce, Stored, Registered
<1>5. /\ answer' \in Answers
      /\ answer'.kind = "granted" =>
           /\ q # << >> /\ answer'.user = {q[1]}
           /\ q[1] \in Stored => answer'.current
           /\ ~Ambiguous(q, m)
           /\ answer'.rival => \E i \in DOMAIN q : q[i] \in m \ {q[1]}
  <2>1. q = << >> \/ q[1] \in Users
    BY <1>3, <1>4
  <2>2. PICK a : a = answer'
    OBVIOUS
  <2>3. PICK b \in BOOLEAN : b = FALSE
    OBVIOUS
  <2>4. a = Answer(q, m, "ONLINE", b)
    BY <1>2, <2>2, <2>3
  <2>5. /\ a \in Answers
        /\ a.kind = "granted" =>
             /\ q # << >> /\ a.user = {q[1]}
             /\ q[1] \in Stored => a.current
             /\ ~Ambiguous(q, m)
             /\ a.rival => \E i \in DOMAIN q : q[i] \in m \ {q[1]}
    BY ONLY <2>1, <2>4, AnswerShape
  <2>. QED  BY <2>2, <2>5
<1>6. GrantWasEntitled'
  BY <1>1, <1>3, <1>4, <1>5 DEF GrantWasEntitled
<1>7. OnlineGrantWasCurrent'
  BY <1>3, <1>5 DEF OnlineGrantWasCurrent
<1>8. AmbiguousGrantNeedsPartialRead'
  BY <1>5, TwoAlikeRefused DEF AmbiguousGrantNeedsPartialRead
<1>9. TypeOK'
  BY <1>1, <1>5 DEF IInv, TypeOK
<1>10. (StoredOnce /\ CachedOnce /\ HeldOnce /\ FoundOnce)'
  BY <1>1 DEF IInv, StoredOnce, Stored, Registered, CachedOnce, Cached, HeldOnce,
              FoundOnce
<1>. QED  BY <1>6, <1>7, <1>8, <1>9, <1>10 DEF IInv, Answered

\* A login that goes on to the cache takes one candidate along at most.
LEMMA FailsIInv ==
    ASSUME IInv, NEW t \in Threads, NEW m \in SUBSET Users, FaceLoginFails(t, m)
    PROVE  IInv'
<1>1. /\ pc' = [pc EXCEPT ![t] = "login_cache"] /\ alike' = [alike EXCEPT ![t] = m]
      /\ UNCHANGED <<db, dbUp, cache, version, held, once, faults>>
  BY DEF FaceLoginFails
<1>2. PICK q \in IF dbUp THEN TopTwo(Stored, m) ELSE {<< >>} :
        found' = [found EXCEPT ![t] = q]
  BY DEF FaceLoginFails
<1>3. q = << >> \/ \E u \in Stored : q = <<u>>
  <2>1. CASE dbUp
    <3>1. \A u, v \in Stored : u = v
      BY <2>1 DEF FaceLoginFails, AllConfident
    <3>. QED  BY <1>2, <2>1, <3>1, TopOneShape
  <2>2. CASE ~dbUp
    BY <1>2, <2>2
  <2>. QED  BY <2>1, <2>2
<1>4. Stored \subseteq Users /\ Stored \subseteq once
  BY DEF IInv, StoredOnce, Stored, Registered
<1>5. q \in Seq(Users)
  <2>1. CASE \E u \in Stored : q = <<u>>
    <3>1. PICK u \in Users : q = <<u>>
      BY <1>4, <2>1
    <3>. QED  BY <3>1
  <2>2. CASE q = << >>
    BY <2>2
  <2>. QED  BY <1>3, <2>1, <2>2
<1>6. Answered' /\ answer' \in Answers
  BY NoMatchAnswered DEF FaceLoginFails, NoAnswer
<1>7. TypeOK'
  BY <1>1, <1>2, <1>5, <1>6 DEF IInv, TypeOK
<1>8. FoundOnce'
  <2>1. found'[t] = q /\ \A s \in Threads \ {t} : found'[s] = found[s]
    BY <1>2 DEF IInv, TypeOK
  <2>. QED  BY <1>1, <1>3, <1>4, <2>1 DEF IInv, FoundOnce
<1>9. (StoredOnce /\ CachedOnce /\ HeldOnce)'
  BY <1>1 DEF IInv, StoredOnce, Stored, Registered, CachedOnce, Cached, HeldOnce
<1>. QED  BY <1>6, <1>7, <1>8, <1>9 DEF IInv

\* A login that the cache answers.
LEMMA OfflineIInv ==
    ASSUME IInv, NEW t \in Threads, FaceLoginOffline(t)
    PROVE  IInv'
<1>1. Finish(t) /\ UNCHANGED <<db, dbUp, cache, version, once, faults>>
  BY DEF FaceLoginOffline
<1>2. PICK p \in TopTwo(Cached, alike[t]) :
        answer' = Answer(found[t] \o p, alike[t], FallbackMode, found[t] # << >>)
  BY DEF FaceLoginOffline
<1> DEFINE q == found[t] \o p
<1>3. Cached \subseteq once /\ once \subseteq Users
  BY DEF IInv, CachedOnce, TypeOK
<1>4. /\ found[t] = << >> => q = p
      /\ q = << >> \/ q[1] \in once
  <2>1. \/ p = << >>
        \/ \E u \in Cached : p = <<u>>
        \/ \E u, v \in Cached : p = <<u, v>>
    BY TopTwoShape
  <2>2. p \in Seq(Users)
    <3>1. CASE \E u \in Cached : p = <<u>>
      <4>1. PICK u \in Users : p = <<u>>
        BY <1>3, <3>1
      <4>. QED  BY <4>1
    <3>2. CASE \E u, v \in Cached : p = <<u, v>>
      <4>1. PICK u \in Users, v \in Users : p = <<u, v>>
        BY <1>3, <3>2
      <4>. QED  BY <4>1
    <3>3. CASE p = << >>
      BY <3>3
    <3>. QED  BY <2>1, <3>1, <3>2, <3>3
  <2>3. CASE found[t] = << >>
    <3>1. q = p
      BY <2>2, <2>3
    <3>. QED  BY <1>3, <2>1, <3>1
  <2>4. CASE \E u \in once : found[t] = <<u>>
    <3>1. PICK u \in once : found[t] = <<u>>
      BY <2>4
    <3>2. q[1] = u
      BY <1>3, <2>2, <3>1
    <3>. QED  BY <3>1, <3>2
  <2>. QED  BY <2>3, <2>4 DEF IInv, FoundOnce
<1>5. answer' = Answer(q, alike[t], "OFFLINE", found[t] # << >>)
  BY <1>2 DEF FallbackMode
<1> HIDE DEF q
<1>6. /\ answer' \in Answers
      /\ answer'.kind = "granted" =>
           /\ q # << >> /\ answer'.user = {q[1]} /\ answer'.mode = "OFFLINE"
           /\ found[t] # << >> => answer'.partial
           /\ ~Ambiguous(q, alike[t])
           /\ answer'.rival => \E i \in DOMAIN q : q[i] \in alike[t] \ {q[1]}
  <2>1. q = << >> \/ q[1] \in Users
    BY <1>3, <1>4
  <2>2. PICK b \in BOOLEAN : b = (found[t] # << >>)
    OBVIOUS
  <2>3. PICK a : a = answer'
    OBVIOUS
  <2>4. a = Answer(q, alike[t], "OFFLINE", b)
    BY <1>5, <2>2, <2>3
  <2>5. /\ a \in Answers
        /\ a.kind = "granted" =>
             /\ q # << >> /\ a.user = {q[1]} /\ a.mode = "OFFLINE"
             /\ b => a.partial
             /\ ~Ambiguous(q, alike[t])
             /\ a.rival => \E i \in DOMAIN q : q[i] \in alike[t] \ {q[1]}
    BY ONLY <2>1, <2>4, AnswerShape
  <2>. QED  BY <2>2, <2>3, <2>5
<1>7. GrantWasEntitled'
  BY <1>1, <1>4, <1>6 DEF GrantWasEntitled
<1>8. OnlineGrantWasCurrent'
  BY <1>6 DEF OnlineGrantWasCurrent
<1>9. AmbiguousGrantNeedsPartialRead'
  <2> SUFFICES ASSUME answer'.kind = "granted", answer'.rival, found[t] = << >>
               PROVE  FALSE
    BY <1>6 DEF AmbiguousGrantNeedsPartialRead
  <2>1. q = p
    BY <1>4
  <2>. QED  BY <1>6, <2>1, TwoAlikeRefused
<1>10. (StoredOnce /\ CachedOnce)'
  BY <1>1 DEF IInv, StoredOnce, Stored, Registered, CachedOnce, Cached
<1>. QED
  BY <1>1, <1>6, <1>7, <1>8, <1>9, <1>10, FinishHolds DEF IInv, TypeOK, Answered

-----------------------------------------------------------------------------

\* Every step preserves the invariant.
LEMMA NextIInv == IInv /\ [Next]_vars => IInv'
<1> SUFFICES ASSUME IInv, [Next]_vars PROVE IInv'
  OBVIOUS
<1>1. CASE LinkChange \/ Crash \/ UNCHANGED vars
  BY <1>1, QuietStepIInv
<1>2. ASSUME NEW u \in Users, RegisterCreate(u) \/ Enroll(u) \/ Revoke(u) \/ Remove(u)
      PROVE  IInv'
  BY <1>2, UsersStepIInv
<1>3. ASSUME NEW t \in Threads, SyncRead(t) \/ SyncWrite(t) \/ SyncError(t)
      PROVE  IInv'
  BY <1>3, SyncIInv
<1>4. ASSUME NEW t \in Threads,
             (\E u \in Users : AdaptiveEnroll(t, u)) \/ AdaptiveStore(t)
      PROVE  IInv'
  BY <1>4, AdaptiveIInv
<1>5. ASSUME NEW t \in Threads, NEW m \in SUBSET Users, FaceLoginOnline(t, m)
      PROVE  IInv'
  BY <1>5, OnlineIInv
<1>6. ASSUME NEW t \in Threads, NEW m \in SUBSET Users, FaceLoginFails(t, m)
      PROVE  IInv'
  BY <1>6, FailsIInv
<1>7. ASSUME NEW t \in Threads, FaceLoginOffline(t) PROVE IInv'
  BY <1>7, OfflineIInv
<1>. QED  BY <1>1, <1>2, <1>3, <1>4, <1>5, <1>6, <1>7 DEF Next, Proceed

LEMMA Invariance == Spec => []IInv
  BY InitIInv, NextIInv, PTL DEF Spec

\* Type correctness.
THEOREM TypeCorrect == Spec => []TypeOK
<1>1. IInv => TypeOK
  BY DEF IInv
<1>. QED  BY <1>1, Invariance, PTL

\* However stale the cache is, a face login admits only users who could log
\* in with PostgreSQL at some earlier time.
THEOREM GrantWasEntitledThm == Spec => []GrantWasEntitled
<1>1. IInv => GrantWasEntitled
  BY DEF IInv, Answered
<1>. QED  BY <1>1, Invariance, PTL

\* A token marked ONLINE was issued for a user PostgreSQL admits just then.
THEOREM OnlineGrantWasCurrentThm == Spec => []OnlineGrantWasCurrent
<1>1. IInv => OnlineGrantWasCurrent
  BY DEF IInv, Answered
<1>. QED  BY <1>1, Invariance, PTL

\* Two candidates above the threshold are refused, but for a login whose
\* candidates come half from PostgreSQL and half from the cache.
THEOREM AmbiguousGrantNeedsPartialReadThm == Spec => []AmbiguousGrantNeedsPartialRead
<1>1. IInv => AmbiguousGrantNeedsPartialRead
  BY DEF IInv, Answered
<1>. QED  BY <1>1, Invariance, PTL
=============================================================================
