----------------------------- MODULE FaceCache -----------------------------
(***************************************************************************)
(* Face login of the Python service with its offline fallback: the users   *)
(* table in PostgreSQL, the SQLite mirror of enrolled faces that           *)
(* offline_cache.py keeps, and the handlers of app.py that read or write   *)
(* both: POST /auth/face-login, /cache/sync (and the sync at startup) and  *)
(* /adaptive-enroll.  The handlers run in FastAPI's thread pool; every     *)
(* database statement is an action, the SELECT of a sync happens before    *)
(* the cache lock is taken, and the link to PostgreSQL comes and goes.     *)
(*                                                                         *)
(* Abstractions.  One tenant: both searches filter by it.  An embedding is *)
(* a version number, 0 is NULL; which stored faces a live capture resembles *)
(* (confidence 0.55 or more) is an input of the login.  A cached row is its *)
(* embedding: is_active and face_registered are 1 in every row, since the  *)
(* sync selects nothing else and remove_embedding has no caller, and state *)
(* is left out because nothing in the system ever blocks an account by it. *)
(* Captures that fail liveness write nothing and are left out.             *)
(***************************************************************************)
EXTENDS Naturals, Sequences

CONSTANTS Users,
          Threads,      \* handlers that can run at the same time
          MaxVersions,  \* bound: embeddings ever computed
          MaxFaults     \* bound: restarts and failed cache transactions

ASSUME FaceCacheAssumption == MaxVersions \in Nat /\ MaxFaults \in Nat

VARIABLES
    db,        \* db[u]: u's row of users in PostgreSQL
    dbUp,      \* whether the service reaches PostgreSQL
    cache,     \* cache[u]: embedding in face_embeddings, 0 without a row
    version,   \* embeddings computed so far
    pc,        \* threads: next statement
    held,      \* threads: rows a sync has fetched, or a blend not yet stored
    alike,     \* threads: the users a login's capture resembles
    found,     \* threads: candidates a login got before PostgreSQL failed
    answer,    \* the answer just given, if the last step ends a face login
    once,      \* history: users whose face could log in at some time
    faults     \* restarts and failed cache transactions so far

threadVars == <<pc, held, alike, found>>
vars == <<db, dbUp, cache, version, threadVars, answer, once, faults>>

Versions == 0..MaxVersions
Rows == [emb : Versions, reg : BOOLEAN, active : BOOLEAN]
NoRows == [u \in Users |-> 0]

\* rival: another user among the candidates is alike too; partial: PostgreSQL
\* gave a candidate before it failed; current: user could log in just then.
Answers == [kind : {"granted", "ambiguous", "no_match"}, user : SUBSET Users,
            mode : {"ONLINE", "OFFLINE"},
            rival : BOOLEAN, partial : BOOLEAN, current : BOOLEAN]

NoMatch == [kind |-> "no_match", user |-> {}, mode |-> "ONLINE",
            rival |-> FALSE, partial |-> FALSE, current |-> FALSE]

TypeOK ==
    /\ db \in [Users -> Rows]
    /\ dbUp \in BOOLEAN
    /\ cache \in [Users -> Versions]
    /\ version \in Versions
    /\ pc \in [Threads -> {"idle", "sync_write", "login_cache", "adaptive_db"}]
    /\ held \in [Threads -> [Users -> Versions]]
    /\ alike \in [Threads -> SUBSET Users]
    /\ found \in [Threads -> Seq(Users)]
    /\ answer \in Answers
    /\ once \subseteq Users
    /\ faults \in Nat

Init ==
    /\ db = [u \in Users |-> [emb |-> 0, reg |-> FALSE, active |-> TRUE]]
    /\ dbUp \in BOOLEAN
    /\ cache = NoRows
    /\ version = 0
    /\ pc = [t \in Threads |-> "idle"]
    /\ held = [t \in Threads |-> NoRows]
    /\ alike = [t \in Threads |-> {}]
    /\ found = [t \in Threads |-> << >>]
    /\ answer = NoMatch
    /\ once = {}
    /\ faults = 0

\* WHERE "faceRegistered" = TRUE AND "isActive" = TRUE
Registered == {u \in Users : db[u].reg /\ db[u].active}

-----------------------------------------------------------------------------
(* Faulty variants: what TLC must catch when one replaces the code's rule. *)

Stored_anyRegistered == Registered

Ambiguous_never(q, m) == FALSE

FallbackMode_online == "ONLINE"

Merged_newOnly(t) == [u \in Users |-> IF cache[u] # 0 THEN cache[u] ELSE held[t][u]]

-----------------------------------------------------------------------------
\* ... AND "faceEmbedding" IS NOT NULL
Stored == {u \in Registered : db[u].emb # 0}

Cached == {u \in Users : cache[u] # 0}

-----------------------------------------------------------------------------
(* The rest of the system, as far as it changes users and the link.        *)

Finish(t) ==
    /\ pc' = [pc EXCEPT ![t] = "idle"]
    /\ held' = [held EXCEPT ![t] = NoRows]
    /\ alike' = [alike EXCEPT ![t] = {}]
    /\ found' = [found EXCEPT ![t] = << >>]

NoAnswer == answer' = NoMatch

SetRow(u, row) ==
    /\ db' = [db EXCEPT ![u] = row]
    /\ once' = IF row.reg /\ row.active /\ row.emb # 0 THEN once \cup {u} ELSE once

\* AuthService.register creates the row before it stores the embedding; the
\* two statements of revokeBiometrics, around an enrolment, leave the same.
RegisterCreate(u) ==
    /\ db[u].emb = 0 /\ ~db[u].reg /\ db[u].active
    /\ SetRow(u, [db[u] EXCEPT !.reg = TRUE])
    /\ NoAnswer
    /\ UNCHANGED <<dbUp, cache, version, threadVars, faults>>

\* The embedding that register stores next, or an enrolment.
Enroll(u) ==
    /\ db[u].active
    /\ version < MaxVersions
    /\ version' = version + 1
    /\ SetRow(u, [db[u] EXCEPT !.emb = version + 1, !.reg = TRUE])
    /\ NoAnswer
    /\ UNCHANGED <<dbUp, cache, threadVars, faults>>

Revoke(u) ==
    /\ db[u].emb # 0 \/ db[u].reg
    /\ SetRow(u, [db[u] EXCEPT !.emb = 0, !.reg = FALSE])
    /\ NoAnswer
    /\ UNCHANGED <<dbUp, cache, version, threadVars, faults>>

\* WorkersService.remove: nothing reactivates an account.
Remove(u) ==
    /\ db[u].active
    /\ SetRow(u, [db[u] EXCEPT !.active = FALSE])
    /\ NoAnswer
    /\ UNCHANGED <<dbUp, cache, version, threadVars, faults>>

LinkChange ==
    /\ dbUp' = ~dbUp
    /\ NoAnswer
    /\ UNCHANGED <<db, cache, version, threadVars, once, faults>>

Fault == /\ faults < MaxFaults
         /\ faults' = faults + 1

\* The process restarts; both databases are as the last commits left them.
Crash ==
    /\ Fault
    /\ pc' = [t \in Threads |-> "idle"]
    /\ held' = [t \in Threads |-> NoRows]
    /\ alike' = [t \in Threads |-> {}]
    /\ found' = [t \in Threads |-> << >>]
    /\ NoAnswer
    /\ UNCHANGED <<db, dbUp, cache, version, once>>

-----------------------------------------------------------------------------
(* sync_embeddings_from_pg                                                 *)

\* Without a connection the sync ends here and changes nothing.
SyncRead(t) ==
    /\ pc[t] = "idle"
    /\ dbUp
    /\ pc' = [pc EXCEPT ![t] = "sync_write"]
    /\ held' = [held EXCEPT ![t] =
                  [u \in Users |-> IF u \in Stored THEN db[u].emb ELSE 0]]
    /\ NoAnswer
    /\ UNCHANGED <<db, dbUp, cache, version, alike, found, once, faults>>

\* INSERT ... ON CONFLICT DO UPDATE: users not fetched keep their row.
Merged(t) == [u \in Users |-> IF held[t][u] # 0 THEN held[t][u] ELSE cache[u]]

\* One transaction under _db_lock.
SyncWrite(t) ==
    /\ pc[t] = "sync_write"
    /\ cache' = Merged(t)
    /\ Finish(t)
    /\ NoAnswer
    /\ UNCHANGED <<db, dbUp, version, once, faults>>

\* Another module of the service has the file locked: each row that cannot be
\* upserted is skipped, and when the log entry fails all is rolled back.
SyncError(t) ==
    /\ pc[t] = "sync_write"
    /\ Fault
    /\ \E written \in SUBSET Users :
         cache' = [u \in Users |-> IF u \in written THEN Merged(t)[u] ELSE cache[u]]
    /\ Finish(t)
    /\ NoAnswer
    /\ UNCHANGED <<db, dbUp, version, once>>

-----------------------------------------------------------------------------
(* adaptive_enroll_endpoint                                                *)

\* The cached embedding is blended with the new one and put back, before
\* PostgreSQL is tried; whether that succeeded is not looked at.  No row ever
\* leaves the cache, so reading it and putting it back make one step.
AdaptiveEnroll(t, u) ==
    /\ pc[t] = "idle"
    /\ u \in Cached
    /\ version < MaxVersions
    /\ version' = version + 1
    /\ \/ cache' = [cache EXCEPT ![u] = version + 1] /\ UNCHANGED faults
       \/ Fault /\ UNCHANGED cache
    /\ pc' = [pc EXCEPT ![t] = "adaptive_db"]
    /\ held' = [held EXCEPT ![t] = [NoRows EXCEPT ![u] = version + 1]]
    /\ NoAnswer
    /\ UNCHANGED <<db, dbUp, alike, found, once>>

\* UPDATE users ... WHERE id: whatever has become of the row meanwhile.
AdaptiveStore(t) ==
    /\ pc[t] = "adaptive_db"
    /\ \E u \in Users :
         /\ held[t][u] # 0
         /\ IF dbUp THEN SetRow(u, [db[u] EXCEPT !.emb = held[t][u]])
                    ELSE UNCHANGED <<db, once>>
    /\ Finish(t)
    /\ NoAnswer
    /\ UNCHANGED <<dbUp, cache, version, faults>>

-----------------------------------------------------------------------------
(* face_login                                                              *)

\* Who can rank first among S by confidence, and the two who rank highest.
Best(S, m) == IF S \cap m # {} THEN S \cap m ELSE S

TopTwo(S, m) ==
    IF S = {} THEN {<< >>}
    ELSE UNION {IF S = {u} THEN {<<u>>} ELSE {<<u, v>> : v \in Best(S \ {u}, m)} :
                  u \in Best(S, m)}

\* Two candidates, both above the threshold.
Ambiguous(q, m) == Len(q) = 2 /\ q[2] \in m

Answer(q, m, mode, part) ==
    IF q = << >> \/ q[1] \notin m THEN NoMatch
    ELSE [kind |-> IF Ambiguous(q, m) THEN "ambiguous" ELSE "granted",
          user |-> {q[1]}, mode |-> mode,
          rival |-> \E i \in DOMAIN q : q[i] \in m \ {q[1]},
          partial |-> part, current |-> q[1] \in Stored]

\* A row without an embedding sorts last and has no confidence: float(None)
\* raises if it is among the two rows fetched.
AllConfident == Registered = Stored \/ \E u, v \in Stored : u # v

FaceLoginOnline(t, m) ==
    /\ pc[t] = "idle"
    /\ dbUp /\ AllConfident
    /\ \E q \in TopTwo(Stored, m) : answer' = Answer(q, m, "ONLINE", FALSE)
    /\ UNCHANGED <<db, dbUp, cache, version, threadVars, once, faults>>

\* Any exception leads to the cache, with the candidates got so far.
FaceLoginFails(t, m) ==
    /\ pc[t] = "idle"
    /\ ~dbUp \/ ~AllConfident
    /\ pc' = [pc EXCEPT ![t] = "login_cache"]
    /\ alike' = [alike EXCEPT ![t] = m]
    /\ \E q \in IF dbUp THEN TopTwo(Stored, m) ELSE {<< >>} :
         found' = [found EXCEPT ![t] = q]
    /\ NoAnswer
    /\ UNCHANGED <<db, dbUp, cache, version, held, once, faults>>

FallbackMode == "OFFLINE"

FaceLoginOffline(t) ==
    /\ pc[t] = "login_cache"
    /\ \E q \in TopTwo(Cached, alike[t]) :
         answer' = Answer(found[t] \o q, alike[t], FallbackMode, found[t] # << >>)
    /\ Finish(t)
    /\ UNCHANGED <<db, dbUp, cache, version, once, faults>>

-----------------------------------------------------------------------------
Proceed(t) == SyncWrite(t) \/ SyncError(t) \/ AdaptiveStore(t) \/ FaceLoginOffline(t)

Next ==
    \/ LinkChange \/ Crash
    \/ \E u \in Users : RegisterCreate(u) \/ Enroll(u) \/ Revoke(u) \/ Remove(u)
    \/ \E t \in Threads :
         \/ SyncRead(t) \/ Proceed(t)
         \/ \E u \in Users : AdaptiveEnroll(t, u)
         \/ \E m \in SUBSET Users : FaceLoginOnline(t, m) \/ FaceLoginFails(t, m)

Spec == Init /\ [][Next]_vars

\* Handlers finish, and clients keep calling /cache/sync.  The pool has more
\* threads than the model: that a sync may find all of Threads busy is the
\* model's limit, hence strong fairness.
FairSpec ==
    /\ Spec
    /\ \A t \in Threads : WF_vars(Proceed(t))
    /\ SF_vars(\E t \in Threads : SyncRead(t))

-----------------------------------------------------------------------------
(* Properties.                                                             *)

\* Whatever path a face login takes, and however stale the cache, it lets in
\* only users who at some time were active with a registered, stored face.
GrantWasEntitled == answer.kind = "granted" => answer.user \subseteq once

\* A token that says ONLINE is for a user PostgreSQL lets in at that moment.
OnlineGrantWasCurrent ==
    answer.kind = "granted" /\ answer.mode = "ONLINE" => answer.current

\* Two users above the threshold are told apart by nobody: such a login is
\* granted only when PostgreSQL failed half way through its own candidates.
AmbiguousGrantNeedsPartialRead ==
    answer.kind = "granted" /\ answer.rival => answer.partial

\* Once PostgreSQL stays reachable, every user who can log in with it gets
\* the same embedding in the cache, and keeps it.
CacheCatchesUp ==
    \A u \in Users :
        <>[](dbUp /\ u \in Stored) => <>[](cache[u] = db[u].emb)

\* A login refused as ambiguous had two users above the threshold.
AmbiguityNeedsTwoUsers == answer.kind = "ambiguous" => answer.rival
=============================================================================
