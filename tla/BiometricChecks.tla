-------------------------- MODULE BiometricChecks --------------------------
(***************************************************************************)
(* The biometric columns of the table users as the two services share      *)
(* them: registration, enrolment, revocation, adaptive enrolment and the   *)
(* checks of app.py (pool threads), and those of AuthService and           *)
(* BiometricsService in the NestJS backend.  A step is one database        *)
(* statement; requests interleave between them, and may end after any.     *)
(*                                                                         *)
(* Abstractions.  A sample is the person it was taken from, and two        *)
(* samples match when it is the same.  A blended embedding still matches   *)
(* the one it was blended from (alpha is small).  biometricEnrolled,       *)
(* biometricPending and user_biometrics, which no check reads, are those   *)
(* of BiometricEnrollment.  A request that is refused before it reads the  *)
(* table is left out, and so is one for an e-mail that has an account or a *)
(* user that has none.  Who was created without biometrics has an account  *)
(* from the start; nobody is deleted.  The 1:N search of faces is that of  *)
(* FaceCache.                                                              *)
(***************************************************************************)
EXTENDS FiniteSets, Naturals

CONSTANTS Profiles,    \* users
          Persons,     \* who stands before a camera or a scanner
          Callers,    \* requests in flight
          MaxHandled,  \* bound: requests in all
          Null         \* SQL NULL

ASSUME ChecksAssumption == Null \notin Persons \cup Profiles /\ MaxHandled \in Nat

VARIABLES
    accounts,    \* users that have a row
    profile,     \* profile[u]: the row of u, empty if there is none
    cachedFace,  \* cachedFace[u]: the embedding of u in the offline cache
    job,         \* job[h]: the request h
    handled,     \* number of requests so far, for the bound
    (* history: users whose row was written by one request while another
       worked on it, or that a request began to work on before their
       registration had ended; users given an embedding that no flag covers;
       users whose registration set the flag and ended without an embedding *)
    clashed, revived, stranded

checkVars == <<accounts, profile, cachedFace, job, handled, clashed, revived, stranded>>

\* A stored print: who enciphered it, and whether it serialises descriptors or
\* is the text a client sent.
Templates == [by : {"python", "nest"}, form : {"image", "text"}, of : Persons]

ProfileRows == [face : Persons \cup {Null}, faceRegistered : BOOLEAN,
                print : Templates \cup {Null}, printRegistered : BOOLEAN]

\* A registration begins before its user has a row; the backend stores the
\* samples in the row that it has created.
Registering == {"join_face", "join_print", "join_create", "python_join", "python_insert"}
Storing == {"store_print", "store_face"}
Answers == {"matched", "refused", "failed"}

\* held: at some moment since the request began, the row carried the flag and
\* a sample that matches.  gives: the samples that a registration brings.
Jobs == [pc : {"idle", "py_dup", "py_write", "nest_dup", "nest_write",
               "print_dup", "print_write", "revoke_face", "adapt_write", "py_match",
               "nest_match"} \cup Registering \cup Storing \cup Answers,
         target : Profiles \cup {Null}, sample : Persons \cup {Null}, held : BOOLEAN,
         gives : SUBSET {"face", "print"}]
IdleJob == [pc |-> "idle", target |-> Null, sample |-> Null, held |-> FALSE, gives |-> {}]

ChecksTypeOK ==
    /\ accounts \subseteq Profiles
    /\ profile \in [Profiles -> ProfileRows]
    /\ cachedFace \in [Profiles -> Persons \cup {Null}]
    /\ job \in [Callers -> Jobs]
    /\ handled \in 0..MaxHandled
    /\ clashed \subseteq Profiles /\ revived \subseteq Profiles /\ stranded \subseteq Profiles

EmptyRow == [face |-> Null, faceRegistered |-> FALSE, print |-> Null, printRegistered |-> FALSE]

\* Some users have enrolled a face.  The cache may still hold one they had
\* before it was revoked and another was enrolled.
ChecksInit ==
    /\ profile \in [Profiles -> {EmptyRow} \cup
                      {[EmptyRow EXCEPT !.face = p, !.faceRegistered = TRUE] : p \in Persons}]
    /\ \A u, v \in Profiles : u # v /\ profile[u].face = profile[v].face => profile[u].face = Null
    /\ cachedFace \in [Profiles -> Persons \cup {Null}]
    /\ Cardinality({u \in Profiles : cachedFace[u] # profile[u].face}) <= 1
    /\ accounts \in SUBSET Profiles
    /\ \A u \in Profiles \ accounts : profile[u] = EmptyRow /\ cachedFace[u] = Null
    /\ job = [h \in Callers |-> IdleJob]
    /\ handled = 0
    /\ clashed = {} /\ revived = {} /\ stranded = {}

-----------------------------------------------------------------------------
(* Templates                                                               *)

\* The Python service puts a random IV before its ciphertext, the backend
\* enciphers with a constant one.  Each deciphers the other's templates to
\* something that is no serialised descriptor.
Encrypt(service, form, p) == [by |-> service, form |-> form, of |-> p]
Decrypt(service, t) == IF t # Null /\ t.by = service THEN t ELSE Null

\* Descriptors match an image of the same finger; a text matches itself, and
\* is never taken for descriptors.
PrintMatches(service, t, form, p) ==
    LET stored == Decrypt(service, t)
    IN stored # Null /\ stored.form = form /\ stored.of = p

-----------------------------------------------------------------------------
(* Requests                                                                *)

\* Faulty variants: a check that reads the embedding without the flag; a
\* revocation that leaves the flag to its second statement.
HasFace_embeddingOnly(row) == row.face # Null
Revoked_keepsFlag(row) == [row EXCEPT !.print = Null, !.printRegistered = FALSE]

HasFace(row) == row.faceRegistered

\* What revokeBiometrics clears in its first statement.
Revoked(row) == [row EXCEPT !.print = Null, !.faceRegistered = FALSE, !.printRegistered = FALSE]

Holds(row, p) == row.faceRegistered /\ row.face = p

\* A request that reads first.
Begin(h, step, u, p, gives) ==
    /\ job[h].pc = "idle" /\ handled < MaxHandled
    /\ handled' = handled + 1
    /\ job' = [job EXCEPT ![h] = [pc |-> step, target |-> u, sample |-> p,
                                  held |-> Holds(profile[u], p), gives |-> gives]]
    /\ clashed' = IF \E g \in Callers : job[g].target = u /\ job[g].pc \in Storing
                  THEN clashed \cup {u} ELSE clashed
    /\ UNCHANGED <<accounts, profile, cachedFace, revived, stranded>>

Goes(h, step) == job' = [job EXCEPT ![h].pc = step]

\* The row of u becomes row: requests at work on u notice.
Writes(h, u, row, next) ==
    /\ profile' = [profile EXCEPT ![u] = row]
    /\ job' = [g \in Callers |->
                 IF g = h THEN next
                 ELSE [job[g] EXCEPT !.held = @ \/ (job[g].target = u /\ Holds(row, job[g].sample))]]
    /\ clashed' = IF \E g \in Callers \ {h} : job[g].target = u /\ job[g].pc \notin Answers
                  THEN clashed \cup {u} ELSE clashed

Reads == UNCHANGED <<accounts, profile, cachedFace, handled, clashed, revived, stranded>>

\* A face or print that is not found in the image, or not alive; an answer
\* that the backend does not get from the Python engine; a database error, or
\* a process that dies.
Reject(h) ==
    /\ job[h].pc \notin {"idle"} \cup Answers
    /\ Goes(h, "refused")
    /\ stranded' = IF job[h].pc \in Storing /\ "face" \in job[h].gives
                   THEN stranded \cup {job[h].target} ELSE stranded
    /\ UNCHANGED <<accounts, profile, cachedFace, handled, clashed, revived>>

Answered(h) ==
    /\ job[h].pc \in Answers
    /\ job' = [job EXCEPT ![h] = IdleJob]
    /\ Reads

-----------------------------------------------------------------------------
(* app.py                                                                  *)

\* enroll_face_biometrics: any other row with a similar embedding counts,
\* whatever its flag and its tenant.
PythonEnrollFace(h, u, p) ==
    Begin(h, "py_dup", u, p, {})

PythonDuplicate(h) ==
    /\ job[h].pc = "py_dup"
    /\ Goes(h, IF \E v \in Profiles \ {job[h].target} : profile[v].face = job[h].sample
               THEN "refused" ELSE "py_write")
    /\ Reads

PythonStoreFace(h) ==
    /\ job[h].pc = "py_write"
    /\ LET u == job[h].target
       IN Writes(h, u, [profile[u] EXCEPT !.face = job[h].sample, !.faceRegistered = TRUE], IdleJob)
    /\ UNCHANGED <<accounts, cachedFace, handled, revived, stranded>>

\* enroll_fingerprint_biometrics: no stored ciphertext equals a fresh one, so
\* that its search for a duplicate finds nothing.
PythonEnrollPrint(h, u, form, p) ==
    /\ job[h].pc = "idle" /\ handled < MaxHandled
    /\ handled' = handled + 1
    /\ Writes(h, u, [profile[u] EXCEPT !.print = Encrypt("python", form, p),
                                       !.printRegistered = TRUE], job[h])
    /\ UNCHANGED <<accounts, cachedFace, revived, stranded>>

\* revoke_biometrics
PythonRevoke(h, u) ==
    /\ job[h].pc = "idle" /\ handled < MaxHandled
    /\ handled' = handled + 1
    /\ Writes(h, u, EmptyRow, job[h])
    /\ UNCHANGED <<accounts, cachedFace, revived, stranded>>

\* verify_face_biometrics: the row, then the image, then the distance, which
\* is NULL when the embedding is gone: float(None) fails the request.
PythonVerifyFace(h, u, p) ==
    Begin(h, IF HasFace(profile[u]) THEN "py_match" ELSE "refused", u, p, {})

PythonMatchFace(h) ==
    /\ job[h].pc = "py_match"
    /\ LET face == profile[job[h].target].face
       IN Goes(h, IF face = Null THEN "failed"
                  ELSE IF face = job[h].sample THEN "matched" ELSE "refused")
    /\ Reads

\* A print is read in one statement, so that nothing comes between.
Compared(h, u, p, matches) ==
    /\ job[h].pc = "idle" /\ handled < MaxHandled
    /\ handled' = handled + 1
    /\ job' = [job EXCEPT ![h] = [pc |-> IF matches THEN "matched" ELSE "refused",
                                  target |-> u, sample |-> p, held |-> TRUE, gives |-> {}]]
    /\ UNCHANGED <<accounts, profile, cachedFace, clashed, revived, stranded>>

\* verify_fingerprint_biometrics
PythonVerifyPrint(h, u, form, p) ==
    Compared(h, u, p, profile[u].printRegistered /\ PrintMatches("python", profile[u].print, form, p))

\* fingerprint_login: whoever has the most matching points.
FingerprintLogin(h, form, p) ==
    LET found == {u \in Profiles : profile[u].printRegistered
                                     /\ PrintMatches("python", profile[u].print, form, p)}
    IN \/ found = {} /\ Compared(h, Null, p, FALSE)
       \/ \E u \in found : Compared(h, u, p, TRUE)

\* sync_embeddings_from_pg, in one step here: revoked rows stay in the cache.
CacheSync ==
    /\ cachedFace' = [u \in Profiles |-> IF profile[u].faceRegistered /\ profile[u].face # Null
                                         THEN profile[u].face ELSE cachedFace[u]]
    /\ UNCHANGED <<accounts, profile, job, handled, clashed, revived, stranded>>

\* adaptive_enroll_endpoint: the cached embedding, blended, goes back into the
\* row by id alone.
AdaptiveBlend(h, u) ==
    /\ cachedFace[u] # Null
    /\ Begin(h, "adapt_write", u, cachedFace[u], {})

AdaptiveWrite(h) ==
    /\ job[h].pc = "adapt_write"
    /\ LET u == job[h].target
       IN /\ Writes(h, u, [profile[u] EXCEPT !.face = job[h].sample], IdleJob)
          /\ revived' = IF profile[u].faceRegistered THEN revived ELSE revived \cup {u}
    /\ UNCHANGED <<accounts, cachedFace, handled, stranded>>

-----------------------------------------------------------------------------
(* BiometricsService                                                       *)

\* enrollFace, for rows of one tenant: the own flag, a similar face among
\* those registered, one UPDATE of embedding and flag.
NestEnrollFace(h, u, p) ==
    Begin(h, IF HasFace(profile[u]) THEN "refused" ELSE "nest_dup", u, p, {})

NestDuplicateFace(h) ==
    /\ job[h].pc = "nest_dup"
    /\ Goes(h, IF \E v \in Profiles \ {job[h].target} : Holds(profile[v], job[h].sample)
               THEN "refused" ELSE "nest_write")
    /\ Reads

NestStoreFace(h) ==
    /\ job[h].pc = "nest_write"
    /\ LET u == job[h].target
       IN Writes(h, u, [profile[u] EXCEPT !.face = job[h].sample, !.faceRegistered = TRUE], IdleJob)
    /\ UNCHANGED <<accounts, cachedFace, handled, revived, stranded>>

\* enrollFingerprint
NestEnrollPrint(h, u, p) ==
    Begin(h, IF profile[u].print # Null THEN "refused" ELSE "print_dup", u, p, {})

NestDuplicatePrint(h) ==
    /\ job[h].pc = "print_dup"
    /\ Goes(h, IF \E v \in Profiles : profile[v].print = Encrypt("nest", "image", job[h].sample)
               THEN "refused" ELSE "print_write")
    /\ Reads

NestStorePrint(h) ==
    /\ job[h].pc = "print_write"
    /\ LET u == job[h].target
       IN Writes(h, u, [profile[u] EXCEPT !.print = Encrypt("nest", "image", job[h].sample),
                                          !.printRegistered = TRUE], IdleJob)
    /\ UNCHANGED <<accounts, cachedFace, handled, revived, stranded>>

\* revokeBiometrics: two statements.
NestRevoke(h, u) ==
    /\ job[h].pc = "idle" /\ handled < MaxHandled
    /\ handled' = handled + 1
    /\ Writes(h, u, Revoked(profile[u]), [IdleJob EXCEPT !.pc = "revoke_face", !.target = u])
    /\ UNCHANGED <<accounts, cachedFace, revived, stranded>>

NestRevokeFace(h) ==
    /\ job[h].pc = "revoke_face"
    /\ Writes(h, job[h].target, [profile[job[h].target] EXCEPT !.face = Null], IdleJob)
    /\ UNCHANGED <<accounts, cachedFace, handled, revived, stranded>>

\* matchFace and verifyFace: the flag, then the embedding, which the Python
\* engine compares for verifyFace.  Without an embedding they refuse.
NestCheckFace(h, u, p) ==
    Begin(h, IF HasFace(profile[u]) THEN "nest_match" ELSE "refused", u, p, {})

\* What the Python engine answers of the embedding it is sent.
FaceMatches(h) == profile[job[h].target].face = job[h].sample

NestCompareFace(h) ==
    /\ job[h].pc = "nest_match"
    /\ Goes(h, IF FaceMatches(h) THEN "matched" ELSE "refused")
    /\ Reads

\* verifyFingerprint does not ask for the flag.
NestVerifyPrint(h, u, p) == Compared(h, u, p, PrintMatches("nest", profile[u].print, "image", p))

\* identifyByFace and identifyByFingerprint ask the Python service for a login
\* without the tenantId it requires: its 422 counts as an engine that is offline.
NestIdentify(h, p) == Compared(h, Null, p, FALSE)

-----------------------------------------------------------------------------
(* Registration                                                            *)

\* The row that a request creates, unless the e-mail has an account by now.
Creates(h, row, next) ==
    LET u == job[h].target
    IN IF u \in accounts
       THEN /\ Goes(h, "refused")
            /\ UNCHANGED <<accounts, profile, clashed>>
       ELSE /\ accounts' = accounts \cup {u}
            /\ Writes(h, u, row, next)

\* register_user: the face is looked for in any row; then one INSERT.
PythonRegister(h, u, p, gives) ==
    Begin(h, IF "face" \in gives THEN "python_join" ELSE "python_insert", u, p, gives)

PythonJoinFace(h) ==
    /\ job[h].pc = "python_join"
    /\ Goes(h, IF \E v \in Profiles : profile[v].face = job[h].sample
               THEN "refused" ELSE "python_insert")
    /\ Reads

\* An image or a print that is sent as the empty text is not stored, but sets
\* the flag.
PythonInsert(h) ==
    /\ job[h].pc = "python_insert"
    /\ LET stores == job[h].gives
           p == job[h].sample
       IN \E sent \in SUBSET {"face", "print"} :
            /\ stores \subseteq sent
            /\ Creates(h, [face |-> IF "face" \in stores THEN p ELSE Null,
                           faceRegistered |-> "face" \in sent,
                           print |-> IF "print" \in stores THEN Encrypt("python", "text", p) ELSE Null,
                           printRegistered |-> "print" \in sent], IdleJob)
            /\ stranded' = IF "face" \in sent \ stores /\ job[h].target \notin accounts
                           THEN stranded \cup {job[h].target} ELSE stranded
    /\ UNCHANGED <<cachedFace, handled, revived>>

\* AuthService.register: both samples are looked for in the tenant, the row is
\* created with their flags, and each is stored by a statement of its own.
NestRegister(h, u, p, gives) ==
    /\ gives # {}
    /\ Begin(h, IF "face" \in gives THEN "join_face" ELSE "join_print", u, p, gives)

NestJoinFace(h) ==
    /\ job[h].pc = "join_face"
    /\ Goes(h, IF \E v \in Profiles : Holds(profile[v], job[h].sample) THEN "refused"
               ELSE IF "print" \in job[h].gives THEN "join_print" ELSE "join_create")
    /\ Reads

NestJoinPrint(h) ==
    /\ job[h].pc = "join_print"
    /\ Goes(h, IF \E v \in Profiles : profile[v].print = Encrypt("nest", "image", job[h].sample)
               THEN "refused" ELSE "join_create")
    /\ Reads

NestCreate(h) ==
    /\ job[h].pc = "join_create"
    /\ LET gives == job[h].gives
       IN Creates(h, [EmptyRow EXCEPT !.faceRegistered = "face" \in gives,
                                      !.printRegistered = "print" \in gives],
                  [job[h] EXCEPT !.pc = IF "print" \in gives THEN "store_print" ELSE "store_face"])
    /\ UNCHANGED <<cachedFace, handled, revived, stranded>>

NestStoreGivenPrint(h) ==
    /\ job[h].pc = "store_print"
    /\ LET u == job[h].target
       IN Writes(h, u, [profile[u] EXCEPT !.print = Encrypt("nest", "image", job[h].sample)],
                 IF "face" \in job[h].gives THEN [job[h] EXCEPT !.pc = "store_face"] ELSE IdleJob)
    /\ UNCHANGED <<accounts, cachedFace, handled, revived, stranded>>

NestStoreGivenFace(h) ==
    /\ job[h].pc = "store_face"
    /\ LET u == job[h].target
       IN /\ Writes(h, u, [profile[u] EXCEPT !.face = job[h].sample], IdleJob)
          /\ revived' = IF profile[u].faceRegistered THEN revived ELSE revived \cup {u}
    /\ UNCHANGED <<accounts, cachedFace, handled, stranded>>

\* registerOrganization: nobody is looked for, and the administrator's row is
\* created and the face stored in one transaction.
RegisterAdministrator(h, u, p) ==
    /\ job[h].pc = "idle" /\ handled < MaxHandled
    /\ handled' = handled + 1
    /\ accounts' = accounts \cup {u}
    /\ Writes(h, u, [EmptyRow EXCEPT !.face = p, !.faceRegistered = TRUE], job[h])
    /\ UNCHANGED <<cachedFace, revived, stranded>>

ChecksNext ==
    \/ CacheSync
    \/ \E h \in Callers :
         \/ \E u \in accounts, p \in Persons :
              \/ PythonEnrollFace(h, u, p) \/ PythonVerifyFace(h, u, p)
              \/ NestEnrollFace(h, u, p) \/ NestCheckFace(h, u, p)
              \/ NestEnrollPrint(h, u, p) \/ NestVerifyPrint(h, u, p)
              \/ \E form \in {"image", "text"} : PythonEnrollPrint(h, u, form, p)
                                                 \/ PythonVerifyPrint(h, u, form, p)
         \/ \E u \in Profiles \ accounts, p \in Persons :
              \/ \E gives \in SUBSET {"face", "print"} : PythonRegister(h, u, p, gives)
                                                         \/ NestRegister(h, u, p, gives)
              \/ RegisterAdministrator(h, u, p)
         \/ \E u \in accounts : PythonRevoke(h, u) \/ NestRevoke(h, u) \/ AdaptiveBlend(h, u)
         \/ \E p \in Persons : NestIdentify(h, p)
                                \/ \E form \in {"image", "text"} : FingerprintLogin(h, form, p)
         \/ PythonDuplicate(h) \/ PythonStoreFace(h) \/ PythonMatchFace(h) \/ AdaptiveWrite(h)
         \/ NestDuplicateFace(h) \/ NestStoreFace(h) \/ NestDuplicatePrint(h) \/ NestStorePrint(h)
         \/ NestRevokeFace(h) \/ NestCompareFace(h)
         \/ PythonJoinFace(h) \/ PythonInsert(h) \/ NestJoinFace(h) \/ NestJoinPrint(h)
         \/ NestCreate(h) \/ NestStoreGivenPrint(h) \/ NestStoreGivenFace(h)
         \/ Reject(h) \/ Answered(h)

ChecksSpec == ChecksInit /\ [][ChecksNext]_checkVars

-----------------------------------------------------------------------------
\* A face matches for a user only if the row of the user carried the flag and
\* that face at one moment of the check, although flag and embedding are read
\* in separate statements; only an adaptive enrolment or the last statement of
\* a registration, which write an embedding to a row revoked meanwhile, can
\* make it otherwise (app.py, verify_face_biometrics and
\* adaptive_enroll_endpoint; AuthService, register; BiometricsService,
\* verifyFace and revokeBiometrics).
MatchNeedsProfile ==
    \A h \in Callers : job[h].pc = "matched" /\ ~job[h].held => job[h].target \in revived

\* A verification fails on a missing embedding (float(None)) only if a request
\* has written the row of the user while another was at work on it, or has begun
\* before the registration of the user had ended, or if that registration ended
\* between its statements or was sent a blank image, both of which leave the
\* flag without the embedding: one after the other and each to its end, the
\* registrations, enrolments and revocations of both services keep flag and
\* embedding in step (app.py, verify_face_biometrics and register_user;
\* AuthService, register).
CheckErrorHasCause ==
    \A h \in Callers : job[h].pc = "failed" => job[h].target \in clashed \cup stranded
=============================================================================
