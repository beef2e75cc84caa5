------------------------ MODULE BiometricEnrollment ------------------------
(***************************************************************************)
(* The life of a user's biometric profile in the NestJS backend:           *)
(* BiometricsService.enrollFace, enrollFingerprint, revokeBiometrics and   *)
(* skipBiometrics, AuthService.register, and the flag synchronisation at   *)
(* the end of AuthService.login.  A handler runs on Node's event loop and  *)
(* gives up control at every await, and no transaction spans its           *)
(* statements, so each database statement is one action here and requests  *)
(* interleave between them.  A request may be abandoned between any two    *)
(* statements (the process dies, or a query throws).                       *)
(*                                                                         *)
(* Abstractions.  A face sample is a model value, and Alike relates the    *)
(* samples whose similarity reaches the duplicate limit of 0.82: it is     *)
(* symmetric but need not be transitive.  A fingerprint template is a      *)
(* model value, compared exactly as the encrypted string is.               *)
(* The Python calls that turn an image into a sample, the quality checks   *)
(* and the audit trails (append-only, read by none of these handlers) are  *)
(* left out: a request that they reject changes nothing.                   *)
(***************************************************************************)
EXTENDS Naturals, FiniteSets

CONSTANTS Users, PlatformHeads, TenantOf, Faces, Alike, Fingers,
          Requests,      \* requests that can be in flight at the same time
          MaxServed,     \* bound: requests served in all
          Nil            \* SQL NULL, and the absence of a sample

ASSUME EnrollmentAssumption ==
    /\ PlatformHeads \subseteq Users
    /\ Alike \subseteq Faces \X Faces
    /\ \A pair \in Alike : <<pair[2], pair[1]>> \in Alike
    /\ MaxServed \in Nat
    /\ Nil \notin Users \cup Faces \cup Fingers

VARIABLES
    (* table users *)
    exists, faceEmbedding, faceRegistered, fingerprintTemplate,
    fingerprintRegistered, biometricEnrolled, biometricPending,
    (* table user_biometrics: the modalities the user's row reports *)
    userBiometrics,
    (* requests: next statement, target user, samples, a flag read earlier,
       and how many have been started *)
    pc, who, face, finger, saw, served,
    (* history: pairs of users whose enrolments overlapped; users whose row
       register created; users served by two requests at once, or whose
       registration died after it had created the row *)
    racedFace, racedFinger, registered, disturbed

faceColumns == <<faceEmbedding, faceRegistered>>
fingerColumns == <<fingerprintTemplate, fingerprintRegistered>>
flagColumns == <<biometricEnrolled, biometricPending>>
tables == <<exists, faceColumns, fingerColumns, flagColumns, userBiometrics>>
requestVars == <<pc, who, face, finger, saw, served>>
history == <<racedFace, racedFinger, registered, disturbed>>
vars == <<tables, requestVars, history>>

Steps == {"idle", "ef_dup", "ef_write", "ef_flags", "ef_read", "ef_mirror",
          "ep_dup", "ep_write", "ep_read", "ep_mirror", "rv_flags",
          "rv_embedding", "sk_update", "lg_sync", "rg_dupFace",
          "rg_dupFinger", "rg_create", "rg_finger", "rg_face"}

UsersTyped ==
    /\ exists \in [Users -> BOOLEAN]
    /\ faceEmbedding \in [Users -> Faces \cup {Nil}]
    /\ faceRegistered \in [Users -> BOOLEAN]
    /\ fingerprintTemplate \in [Users -> Fingers \cup {Nil}]
    /\ fingerprintRegistered \in [Users -> BOOLEAN]
    /\ biometricEnrolled \in [Users -> BOOLEAN]
    /\ biometricPending \in [Users -> BOOLEAN]
    /\ userBiometrics \in [Users -> SUBSET {"face", "finger"}]

RequestsTyped ==
    /\ pc \in [Requests -> Steps]
    /\ who \in [Requests -> Users \cup {Nil}]
    /\ face \in [Requests -> Faces \cup {Nil}]
    /\ finger \in [Requests -> Fingers \cup {Nil}]
    /\ saw \in [Requests -> BOOLEAN]
    /\ served \in 0..MaxServed

HistoryTyped == /\ racedFace \subseteq SUBSET Users
                /\ racedFinger \subseteq SUBSET Users
                /\ registered \subseteq Users
                /\ disturbed \subseteq Users

TypeOK == UsersTyped /\ RequestsTyped /\ HistoryTyped

\* Some accounts were created by an administrator and have no biometrics yet.
Init ==
    /\ exists \in [Users -> BOOLEAN]
    /\ faceEmbedding = [u \in Users |-> Nil]
    /\ faceRegistered = [u \in Users |-> FALSE]
    /\ fingerprintTemplate = [u \in Users |-> Nil]
    /\ fingerprintRegistered = [u \in Users |-> FALSE]
    /\ biometricEnrolled = [u \in Users |-> FALSE]
    /\ biometricPending = [u \in Users |-> TRUE]
    /\ userBiometrics = [u \in Users |-> {}]
    /\ pc = [r \in Requests |-> "idle"]
    /\ who = [r \in Requests |-> Nil]
    /\ face = [r \in Requests |-> Nil]
    /\ finger = [r \in Requests |-> Nil]
    /\ saw = [r \in Requests |-> FALSE]
    /\ served = 0
    /\ racedFace = {}
    /\ racedFinger = {}
    /\ registered = {}
    /\ disturbed = {}

-----------------------------------------------------------------------------
(* Faulty variants: what TLC must catch when one replaces the code's rule. *)

FaceTaken_enrolledOnly(searched, tenant, f) ==
    \E v \in searched : /\ <<faceEmbedding[v], f>> \in Alike
                        /\ biometricEnrolled[v]
                        /\ TenantOf[v] = tenant

ClearRow_embeddingOnly(u) ==
    /\ faceEmbedding' = [faceEmbedding EXCEPT ![u] = Nil]
    /\ fingerprintTemplate' = [fingerprintTemplate EXCEPT ![u] = Nil]
    /\ fingerprintRegistered' = [fingerprintRegistered EXCEPT ![u] = FALSE]
    /\ biometricEnrolled' = [biometricEnrolled EXCEPT ![u] = FALSE]
    /\ biometricPending' = [biometricPending EXCEPT ![u] = TRUE]
    /\ UNCHANGED faceRegistered

-----------------------------------------------------------------------------
(* Requests.                                                               *)

\* r starts to work on user u.
Serve(r, u) ==
    /\ served < MaxServed
    /\ served' = served + 1
    /\ disturbed' = IF \E q \in Requests \ {r} : who[q] = u
                    THEN disturbed \cup {u} ELSE disturbed

Begin(r, step, u, f, g) ==
    /\ pc[r] = "idle"
    /\ Serve(r, u)
    /\ pc' = [pc EXCEPT ![r] = step]
    /\ who' = [who EXCEPT ![r] = u]
    /\ face' = [face EXCEPT ![r] = f]
    /\ finger' = [finger EXCEPT ![r] = g]
    /\ UNCHANGED saw

Goto(r, step) ==
    /\ pc' = [pc EXCEPT ![r] = step]
    /\ UNCHANGED <<who, face, finger, saw, served>>

Finish(r) ==
    /\ pc' = [pc EXCEPT ![r] = "idle"]
    /\ who' = [who EXCEPT ![r] = Nil]
    /\ face' = [face EXCEPT ![r] = Nil]
    /\ finger' = [finger EXCEPT ![r] = Nil]
    /\ saw' = [saw EXCEPT ![r] = FALSE]
    /\ UNCHANGED served

\* The handler dies between two statements.
Abort(r) ==
    /\ pc[r] # "idle"
    /\ disturbed' = IF pc[r] \in {"rg_finger", "rg_face"}
                    THEN disturbed \cup {who[r]} ELSE disturbed
    /\ Finish(r)
    /\ UNCHANGED <<tables, racedFace, racedFinger, registered>>

\* The 1:N similarity query over the embeddings of a tenant.
FaceTaken(searched, tenant, f) ==
    \E v \in searched : /\ <<faceEmbedding[v], f>> \in Alike
                        /\ faceRegistered[v]
                        /\ TenantOf[v] = tenant

\* findFirst over the encrypted templates of a tenant.
FingerTaken(tenant, g) ==
    \E v \in Users : fingerprintTemplate[v] = g /\ TenantOf[v] = tenant

\* History: the enrolments that have passed their duplicate check for the
\* one tenant and have not written yet, and those whose samples collide.
FaceChecked == {r \in Requests :
                  \/ pc[r] = "ef_write"
                  \/ pc[r] \in {"rg_dupFinger", "rg_create", "rg_finger", "rg_face"}
                     /\ face[r] # Nil}

FingerChecked == {r \in Requests :
                    \/ pc[r] = "ep_write"
                    \/ pc[r] \in {"rg_create", "rg_finger"} /\ finger[r] # Nil}

FaceRivals(r) == {q \in FaceChecked : /\ <<face[q], face[r]>> \in Alike
                                      /\ TenantOf[who[q]] = TenantOf[who[r]]}

FingerRivals(r) == {q \in FingerChecked : /\ finger[q] = finger[r]
                                          /\ TenantOf[who[q]] = TenantOf[who[r]]}

-----------------------------------------------------------------------------
(* enrollFace                                                              *)

EnrollFace(r) ==
    /\ \E u \in Users, f \in Faces :
         /\ exists[u]
         /\ ~faceRegistered[u]
         /\ Begin(r, "ef_dup", u, f, Nil)
    /\ UNCHANGED <<tables, racedFace, racedFinger, registered>>

EnrollFaceCheck(r) ==
    /\ pc[r] = "ef_dup"
    /\ IF FaceTaken(Users \ {who[r]}, TenantOf[who[r]], face[r])
       THEN Finish(r)
       ELSE Goto(r, "ef_write")
    /\ UNCHANGED <<tables, history>>

EnrollFaceWrite(r) ==
    /\ pc[r] = "ef_write"
    /\ faceEmbedding' = [faceEmbedding EXCEPT ![who[r]] = face[r]]
    /\ faceRegistered' = [faceRegistered EXCEPT ![who[r]] = TRUE]
    /\ racedFace' = racedFace \cup {{who[r], who[q]} : q \in FaceRivals(r)}
    /\ Goto(r, "ef_flags")
    /\ UNCHANGED <<exists, fingerColumns, flagColumns, userBiometrics, racedFinger,
                   registered, disturbed>>

EnrollFaceFlags(r) ==
    /\ pc[r] = "ef_flags"
    /\ biometricEnrolled' = [biometricEnrolled EXCEPT ![who[r]] = TRUE]
    /\ biometricPending' = [biometricPending EXCEPT ![who[r]] = FALSE]
    /\ Goto(r, "ef_read")
    /\ UNCHANGED <<exists, faceColumns, fingerColumns, userBiometrics, history>>

EnrollFaceRead(r) ==
    /\ pc[r] = "ef_read"
    /\ saw' = [saw EXCEPT ![r] = fingerprintRegistered[who[r]]]
    /\ pc' = [pc EXCEPT ![r] = "ef_mirror"]
    /\ UNCHANGED <<tables, history, who, face, finger, served>>

\* upsert: the other modality is written only when the row is created.
Mirrored(u, modality, other, hasOther) ==
    IF userBiometrics[u] = {}
    THEN {modality} \cup (IF hasOther THEN {other} ELSE {})
    ELSE userBiometrics[u] \cup {modality}

EnrollFaceMirror(r) ==
    /\ pc[r] = "ef_mirror"
    /\ userBiometrics' = [userBiometrics EXCEPT ![who[r]] =
                            Mirrored(who[r], "face", "finger", saw[r])]
    /\ Finish(r)
    /\ UNCHANGED <<exists, faceColumns, fingerColumns, flagColumns, history>>

-----------------------------------------------------------------------------
(* enrollFingerprint                                                       *)

EnrollFingerprint(r) ==
    /\ \E u \in Users, g \in Fingers :
         /\ exists[u]
         /\ fingerprintTemplate[u] = Nil
         /\ Begin(r, "ep_dup", u, Nil, g)
    /\ UNCHANGED <<tables, racedFace, racedFinger, registered>>

EnrollFingerprintCheck(r) ==
    /\ pc[r] = "ep_dup"
    /\ IF FingerTaken(TenantOf[who[r]], finger[r])
       THEN Finish(r)
       ELSE Goto(r, "ep_write")
    /\ UNCHANGED <<tables, history>>

\* One statement writes the template and its flag.
StoreFingerprint(u, g) ==
    /\ fingerprintTemplate' = [fingerprintTemplate EXCEPT ![u] = g]
    /\ fingerprintRegistered' = [fingerprintRegistered EXCEPT ![u] = TRUE]

EnrollFingerprintWrite(r) ==
    /\ pc[r] = "ep_write"
    /\ StoreFingerprint(who[r], finger[r])
    /\ biometricEnrolled' = [biometricEnrolled EXCEPT ![who[r]] = TRUE]
    /\ biometricPending' = [biometricPending EXCEPT ![who[r]] = FALSE]
    /\ racedFinger' = racedFinger \cup {{who[r], who[q]} : q \in FingerRivals(r)}
    /\ Goto(r, "ep_read")
    /\ UNCHANGED <<exists, faceColumns, userBiometrics, racedFace, registered,
                   disturbed>>

EnrollFingerprintRead(r) ==
    /\ pc[r] = "ep_read"
    /\ saw' = [saw EXCEPT ![r] = faceRegistered[who[r]]]
    /\ pc' = [pc EXCEPT ![r] = "ep_mirror"]
    /\ UNCHANGED <<tables, history, who, face, finger, served>>

EnrollFingerprintMirror(r) ==
    /\ pc[r] = "ep_mirror"
    /\ userBiometrics' = [userBiometrics EXCEPT ![who[r]] =
                            Mirrored(who[r], "finger", "face", saw[r])]
    /\ Finish(r)
    /\ UNCHANGED <<exists, faceColumns, fingerColumns, flagColumns, history>>

-----------------------------------------------------------------------------
(* revokeBiometrics: one statement for the row, a second for the vector    *)
(* column; user_biometrics is not touched.                                 *)

Revoke(r) ==
    /\ \E u \in Users : exists[u] /\ Begin(r, "rv_flags", u, Nil, Nil)
    /\ UNCHANGED <<tables, racedFace, racedFinger, registered>>

ClearRow(u) ==
    /\ fingerprintTemplate' = [fingerprintTemplate EXCEPT ![u] = Nil]
    /\ fingerprintRegistered' = [fingerprintRegistered EXCEPT ![u] = FALSE]
    /\ faceRegistered' = [faceRegistered EXCEPT ![u] = FALSE]
    /\ biometricEnrolled' = [biometricEnrolled EXCEPT ![u] = FALSE]
    /\ biometricPending' = [biometricPending EXCEPT ![u] = TRUE]
    /\ UNCHANGED faceEmbedding

RevokeFlags(r) ==
    /\ pc[r] = "rv_flags"
    /\ ClearRow(who[r])
    /\ Goto(r, "rv_embedding")
    /\ UNCHANGED <<exists, userBiometrics, history>>

RevokeEmbedding(r) ==
    /\ pc[r] = "rv_embedding"
    /\ faceEmbedding' = [faceEmbedding EXCEPT ![who[r]] = Nil]
    /\ Finish(r)
    /\ UNCHANGED <<exists, faceRegistered, fingerColumns, flagColumns,
                   userBiometrics, history>>

-----------------------------------------------------------------------------
(* skipBiometrics, and the end of login.                                   *)

Skip(r) ==
    /\ \E u \in Users : exists[u] /\ Begin(r, "sk_update", u, Nil, Nil)
    /\ UNCHANGED <<tables, racedFace, racedFinger, registered>>

SkipUpdate(r) ==
    /\ pc[r] = "sk_update"
    /\ biometricPending' = [biometricPending EXCEPT ![who[r]] = FALSE]
    /\ Finish(r)
    /\ UNCHANGED <<exists, faceColumns, fingerColumns, biometricEnrolled,
                   userBiometrics, history>>

\* Credentials are valid and the account is not blocked; getStatus is read.
Login(r) ==
    /\ pc[r] = "idle"
    /\ \E u \in Users :
         /\ exists[u]
         /\ Serve(r, u)
         /\ who' = [who EXCEPT ![r] = u]
         /\ saw' = [saw EXCEPT ![r] = /\ u \notin PlatformHeads
                                      /\ faceRegistered[u] \/ fingerprintRegistered[u]]
    /\ pc' = [pc EXCEPT ![r] = "lg_sync"]
    /\ UNCHANGED <<tables, racedFace, racedFinger, registered, face, finger>>

LoginSync(r) ==
    /\ pc[r] = "lg_sync"
    /\ biometricEnrolled' = [biometricEnrolled EXCEPT ![who[r]] = saw[r]]
    /\ biometricPending' = [biometricPending EXCEPT ![who[r]] =
                              ~saw[r] /\ who[r] \notin PlatformHeads]
    /\ Finish(r)
    /\ UNCHANGED <<exists, faceColumns, fingerColumns, userBiometrics, history>>

-----------------------------------------------------------------------------
(* register: the row first, the samples in later statements.               *)

Register(r) ==
    /\ \E u \in Users, f \in Faces \cup {Nil}, g \in Fingers \cup {Nil} :
         /\ ~exists[u]
         /\ f # Nil \/ g # Nil
         /\ Begin(r, "rg_dupFace", u, f, g)
    /\ UNCHANGED <<tables, racedFace, racedFinger, registered>>

RegisterCheckFace(r) ==
    /\ pc[r] = "rg_dupFace"
    /\ IF face[r] # Nil /\ FaceTaken(Users, TenantOf[who[r]], face[r])
       THEN Finish(r)
       ELSE Goto(r, "rg_dupFinger")
    /\ UNCHANGED <<tables, history>>

RegisterCheckFinger(r) ==
    /\ pc[r] = "rg_dupFinger"
    /\ IF finger[r] # Nil /\ FingerTaken(TenantOf[who[r]], finger[r])
       THEN Finish(r)
       ELSE Goto(r, "rg_create")
    /\ UNCHANGED <<tables, history>>

\* users.email is unique: the second of two registrations fails here.
RegisterCreate(r) ==
    /\ pc[r] = "rg_create"
    /\ \/ /\ exists[who[r]]
          /\ Finish(r)
          /\ UNCHANGED <<exists, faceRegistered, fingerprintRegistered, registered>>
       \/ /\ ~exists[who[r]]
          /\ exists' = [exists EXCEPT ![who[r]] = TRUE]
          /\ registered' = registered \cup {who[r]}
          /\ faceRegistered' = [faceRegistered EXCEPT ![who[r]] = face[r] # Nil]
          /\ fingerprintRegistered' =
                [fingerprintRegistered EXCEPT ![who[r]] = finger[r] # Nil]
          /\ Goto(r, "rg_finger")
    /\ UNCHANGED <<faceEmbedding, fingerprintTemplate, flagColumns,
                   userBiometrics, racedFace, racedFinger, disturbed>>

RegisterPutFinger(r) ==
    /\ pc[r] = "rg_finger"
    /\ IF finger[r] # Nil
       THEN /\ fingerprintTemplate' = [fingerprintTemplate EXCEPT ![who[r]] = finger[r]]
            /\ racedFinger' = racedFinger \cup {{who[r], who[q]} : q \in FingerRivals(r)}
       ELSE UNCHANGED <<fingerprintTemplate, racedFinger>>
    /\ Goto(r, "rg_face")
    /\ UNCHANGED <<exists, faceColumns, fingerprintRegistered, flagColumns,
                   userBiometrics, racedFace, registered, disturbed>>

RegisterPutFace(r) ==
    /\ pc[r] = "rg_face"
    /\ IF face[r] # Nil
       THEN /\ faceEmbedding' = [faceEmbedding EXCEPT ![who[r]] = face[r]]
            /\ racedFace' = racedFace \cup {{who[r], who[q]} : q \in FaceRivals(r)}
       ELSE UNCHANGED <<faceEmbedding, racedFace>>
    /\ Finish(r)
    /\ UNCHANGED <<exists, faceRegistered, fingerColumns, flagColumns,
                   userBiometrics, racedFinger, registered, disturbed>>

-----------------------------------------------------------------------------
FaceStep(r) == \/ EnrollFace(r) \/ EnrollFaceCheck(r) \/ EnrollFaceWrite(r)
               \/ EnrollFaceFlags(r) \/ EnrollFaceRead(r) \/ EnrollFaceMirror(r)

FingerStep(r) == \/ EnrollFingerprint(r) \/ EnrollFingerprintCheck(r)
                 \/ EnrollFingerprintWrite(r) \/ EnrollFingerprintRead(r)
                 \/ EnrollFingerprintMirror(r)

AccountStep(r) == \/ Revoke(r) \/ RevokeFlags(r) \/ RevokeEmbedding(r)
                  \/ Skip(r) \/ SkipUpdate(r) \/ Login(r) \/ LoginSync(r)

RegisterStep(r) == \/ Register(r) \/ RegisterCheckFace(r) \/ RegisterCheckFinger(r)
                   \/ RegisterCreate(r) \/ RegisterPutFinger(r) \/ RegisterPutFace(r)

Next == \E r \in Requests : \/ FaceStep(r) \/ FingerStep(r) \/ AccountStep(r)
                            \/ RegisterStep(r) \/ Abort(r)

Spec == Init /\ [][Next]_vars

-----------------------------------------------------------------------------
(* Properties.                                                             *)

Idle(u) == \A r \in Requests : who[r] # u

SameTenant(u, v) == u # v /\ TenantOf[u] = TenantOf[v]

SharesFace(u, v) ==
    /\ SameTenant(u, v)
    /\ faceRegistered[u] /\ faceRegistered[v]
    /\ <<faceEmbedding[u], faceEmbedding[v]>> \in Alike

SharesFinger(u, v) ==
    /\ SameTenant(u, v)
    /\ fingerprintTemplate[u] = fingerprintTemplate[v]
    /\ fingerprintTemplate[u] # Nil

\* The duplicate check is airtight but for one window: two users of a tenant
\* hold the same face only if both enrolments were between their check and
\* their write at the same time.  No order of enrolments, registrations,
\* revocations and crashes that avoids this overlap produces a duplicate.
DuplicateFaceNeedsRace ==
    \A u, v \in Users : SharesFace(u, v) => {u, v} \in racedFace

\* The same for fingerprint templates.
DuplicateFingerNeedsRace ==
    \A u, v \in Users : SharesFinger(u, v) => {u, v} \in racedFinger

\* Both together: whatever two accounts of a tenant share took two requests
\* that overlapped between check and write.
DuplicateNeedsRace == DuplicateFaceNeedsRace /\ DuplicateFingerNeedsRace

\* The fingerprint columns of an account that did not register itself are
\* never half written, however enrolments, revocations and crashes interleave:
\* each of these changes template and flag in one statement.
FingerFlagMatchesTemplate ==
    \A u \in Users \ registered :
        fingerprintRegistered[u] <=> fingerprintTemplate[u] # Nil

\* A user nobody is working on is marked as enrolled only with the samples to
\* show for it, unless two requests have worked on the account at once or its
\* registration died halfway.  Any other crash is harmless.
SettledIsConsistent ==
    \A u \in Users \ disturbed : Idle(u) =>
        /\ faceRegistered[u] => faceEmbedding[u] # Nil
        /\ fingerprintRegistered[u] <=> fingerprintTemplate[u] # Nil
        /\ biometricEnrolled[u] => faceRegistered[u] \/ fingerprintRegistered[u]

\* No face is registered twice within a tenant.
UniqueFacePerTenant == \A u, v \in Users : ~SharesFace(u, v)
=============================================================================
