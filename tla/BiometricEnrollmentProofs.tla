--------------------- MODULE BiometricEnrollmentProofs ---------------------
(***************************************************************************)
(* Theorems about BiometricEnrollment, for every set of users, tenants,    *)
(* samples and requests, every similarity relation and any number of     *)
(* requests.  An enrolment past its duplicate check knows one thing: any  *)
(* registered user of its tenant with a colliding sample raced with it.    *)
(* At the end: the run with the pages is a run of each.                    *)
(***************************************************************************)
EXTENDS MCEnrollmentPages, TLAPS

Opening == {"idle", "rg_dupFace", "rg_dupFinger", "rg_create"}

\* A request under way has a user, who has a row unless a registration is
\* still on its way to creating it; a row not yet created holds no sample;
\* a fingerprint enrolment has a template.
Rows ==
    /\ \A r \in Requests : pc[r] # "idle" => who[r] \in Users
    /\ \A r \in Requests : pc[r] \notin Opening => exists[who[r]]
    /\ \A u \in Users : ~exists[u] => faceEmbedding[u] = Nil /\ fingerprintTemplate[u] = Nil
    /\ \A r \in Requests : pc[r] \in {"ep_dup", "ep_write"} => finger[r] \in Fingers

BaseInv == TypeOK /\ Rows

-----------------------------------------------------------------------------
(* How a request moves.                                                    *)

LEMMA GotoTyped ==
    ASSUME RequestsTyped, NEW r \in Requests, NEW next \in Steps, Goto(r, next)
    PROVE  RequestsTyped'
  BY DEF RequestsTyped, Goto

LEMMA FinishTyped ==
    ASSUME RequestsTyped, NEW r \in Requests, Finish(r)
    PROVE  RequestsTyped'
  BY DEF RequestsTyped, Finish, Steps

LEMMA BeginTyped ==
    ASSUME NEW r \in Requests, NEW next \in Steps, NEW u \in Users,
           NEW f \in Faces \cup {Nil}, NEW g \in Fingers \cup {Nil},
           RequestsTyped, Begin(r, next, u, f, g)
    PROVE  RequestsTyped'
  BY EnrollmentAssumption DEF RequestsTyped, Begin, Serve

\* A step of r leaves the other requests alone.
OthersKept(r) ==
    \A q \in Requests \ {r} : /\ pc'[q] = pc[q] /\ who'[q] = who[q]
                              /\ face'[q] = face[q] /\ finger'[q] = finger[q]
                              /\ saw'[q] = saw[q]

LEMMA GotoMoves ==
    ASSUME RequestsTyped, NEW r \in Requests, NEW next, Goto(r, next)
    PROVE  OthersKept(r) /\ pc'[r] = next /\ UNCHANGED <<who, face, finger, saw>>
  BY DEF RequestsTyped, OthersKept, Goto

LEMMA FinishMoves ==
    ASSUME RequestsTyped, NEW r \in Requests, Finish(r)
    PROVE  OthersKept(r) /\ pc'[r] = "idle" /\ who'[r] = Nil
  BY DEF RequestsTyped, OthersKept, Finish

LEMMA BeginMoves ==
    ASSUME RequestsTyped, NEW r \in Requests, NEW next, NEW u, NEW f, NEW g,
           Begin(r, next, u, f, g)
    PROVE  OthersKept(r) /\ pc'[r] = next
  BY DEF RequestsTyped, OthersKept, Begin

\* The users behind colliding samples are users.
LEMMA RacesTyped ==
    ASSUME BaseInv, NEW r \in Requests, pc[r] # "idle"
    PROVE  /\ {{who[r], who[q]} : q \in FaceRivals(r)} \subseteq SUBSET Users
           /\ {{who[r], who[q]} : q \in FingerRivals(r)} \subseteq SUBSET Users
  BY DEF BaseInv, Rows, FaceRivals, FingerRivals, FaceChecked, FingerChecked

-----------------------------------------------------------------------------

\* Every statement of every handler keeps types and Rows.
LEMMA NextBase == BaseInv /\ [Next]_vars => BaseInv'
<1> USE EnrollmentAssumption
    DEF tables, faceColumns, fingerColumns, flagColumns, history, BaseInv
<1> SUFFICES ASSUME BaseInv, [Next]_vars PROVE BaseInv'
  OBVIOUS
<1>1. ASSUME NEW r \in Requests, FaceStep(r) PROVE BaseInv'
  <2>1. RequestsTyped'
    <3>1. CASE EnrollFace(r)
      BY <3>1, BeginTyped DEF TypeOK, EnrollFace, Steps
    <3>2. CASE EnrollFaceRead(r)
      BY <3>2 DEF TypeOK, UsersTyped, RequestsTyped, Rows, EnrollFaceRead, Steps
    <3>3. CASE EnrollFaceCheck(r) \/ EnrollFaceWrite(r) \/ EnrollFaceFlags(r)
               \/ EnrollFaceMirror(r)
      BY <3>3, GotoTyped, FinishTyped
         DEF TypeOK, EnrollFaceCheck, EnrollFaceWrite, EnrollFaceFlags,
             EnrollFaceMirror, Steps
    <3>. QED  BY <1>1, <3>1, <3>2, <3>3 DEF FaceStep
  <2>2. UsersTyped'
    <3>1. CASE EnrollFaceWrite(r)
      BY <3>1 DEF TypeOK, UsersTyped, RequestsTyped, Rows, EnrollFaceWrite
    <3>2. CASE EnrollFaceFlags(r)
      BY <3>2 DEF TypeOK, UsersTyped, RequestsTyped, Rows, EnrollFaceFlags
    <3>3. CASE EnrollFaceMirror(r)
      BY <3>3 DEF TypeOK, UsersTyped, RequestsTyped, Rows, EnrollFaceMirror,
                  Mirrored
    <3>4. CASE EnrollFace(r) \/ EnrollFaceCheck(r) \/ EnrollFaceRead(r)
      BY <3>4 DEF TypeOK, UsersTyped, EnrollFace, EnrollFaceCheck,
                  EnrollFaceRead
    <3>. QED  BY <1>1, <3>1, <3>2, <3>3, <3>4 DEF FaceStep
  <2>3. HistoryTyped'
    BY <1>1, RacesTyped DEF TypeOK, RequestsTyped, HistoryTyped, Rows, Begin, Serve, FaceStep, EnrollFace,
                            EnrollFaceCheck, EnrollFaceWrite, EnrollFaceFlags,
                            EnrollFaceRead, EnrollFaceMirror
  <2>4. Rows'
    BY <1>1 DEF TypeOK, UsersTyped, RequestsTyped, Rows, Opening, Begin, Goto,
                Finish, Mirrored, FaceStep, EnrollFace, EnrollFaceCheck,
                EnrollFaceWrite, EnrollFaceFlags, EnrollFaceRead,
                EnrollFaceMirror
  <2>. QED  BY <2>1, <2>2, <2>3, <2>4 DEF TypeOK
<1>2. ASSUME NEW r \in Requests, FingerStep(r) PROVE BaseInv'
  <2>1. RequestsTyped'
    <3>1. CASE EnrollFingerprint(r)
      BY <3>1, BeginTyped DEF TypeOK, EnrollFingerprint, Steps
    <3>2. CASE EnrollFingerprintRead(r)
      BY <3>2 DEF TypeOK, UsersTyped, RequestsTyped, Rows, EnrollFingerprintRead, Steps
    <3>3. CASE EnrollFingerprintCheck(r) \/ EnrollFingerprintWrite(r) \/ EnrollFingerprintMirror(r)
      BY <3>3, GotoTyped, FinishTyped
         DEF TypeOK, EnrollFingerprintCheck, EnrollFingerprintWrite,
             EnrollFingerprintMirror, Steps
    <3>. QED  BY <1>2, <3>1, <3>2, <3>3 DEF FingerStep
  <2>2. UsersTyped'
    <3>1. CASE EnrollFingerprintWrite(r)
      BY <3>1 DEF TypeOK, UsersTyped, RequestsTyped, Rows,
                  EnrollFingerprintWrite, StoreFingerprint
    <3>2. CASE EnrollFingerprintMirror(r)
      BY <3>2 DEF TypeOK, UsersTyped, RequestsTyped, Rows,
                  EnrollFingerprintMirror, Mirrored
    <3>3. CASE EnrollFingerprint(r) \/ EnrollFingerprintCheck(r) \/
             EnrollFingerprintRead(r)
      BY <3>3 DEF TypeOK, UsersTyped, EnrollFingerprint,
                  EnrollFingerprintCheck, EnrollFingerprintRead
    <3>. QED  BY <1>2, <3>1, <3>2, <3>3 DEF FingerStep
  <2>3. HistoryTyped'
    BY <1>2, RacesTyped DEF TypeOK, RequestsTyped, HistoryTyped, Rows, Begin, Serve, FingerStep,
                            EnrollFingerprint, EnrollFingerprintCheck,
                            EnrollFingerprintWrite, EnrollFingerprintRead,
                            EnrollFingerprintMirror
  <2>4. Rows'
    BY <1>2 DEF TypeOK, UsersTyped, RequestsTyped, Rows, Opening, Begin, Goto,
                Finish, StoreFingerprint, Mirrored, FingerStep,
                EnrollFingerprint, EnrollFingerprintCheck,
                EnrollFingerprintWrite, EnrollFingerprintRead,
                EnrollFingerprintMirror
  <2>. QED  BY <2>1, <2>2, <2>3, <2>4 DEF TypeOK
<1>3. ASSUME NEW r \in Requests, AccountStep(r) PROVE BaseInv'
  <2>1. RequestsTyped'
    <3>1. CASE Login(r)
      BY <3>1 DEF TypeOK, UsersTyped, RequestsTyped, Login, Serve, Steps
    <3>2. CASE LoginSync(r) \/ SkipUpdate(r) \/ RevokeEmbedding(r) \/ RevokeFlags(r)
      BY <3>2, GotoTyped, FinishTyped
         DEF TypeOK, LoginSync, SkipUpdate, RevokeEmbedding, RevokeFlags, Steps
    <3>3. CASE Revoke(r) \/ Skip(r)
      BY <3>3 DEF TypeOK, RequestsTyped, Revoke, Skip, Begin, Serve, Steps
    <3>. QED  BY <1>3, <3>1, <3>2, <3>3 DEF AccountStep
  <2>2. UsersTyped'
    <3>1. CASE RevokeFlags(r)
      BY <3>1 DEF TypeOK, UsersTyped, RequestsTyped, Rows, RevokeFlags,
                  ClearRow
    <3>2. CASE RevokeEmbedding(r)
      BY <3>2 DEF TypeOK, UsersTyped, RequestsTyped, Rows, RevokeEmbedding
    <3>3. CASE SkipUpdate(r)
      BY <3>3 DEF TypeOK, UsersTyped, RequestsTyped, Rows, SkipUpdate
    <3>4. CASE LoginSync(r)
      BY <3>4 DEF TypeOK, UsersTyped, RequestsTyped, Rows, LoginSync
    <3>5. CASE Revoke(r) \/ Skip(r) \/ Login(r)
      BY <3>5 DEF TypeOK, UsersTyped, Revoke, Skip, Login
    <3>. QED  BY <1>3, <3>1, <3>2, <3>3, <3>4, <3>5 DEF AccountStep
  <2>3. HistoryTyped'
    BY <1>3, RacesTyped DEF TypeOK, RequestsTyped, HistoryTyped, Rows, Begin, Serve, AccountStep, Revoke,
                            RevokeFlags, RevokeEmbedding, Skip, SkipUpdate,
                            Login, LoginSync
  <2>4. Rows'
    BY <1>3 DEF TypeOK, UsersTyped, RequestsTyped, Rows, Opening, Begin, Goto,
                Finish, ClearRow, AccountStep, Revoke, RevokeFlags,
                RevokeEmbedding, Skip, SkipUpdate, Login, LoginSync
  <2>. QED  BY <2>1, <2>2, <2>3, <2>4 DEF TypeOK
<1>4. ASSUME NEW r \in Requests, RegisterStep(r) PROVE BaseInv'
  <2>1. RequestsTyped'
    <3>1. CASE Register(r)
      BY <3>1, BeginTyped DEF TypeOK, Register, Steps
    <3>2. CASE RegisterCheckFace(r) \/ RegisterCheckFinger(r) \/ RegisterCreate(r)
               \/ RegisterPutFinger(r) \/ RegisterPutFace(r)
      BY <3>2, GotoTyped, FinishTyped
         DEF TypeOK, RegisterCheckFace, RegisterCheckFinger, RegisterCreate,
             RegisterPutFinger, RegisterPutFace, Steps
    <3>. QED  BY <1>4, <3>1, <3>2 DEF RegisterStep
  <2>2. UsersTyped'
    <3>1. CASE RegisterCreate(r)
      BY <3>1 DEF TypeOK, UsersTyped, RegisterCreate
    <3>2. CASE RegisterPutFinger(r)
      BY <3>2 DEF TypeOK, UsersTyped, RequestsTyped, RegisterPutFinger
    <3>3. CASE RegisterPutFace(r)
      BY <3>3 DEF TypeOK, UsersTyped, RequestsTyped, RegisterPutFace
    <3>4. CASE Register(r) \/ RegisterCheckFace(r) \/ RegisterCheckFinger(r)
      BY <3>4 DEF TypeOK, UsersTyped, Register, RegisterCheckFace, RegisterCheckFinger
    <3>. QED  BY <1>4, <3>1, <3>2, <3>3, <3>4 DEF RegisterStep
  <2>3. HistoryTyped'
    BY <1>4, RacesTyped DEF TypeOK, RequestsTyped, HistoryTyped, Rows, Begin, Serve, RegisterStep, Register,
                            RegisterCheckFace, RegisterCheckFinger,
                            RegisterCreate, RegisterPutFinger, RegisterPutFace
  <2>4. Rows'
    BY <1>4 DEF TypeOK, UsersTyped, RequestsTyped, Rows, Opening, Begin, Goto,
                Finish, RegisterStep, Register, RegisterCheckFace,
                RegisterCheckFinger, RegisterCreate, RegisterPutFinger,
                RegisterPutFace
  <2>. QED  BY <2>1, <2>2, <2>3, <2>4 DEF TypeOK
<1>5. ASSUME NEW r \in Requests, Abort(r) PROVE BaseInv'
  <2>1. RequestsTyped'
    BY <1>5, GotoTyped, FinishTyped DEF TypeOK, UsersTyped, RequestsTyped,
                                        Rows, Begin, Serve, Steps, Abort
  <2>2. UsersTyped'
    BY <1>5 DEF TypeOK, UsersTyped, RequestsTyped, Rows, Abort
  <2>3. HistoryTyped'
    BY <1>5, RacesTyped DEF TypeOK, RequestsTyped, HistoryTyped, Rows, Begin, Serve, Abort
  <2>4. Rows'
    BY <1>5 DEF TypeOK, UsersTyped, RequestsTyped, Rows, Opening, Begin, Goto,
                Finish, Abort
  <2>. QED  BY <2>1, <2>2, <2>3, <2>4 DEF TypeOK
<1>6. CASE UNCHANGED vars
  BY <1>6 DEF vars, requestVars, TypeOK, UsersTyped, RequestsTyped, HistoryTyped, Rows
<1>. QED
  BY <1>1, <1>2, <1>3, <1>4, <1>5, <1>6 DEF Next

\* Initially nothing is stored and no request is under way.
LEMMA InitBase == Init => BaseInv
  BY EnrollmentAssumption DEF Init, BaseInv, TypeOK, UsersTyped, RequestsTyped, HistoryTyped, Rows,
         Opening, Steps

LEMMA BaseInvariance == Spec => []BaseInv
  BY InitBase, NextBase, PTL DEF Spec

\* Every column, local and history variable keeps its type.
THEOREM TypeCorrect == Spec => []TypeOK
<1>1. BaseInv => TypeOK
  BY DEF BaseInv
<1>. QED  BY <1>1, BaseInvariance, PTL

-----------------------------------------------------------------------------
(* Faces.                                                                  *)

\* Whoever collides with an enrolment that has passed its check raced with it.
FaceKnows ==
    \A r \in FaceChecked : \A v \in Users :
        /\ SameTenant(who[r], v)
        /\ faceRegistered[v]
        /\ <<faceEmbedding[v], face[r]>> \in Alike
        => {who[r], v} \in racedFace

FaceInv == FaceKnows /\ DuplicateFaceNeedsRace

\* A step of r after which no user has a face registered that it had not.
LEMMA QuietFace ==
    ASSUME BaseInv, FaceInv, NEW r \in Requests, OthersKept(r),
           racedFace' = racedFace,
           \A v \in Users : faceRegistered'[v] /\ faceEmbedding'[v] # Nil =>
               faceRegistered[v] /\ faceEmbedding'[v] = faceEmbedding[v],
           r \in FaceChecked' => /\ r \in FaceChecked
                                 /\ who'[r] = who[r] /\ face'[r] = face[r]
    PROVE  FaceInv'
<1>1. \A f : <<Nil, f>> \notin Alike
  BY EnrollmentAssumption
<1>2. FaceKnows'
  <2> SUFFICES ASSUME NEW q \in FaceChecked', NEW v \in Users,
                      SameTenant(who'[q], v), faceRegistered'[v],
                      <<faceEmbedding'[v], face'[q]>> \in Alike
               PROVE  {who'[q], v} \in racedFace
    BY DEF FaceKnows, SameTenant
  <2>1. q \in FaceChecked /\ who'[q] = who[q] /\ face'[q] = face[q]
    BY DEF OthersKept, FaceChecked
  <2>2. faceRegistered[v] /\ faceEmbedding'[v] = faceEmbedding[v]
    BY <1>1
  <2>. QED  BY <2>1, <2>2 DEF FaceInv, FaceKnows
<1>3. DuplicateFaceNeedsRace'
  <2> SUFFICES ASSUME NEW u \in Users, NEW v \in Users, SharesFace(u, v)'
               PROVE  {u, v} \in racedFace
    BY DEF DuplicateFaceNeedsRace
  <2>1. SharesFace(u, v)
    <3>1. \A f : <<f, Nil>> \notin Alike
      BY EnrollmentAssumption
    <3>. QED  BY <1>1, <3>1 DEF SharesFace, SameTenant
  <2>. QED  BY <2>1 DEF FaceInv, DuplicateFaceNeedsRace
<1>. QED  BY <1>2, <1>3 DEF FaceInv

\* The check finds nobody: r knows of no collision at all.
LEMMA CheckedFace ==
    ASSUME FaceInv, NEW r \in Requests, OthersKept(r), NEW S,
           S = Users \/ S = Users \ {who[r]},
           ~FaceTaken(S, TenantOf[who[r]], face[r]),
           UNCHANGED <<faceColumns, racedFace, who, face>>
    PROVE  FaceInv'
<1>1. FaceKnows'
  <2> SUFFICES ASSUME NEW q \in FaceChecked', NEW v \in Users,
                      SameTenant(who[q], v), faceRegistered[v],
                      <<faceEmbedding[v], face[q]>> \in Alike
               PROVE  {who[q], v} \in racedFace
    BY DEF FaceKnows, SameTenant, faceColumns
  <2>1. q # r
    BY DEF FaceTaken, SameTenant
  <2>2. q \in FaceChecked
    BY <2>1 DEF OthersKept, FaceChecked
  <2>. QED  BY <2>2 DEF FaceInv, FaceKnows
<1>2. DuplicateFaceNeedsRace'
  BY DEF FaceInv, DuplicateFaceNeedsRace, SharesFace, SameTenant, faceColumns
<1>. QED  BY <1>1, <1>2 DEF FaceInv

\* The write: the collisions r knows of, and its rivals, have raced.
LEMMA StoredFace ==
    ASSUME BaseInv, FaceInv, NEW r \in FaceChecked, OthersKept(r),
           faceEmbedding' = [faceEmbedding EXCEPT ![who[r]] = face[r]],
           racedFace' = racedFace \cup {{who[r], who[q]} : q \in FaceRivals(r)},
           \A v \in Users \ {who[r]} : faceRegistered'[v] = faceRegistered[v],
           r \notin FaceChecked'
    PROVE  FaceInv'
<1>1. who[r] \in Users /\ faceEmbedding'[who[r]] = face[r]
      /\ \A v \in Users \ {who[r]} : faceEmbedding'[v] = faceEmbedding[v]
  BY DEF BaseInv, TypeOK, UsersTyped, Rows, FaceChecked
<1>2. FaceKnows'
  <2> SUFFICES ASSUME NEW q \in FaceChecked', NEW v \in Users,
                      SameTenant(who'[q], v), faceRegistered'[v],
                      <<faceEmbedding'[v], face'[q]>> \in Alike
               PROVE  {who'[q], v} \in racedFace'
    BY DEF FaceKnows, SameTenant
  <2>1. q \in FaceChecked /\ who'[q] = who[q] /\ face'[q] = face[q]
    BY DEF OthersKept, FaceChecked
  <2>2. CASE v = who[r]
    <3>1. q \in FaceRivals(r)
      BY <1>1, <2>1, <2>2, EnrollmentAssumption DEF FaceRivals, SameTenant
    <3>. QED  BY <2>1, <2>2, <3>1
  <2>3. CASE v # who[r]
    BY <1>1, <2>1, <2>3 DEF FaceInv, FaceKnows
  <2>. QED  BY <2>2, <2>3
<1>3. ASSUME NEW v \in Users, SameTenant(who[r], v), faceRegistered[v],
             <<faceEmbedding[v], face[r]>> \in Alike
      PROVE  {who[r], v} \in racedFace
  BY <1>3 DEF FaceInv, FaceKnows
<1>4. DuplicateFaceNeedsRace'
  <2> SUFFICES ASSUME NEW u \in Users, NEW v \in Users, SharesFace(u, v)'
               PROVE  {u, v} \in racedFace'
    BY DEF DuplicateFaceNeedsRace
  <2>1. u # v /\ TenantOf[u] = TenantOf[v] /\ faceRegistered'[u] /\ faceRegistered'[v]
        /\ <<faceEmbedding'[u], faceEmbedding'[v]>> \in Alike
        /\ <<faceEmbedding'[v], faceEmbedding'[u]>> \in Alike
    BY EnrollmentAssumption DEF SharesFace, SameTenant
  <2>2. CASE u = who[r]
    BY <1>1, <1>3, <2>1, <2>2 DEF SameTenant
  <2>3. CASE v = who[r]
    <3>1. {v, u} \in racedFace
      BY <1>1, <1>3, <2>1, <2>3 DEF SameTenant
    <3>2. {v, u} = {u, v}
      OBVIOUS
    <3>. QED  BY <3>1, <3>2
  <2>4. CASE u # who[r] /\ v # who[r]
    BY <1>1, <2>1, <2>4 DEF FaceInv, DuplicateFaceNeedsRace, SharesFace, SameTenant
  <2>. QED  BY <2>2, <2>3, <2>4
<1>. QED  BY <1>2, <1>4 DEF FaceInv

\* Every statement of every handler preserves FaceInv.
LEMMA NextFace == BaseInv /\ FaceInv /\ [Next]_vars => FaceInv'
<1> SUFFICES ASSUME BaseInv, FaceInv, [Next]_vars PROVE FaceInv'
  OBVIOUS
<1> USE DEF tables, faceColumns, fingerColumns, flagColumns, history
<1>0. RequestsTyped
  BY DEF BaseInv, TypeOK
<1>1. ASSUME NEW r \in Requests,
             EnrollFace(r) \/ EnrollFingerprint(r) \/ Revoke(r) \/ Skip(r) \/
             Register(r) \/ Login(r)
      PROVE  FaceInv'
  <2>1. OthersKept(r)
    BY <1>0, <1>1, BeginMoves DEF RequestsTyped, OthersKept, EnrollFace,
                                  EnrollFingerprint, Revoke, Skip, Register,
                                  Login
  <2>2. r \in FaceChecked' => r \in FaceChecked /\ who'[r] = who[r] /\ face'[r] = face[r]
    BY <1>0, <1>1, BeginMoves DEF FaceChecked, RequestsTyped, EnrollFace,
                                  EnrollFingerprint, Revoke, Skip, Register,
                                  Login
  <2>3. racedFace' = racedFace /\ \A v \in Users :
          faceRegistered'[v] /\ faceEmbedding'[v] # Nil =>
            faceRegistered[v] /\ faceEmbedding'[v] = faceEmbedding[v]
    BY <1>1 DEF EnrollFace, EnrollFingerprint, Revoke, Skip, Register, Login
  <2>. QED  BY <2>1, <2>2, <2>3, QuietFace
<1>2. ASSUME NEW r \in Requests,
             EnrollFaceFlags(r) \/ EnrollFaceRead(r) \/ EnrollFaceMirror(r) \/
             EnrollFingerprintCheck(r) \/ EnrollFingerprintWrite(r) \/
             EnrollFingerprintRead(r) \/ EnrollFingerprintMirror(r) \/
             SkipUpdate(r) \/ LoginSync(r) \/ RegisterCheckFinger(r) \/
             RegisterPutFinger(r) \/ Abort(r)
      PROVE  FaceInv'
  <2>1. OthersKept(r)
    BY <1>0, <1>2, GotoMoves, FinishMoves DEF RequestsTyped, OthersKept,
                                              EnrollFaceFlags, EnrollFaceRead,
                                              EnrollFaceMirror,
                                              EnrollFingerprintCheck,
                                              EnrollFingerprintWrite,
                                              EnrollFingerprintRead,
                                              EnrollFingerprintMirror,
                                              SkipUpdate, LoginSync,
                                              RegisterCheckFinger,
                                              RegisterPutFinger, Abort
  <2>2. r \in FaceChecked' => r \in FaceChecked /\ who'[r] = who[r] /\ face'[r] = face[r]
    BY <1>0, <1>2, GotoMoves, FinishMoves DEF FaceChecked, RequestsTyped,
                                              EnrollFaceFlags, EnrollFaceRead,
                                              EnrollFaceMirror,
                                              EnrollFingerprintCheck,
                                              EnrollFingerprintWrite,
                                              EnrollFingerprintRead,
                                              EnrollFingerprintMirror,
                                              SkipUpdate, LoginSync,
                                              RegisterCheckFinger,
                                              RegisterPutFinger, Abort
  <2>3. racedFace' = racedFace /\ \A v \in Users :
          faceRegistered'[v] /\ faceEmbedding'[v] # Nil =>
            faceRegistered[v] /\ faceEmbedding'[v] = faceEmbedding[v]
    BY <1>2 DEF EnrollFaceFlags, EnrollFaceRead, EnrollFaceMirror,
                EnrollFingerprintCheck, EnrollFingerprintWrite,
                EnrollFingerprintRead, EnrollFingerprintMirror, SkipUpdate,
                LoginSync, RegisterCheckFinger, RegisterPutFinger, Abort
  <2>. QED  BY <2>1, <2>2, <2>3, QuietFace
<1>3. ASSUME NEW r \in Requests, RevokeFlags(r) PROVE FaceInv'
  <2>1. OthersKept(r)
    BY <1>0, <1>3, GotoMoves, FinishMoves DEF RevokeFlags
  <2>2. r \in FaceChecked' => r \in FaceChecked /\ who'[r] = who[r] /\ face'[r] = face[r]
    BY <1>0, <1>3, GotoMoves, FinishMoves DEF FaceChecked, RevokeFlags
  <2>3. racedFace' = racedFace /\ \A v \in Users :
          faceRegistered'[v] /\ faceEmbedding'[v] # Nil =>
            faceRegistered[v] /\ faceEmbedding'[v] = faceEmbedding[v]
    BY <1>3 DEF BaseInv, TypeOK, UsersTyped, Rows, ClearRow, RevokeFlags
  <2>. QED  BY <2>1, <2>2, <2>3, QuietFace
<1>4. ASSUME NEW r \in Requests, RevokeEmbedding(r) PROVE FaceInv'
  <2>1. OthersKept(r)
    BY <1>0, <1>4, GotoMoves, FinishMoves DEF RevokeEmbedding
  <2>2. r \in FaceChecked' => r \in FaceChecked /\ who'[r] = who[r] /\ face'[r] = face[r]
    BY <1>0, <1>4, GotoMoves, FinishMoves DEF FaceChecked, RevokeEmbedding
  <2>3. racedFace' = racedFace /\ \A v \in Users :
          faceRegistered'[v] /\ faceEmbedding'[v] # Nil =>
            faceRegistered[v] /\ faceEmbedding'[v] = faceEmbedding[v]
    BY <1>4 DEF BaseInv, TypeOK, UsersTyped, Rows, RevokeEmbedding
  <2>. QED  BY <2>1, <2>2, <2>3, QuietFace
<1>5. ASSUME NEW r \in Requests, RegisterCreate(r) PROVE FaceInv'
  <2>1. OthersKept(r)
    BY <1>0, <1>5, GotoMoves, FinishMoves DEF RegisterCreate
  <2>2. r \in FaceChecked' => r \in FaceChecked /\ who'[r] = who[r] /\ face'[r] = face[r]
    BY <1>0, <1>5, GotoMoves, FinishMoves DEF FaceChecked, RegisterCreate
  <2>3. racedFace' = racedFace /\ \A v \in Users :
          faceRegistered'[v] /\ faceEmbedding'[v] # Nil =>
            faceRegistered[v] /\ faceEmbedding'[v] = faceEmbedding[v]
    BY <1>5 DEF BaseInv, TypeOK, UsersTyped, Rows, RegisterCreate
  <2>. QED  BY <2>1, <2>2, <2>3, QuietFace
<1>6. ASSUME NEW r \in Requests, EnrollFaceCheck(r) PROVE FaceInv'
  <2> DEFINE taken == FaceTaken(Users \ {who[r]}, TenantOf[who[r]], face[r])
  <2>1. UNCHANGED <<faceRegistered, faceEmbedding, racedFace>>
    BY <1>6 DEF EnrollFaceCheck
  <2>2. CASE taken
    <3>1. Finish(r)
      BY <1>6, <2>2 DEF EnrollFaceCheck
    <3>2. OthersKept(r) /\ r \notin FaceChecked'
      BY <1>0, <3>1, FinishMoves DEF FaceChecked
    <3>. QED  BY <2>1, <3>2, QuietFace
  <2>3. CASE ~taken
    <3>1. OthersKept(r) /\ UNCHANGED <<who, face, finger>>
      BY <1>0, <1>6, <2>3, GotoMoves DEF EnrollFaceCheck
    <3>. QED  BY <2>1, <2>3, <3>1, CheckedFace
  <2>. QED  BY <2>2, <2>3
<1>7. ASSUME NEW r \in Requests, EnrollFaceWrite(r) PROVE FaceInv'
  <2>1. OthersKept(r) /\ r \notin FaceChecked'
    BY <1>0, <1>7, GotoMoves DEF EnrollFaceWrite, FaceChecked
  <2>2. \A v \in Users \ {who[r]} : faceRegistered'[v] = faceRegistered[v]
    BY <1>7 DEF BaseInv, TypeOK, UsersTyped, EnrollFaceWrite
  <2>3. r \in FaceChecked
    BY <1>7 DEF EnrollFaceWrite, FaceChecked
  <2>. QED  BY <1>7, <2>1, <2>2, <2>3, StoredFace DEF EnrollFaceWrite
<1>8. ASSUME NEW r \in Requests, RegisterCheckFace(r) PROVE FaceInv'
  <2> DEFINE taken == face[r] # Nil /\ FaceTaken(Users, TenantOf[who[r]], face[r])
  <2>1. UNCHANGED <<faceRegistered, faceEmbedding, racedFace>>
    BY <1>8 DEF RegisterCheckFace
  <2>2. CASE taken
    <3>1. Finish(r)
      BY <1>8, <2>2 DEF RegisterCheckFace
    <3>2. OthersKept(r) /\ r \notin FaceChecked'
      BY <1>0, <3>1, FinishMoves DEF FaceChecked
    <3>. QED  BY <2>1, <3>2, QuietFace
  <2>3. CASE ~taken /\ face[r] = Nil
    <3>1. OthersKept(r) /\ r \notin FaceChecked'
      BY <1>0, <1>8, <2>3, GotoMoves DEF RegisterCheckFace, FaceChecked
    <3>. QED  BY <2>1, <3>1, QuietFace
  <2>4. CASE ~taken /\ face[r] # Nil
    <3>1. OthersKept(r) /\ UNCHANGED <<who, face, finger>>
      BY <1>0, <1>8, <2>4, GotoMoves DEF RegisterCheckFace
    <3>. QED  BY <2>1, <2>4, <3>1, CheckedFace
  <2>. QED  BY <2>2, <2>3, <2>4
<1>9. ASSUME NEW r \in Requests, RegisterPutFace(r) PROVE FaceInv'
  <2>1. OthersKept(r) /\ r \notin FaceChecked'
    BY <1>0, <1>9, FinishMoves DEF RegisterPutFace, FaceChecked
  <2>2. \A v \in Users \ {who[r]} : faceRegistered'[v] = faceRegistered[v]
    BY <1>9 DEF BaseInv, TypeOK, UsersTyped, RegisterPutFace
  <2>3. CASE face[r] = Nil
    BY <1>9, <2>1, <2>3, QuietFace DEF RegisterPutFace
  <2>4. CASE face[r] # Nil
    <3>1. r \in FaceChecked
      BY <1>9, <2>4 DEF RegisterPutFace, FaceChecked
    <3>. QED  BY <1>9, <2>1, <2>2, <2>4, <3>1, StoredFace DEF RegisterPutFace
  <2>. QED  BY <2>3, <2>4
<1>10. CASE UNCHANGED vars
  BY <1>10 DEF vars, requestVars, FaceInv, FaceKnows, FaceChecked, DuplicateFaceNeedsRace,
              SharesFace, SameTenant
<1>. QED
  BY <1>1, <1>2, <1>3, <1>4, <1>5, <1>6, <1>7, <1>8, <1>9, <1>10
     DEF Next, FaceStep, FingerStep, AccountStep, RegisterStep

\* For every similarity relation: two users of a tenant hold colliding faces
\* only if their enrolments were both between check and write at one time.
THEOREM DuplicateFaceNeedsRaceThm == Spec => []DuplicateFaceNeedsRace
<1>1. Init => FaceInv
  BY EnrollmentAssumption
     DEF Init, FaceInv, FaceKnows, FaceChecked, DuplicateFaceNeedsRace, SharesFace
<1>2. FaceInv => DuplicateFaceNeedsRace
  BY DEF FaceInv
<1>. QED  BY <1>1, <1>2, NextFace, BaseInvariance, PTL DEF Spec

-----------------------------------------------------------------------------
(* Fingerprints.                                                           *)

FingerKnows ==
    \A r \in FingerChecked : \A v \in Users :
        SameTenant(who[r], v) /\ fingerprintTemplate[v] = finger[r]
        => {who[r], v} \in racedFinger

FingerInv == FingerKnows /\ DuplicateFingerNeedsRace

LEMMA CheckedHasFinger ==
    ASSUME BaseInv, NEW r \in FingerChecked
    PROVE  finger[r] # Nil
  BY EnrollmentAssumption DEF BaseInv, Rows, FingerChecked

\* A step of r after which no user has a template that it had not.
LEMMA QuietFinger ==
    ASSUME BaseInv, FingerInv, NEW r \in Requests, OthersKept(r),
           racedFinger' = racedFinger,
           \A v \in Users : fingerprintTemplate'[v] # Nil =>
               fingerprintTemplate'[v] = fingerprintTemplate[v],
           r \in FingerChecked' => /\ r \in FingerChecked
                                   /\ who'[r] = who[r] /\ finger'[r] = finger[r]
    PROVE  FingerInv'
<1>1. FingerKnows'
  <2> SUFFICES ASSUME NEW q \in FingerChecked', NEW v \in Users,
                      SameTenant(who'[q], v), fingerprintTemplate'[v] = finger'[q]
               PROVE  {who'[q], v} \in racedFinger
    BY DEF FingerKnows, SameTenant
  <2>1. q \in FingerChecked /\ who'[q] = who[q] /\ finger'[q] = finger[q]
    BY DEF OthersKept, FingerChecked
  <2>2. fingerprintTemplate'[v] = fingerprintTemplate[v]
    BY <2>1, CheckedHasFinger
  <2>. QED  BY <2>1, <2>2 DEF FingerInv, FingerKnows
<1>2. DuplicateFingerNeedsRace'
  BY DEF FingerInv, DuplicateFingerNeedsRace, SharesFinger, SameTenant
<1>. QED  BY <1>1, <1>2 DEF FingerInv

\* The check finds nobody: r knows of no collision at all.
LEMMA CheckedFinger ==
    ASSUME FingerInv, NEW r \in Requests, OthersKept(r),
           ~FingerTaken(TenantOf[who[r]], finger[r]),
           UNCHANGED <<fingerprintTemplate, racedFinger, who, finger>>
    PROVE  FingerInv'
<1>1. FingerKnows'
  <2> SUFFICES ASSUME NEW q \in FingerChecked', NEW v \in Users,
                      SameTenant(who[q], v), fingerprintTemplate[v] = finger[q]
               PROVE  {who[q], v} \in racedFinger
    BY DEF FingerKnows, SameTenant
  <2>1. q # r
    BY DEF FingerTaken, SameTenant
  <2>2. q \in FingerChecked
    BY <2>1 DEF OthersKept, FingerChecked
  <2>. QED  BY <2>2 DEF FingerInv, FingerKnows
<1>2. DuplicateFingerNeedsRace'
  BY DEF FingerInv, DuplicateFingerNeedsRace, SharesFinger, SameTenant
<1>. QED  BY <1>1, <1>2 DEF FingerInv

\* The write: the collisions r knows of, and its rivals, have raced.
LEMMA StoredFinger ==
    ASSUME BaseInv, FingerInv, NEW r \in FingerChecked, OthersKept(r),
           fingerprintTemplate' = [fingerprintTemplate EXCEPT ![who[r]] = finger[r]],
           racedFinger' = racedFinger \cup {{who[r], who[q]} : q \in FingerRivals(r)},
           r \notin FingerChecked'
    PROVE  FingerInv'
<1>1. who[r] \in Users /\ fingerprintTemplate'[who[r]] = finger[r]
      /\ \A v \in Users \ {who[r]} : fingerprintTemplate'[v] = fingerprintTemplate[v]
  BY DEF BaseInv, TypeOK, UsersTyped, Rows, FingerChecked
<1>2. FingerKnows'
  <2> SUFFICES ASSUME NEW q \in FingerChecked', NEW v \in Users,
                      SameTenant(who'[q], v), fingerprintTemplate'[v] = finger'[q]
               PROVE  {who'[q], v} \in racedFinger'
    BY DEF FingerKnows, SameTenant
  <2>1. q \in FingerChecked /\ who'[q] = who[q] /\ finger'[q] = finger[q]
    BY DEF OthersKept, FingerChecked
  <2>2. CASE v = who[r]
    <3>1. q \in FingerRivals(r)
      BY <1>1, <2>1, <2>2 DEF FingerRivals, SameTenant
    <3>. QED  BY <2>1, <2>2, <3>1
  <2>3. CASE v # who[r]
    BY <1>1, <2>1, <2>3 DEF FingerInv, FingerKnows
  <2>. QED  BY <2>2, <2>3
<1>3. ASSUME NEW v \in Users, SameTenant(who[r], v), fingerprintTemplate[v] = finger[r]
      PROVE  {who[r], v} \in racedFinger
  BY <1>3 DEF FingerInv, FingerKnows
<1>4. DuplicateFingerNeedsRace'
  <2> SUFFICES ASSUME NEW u \in Users, NEW v \in Users, SharesFinger(u, v)'
               PROVE  {u, v} \in racedFinger'
    BY DEF DuplicateFingerNeedsRace
  <2>1. u # v /\ TenantOf[u] = TenantOf[v] /\ fingerprintTemplate'[u] # Nil
        /\ fingerprintTemplate'[u] = fingerprintTemplate'[v]
    BY DEF SharesFinger, SameTenant
  <2>2. CASE u = who[r]
    BY <1>1, <1>3, <2>1, <2>2 DEF SameTenant
  <2>3. CASE v = who[r]
    <3>1. {v, u} \in racedFinger
      BY <1>1, <1>3, <2>1, <2>3 DEF SameTenant
    <3>2. {v, u} = {u, v}
      OBVIOUS
    <3>. QED  BY <3>1, <3>2
  <2>4. CASE u # who[r] /\ v # who[r]
    BY <1>1, <2>1, <2>4 DEF FingerInv, DuplicateFingerNeedsRace, SharesFinger, SameTenant
  <2>. QED  BY <2>2, <2>3, <2>4
<1>. QED  BY <1>2, <1>4 DEF FingerInv

\* Every statement of every handler preserves FingerInv.
LEMMA NextFinger == BaseInv /\ FingerInv /\ [Next]_vars => FingerInv'
<1> SUFFICES ASSUME BaseInv, FingerInv, [Next]_vars PROVE FingerInv'
  OBVIOUS
<1> USE DEF tables, faceColumns, fingerColumns, flagColumns, history
<1>0. RequestsTyped
  BY DEF BaseInv, TypeOK
<1>1. ASSUME NEW r \in Requests,
             EnrollFace(r) \/ EnrollFingerprint(r) \/ Revoke(r) \/ Skip(r) \/
             Register(r) \/ Login(r)
      PROVE  FingerInv'
  <2>1. OthersKept(r)
    BY <1>0, <1>1, BeginMoves DEF RequestsTyped, OthersKept, EnrollFace,
                                  EnrollFingerprint, Revoke, Skip, Register,
                                  Login
  <2>2. r \in FingerChecked' => r \in FingerChecked /\ who'[r] = who[r] /\ finger'[r] = finger[r]
    BY <1>0, <1>1, BeginMoves DEF FingerChecked, RequestsTyped, EnrollFace,
                                  EnrollFingerprint, Revoke, Skip, Register,
                                  Login
  <2>3. racedFinger' = racedFinger /\ \A v \in Users :
          fingerprintTemplate'[v] # Nil => fingerprintTemplate'[v] = fingerprintTemplate[v]
    BY <1>1 DEF EnrollFace, EnrollFingerprint, Revoke, Skip, Register, Login
  <2>. QED  BY <2>1, <2>2, <2>3, QuietFinger
<1>2. ASSUME NEW r \in Requests,
             EnrollFaceCheck(r) \/ EnrollFaceWrite(r) \/ EnrollFaceFlags(r) \/
             EnrollFaceRead(r) \/ EnrollFaceMirror(r) \/
             EnrollFingerprintRead(r) \/ EnrollFingerprintMirror(r) \/
             RevokeEmbedding(r) \/ SkipUpdate(r) \/ LoginSync(r) \/
             RegisterCheckFace(r) \/ RegisterCreate(r) \/ RegisterPutFace(r) \/
             Abort(r)
      PROVE  FingerInv'
  <2>1. OthersKept(r)
    BY <1>0, <1>2, GotoMoves, FinishMoves DEF RequestsTyped, OthersKept,
                                              EnrollFaceCheck, EnrollFaceWrite,
                                              EnrollFaceFlags, EnrollFaceRead,
                                              EnrollFaceMirror,
                                              EnrollFingerprintRead,
                                              EnrollFingerprintMirror,
                                              RevokeEmbedding, SkipUpdate,
                                              LoginSync, RegisterCheckFace,
                                              RegisterCreate, RegisterPutFace,
                                              Abort
  <2>2. r \in FingerChecked' => r \in FingerChecked /\ who'[r] = who[r] /\ finger'[r] = finger[r]
    BY <1>0, <1>2, GotoMoves, FinishMoves DEF FingerChecked, RequestsTyped,
                                              EnrollFaceCheck, EnrollFaceWrite,
                                              EnrollFaceFlags, EnrollFaceRead,
                                              EnrollFaceMirror,
                                              EnrollFingerprintRead,
                                              EnrollFingerprintMirror,
                                              RevokeEmbedding, SkipUpdate,
                                              LoginSync, RegisterCheckFace,
                                              RegisterCreate, RegisterPutFace,
                                              Abort
  <2>3. racedFinger' = racedFinger /\ \A v \in Users :
          fingerprintTemplate'[v] # Nil => fingerprintTemplate'[v] = fingerprintTemplate[v]
    BY <1>2 DEF EnrollFaceCheck, EnrollFaceWrite, EnrollFaceFlags,
                EnrollFaceRead, EnrollFaceMirror, EnrollFingerprintRead,
                EnrollFingerprintMirror, RevokeEmbedding, SkipUpdate,
                LoginSync, RegisterCheckFace, RegisterCreate, RegisterPutFace,
                Abort
  <2>. QED  BY <2>1, <2>2, <2>3, QuietFinger
<1>3. ASSUME NEW r \in Requests, RevokeFlags(r) PROVE FingerInv'
  <2>1. OthersKept(r)
    BY <1>0, <1>3, GotoMoves, FinishMoves DEF RevokeFlags
  <2>2. r \in FingerChecked' => r \in FingerChecked /\ who'[r] = who[r] /\ finger'[r] = finger[r]
    BY <1>0, <1>3, GotoMoves, FinishMoves DEF FingerChecked, RevokeFlags
  <2>3. racedFinger' = racedFinger /\ \A v \in Users :
          fingerprintTemplate'[v] # Nil => fingerprintTemplate'[v] = fingerprintTemplate[v]
    BY <1>3 DEF BaseInv, TypeOK, UsersTyped, Rows, ClearRow, RevokeFlags
  <2>. QED  BY <2>1, <2>2, <2>3, QuietFinger
<1>4. ASSUME NEW r \in Requests, EnrollFingerprintCheck(r) PROVE FingerInv'
  <2> DEFINE taken == FingerTaken(TenantOf[who[r]], finger[r])
  <2>1. UNCHANGED <<fingerprintTemplate, racedFinger>>
    BY <1>4 DEF EnrollFingerprintCheck
  <2>2. CASE taken
    <3>1. Finish(r)
      BY <1>4, <2>2 DEF EnrollFingerprintCheck
    <3>2. OthersKept(r) /\ r \notin FingerChecked'
      BY <1>0, <3>1, FinishMoves DEF FingerChecked
    <3>. QED  BY <2>1, <3>2, QuietFinger
  <2>3. CASE ~taken
    <3>1. OthersKept(r) /\ UNCHANGED <<who, face, finger>>
      BY <1>0, <1>4, <2>3, GotoMoves DEF EnrollFingerprintCheck
    <3>. QED  BY <2>1, <2>3, <3>1, CheckedFinger
  <2>. QED  BY <2>2, <2>3
<1>5. ASSUME NEW r \in Requests, EnrollFingerprintWrite(r) PROVE FingerInv'
  <2>1. OthersKept(r) /\ r \notin FingerChecked'
    BY <1>0, <1>5, GotoMoves DEF EnrollFingerprintWrite, FingerChecked
  <2>3. r \in FingerChecked
    BY <1>5 DEF EnrollFingerprintWrite, FingerChecked
  <2>. QED  BY <1>5, <2>1, <2>3, StoredFinger DEF EnrollFingerprintWrite, StoreFingerprint
<1>6. ASSUME NEW r \in Requests, RegisterCheckFinger(r) PROVE FingerInv'
  <2> DEFINE taken == finger[r] # Nil /\ FingerTaken(TenantOf[who[r]], finger[r])
  <2>1. UNCHANGED <<fingerprintTemplate, racedFinger>>
    BY <1>6 DEF RegisterCheckFinger
  <2>2. CASE taken
    <3>1. Finish(r)
      BY <1>6, <2>2 DEF RegisterCheckFinger
    <3>2. OthersKept(r) /\ r \notin FingerChecked'
      BY <1>0, <3>1, FinishMoves DEF FingerChecked
    <3>. QED  BY <2>1, <3>2, QuietFinger
  <2>3. CASE ~taken /\ finger[r] = Nil
    <3>1. OthersKept(r) /\ r \notin FingerChecked'
      BY <1>0, <1>6, <2>3, GotoMoves DEF RegisterCheckFinger, FingerChecked
    <3>. QED  BY <2>1, <3>1, QuietFinger
  <2>4. CASE ~taken /\ finger[r] # Nil
    <3>1. OthersKept(r) /\ UNCHANGED <<who, face, finger>>
      BY <1>0, <1>6, <2>4, GotoMoves DEF RegisterCheckFinger
    <3>. QED  BY <2>1, <2>4, <3>1, CheckedFinger
  <2>. QED  BY <2>2, <2>3, <2>4
<1>7. ASSUME NEW r \in Requests, RegisterPutFinger(r) PROVE FingerInv'
  <2>1. OthersKept(r) /\ r \notin FingerChecked'
    BY <1>0, <1>7, GotoMoves DEF RegisterPutFinger, FingerChecked
  <2>3. CASE finger[r] = Nil
    BY <1>7, <2>1, <2>3, QuietFinger DEF RegisterPutFinger
  <2>4. CASE finger[r] # Nil
    <3>1. r \in FingerChecked
      BY <1>7, <2>4 DEF RegisterPutFinger, FingerChecked
    <3>. QED  BY <1>7, <2>1, <2>4, <3>1, StoredFinger DEF RegisterPutFinger
  <2>. QED  BY <2>3, <2>4
<1>8. CASE UNCHANGED vars
  BY <1>8 DEF vars, requestVars, FingerInv, FingerKnows, FingerChecked, DuplicateFingerNeedsRace,
              SharesFinger, SameTenant
<1>. QED
  BY <1>1, <1>2, <1>3, <1>4, <1>5, <1>6, <1>7, <1>8
     DEF Next, FaceStep, FingerStep, AccountStep, RegisterStep

\* Two users of a tenant hold the same fingerprint template only if their
\* enrolments were both between check and write at one time.
THEOREM DuplicateFingerNeedsRaceThm == Spec => []DuplicateFingerNeedsRace
<1>1. Init => FingerInv
  BY DEF Init, FingerInv, FingerKnows, FingerChecked, DuplicateFingerNeedsRace,
         SharesFinger
<1>2. FingerInv => DuplicateFingerNeedsRace
  BY DEF FingerInv
<1>. QED  BY <1>1, <1>2, NextFinger, BaseInvariance, PTL DEF Spec

\* Nothing is shared by two users of a tenant unless their requests overlapped
\* between check and write.
THEOREM DuplicateNeedsRaceThm == Spec => []DuplicateNeedsRace
<1>1. DuplicateFaceNeedsRace /\ DuplicateFingerNeedsRace => DuplicateNeedsRace
  BY DEF DuplicateNeedsRace
<1>. QED  BY <1>1, DuplicateFaceNeedsRaceThm, DuplicateFingerNeedsRaceThm, PTL

-----------------------------------------------------------------------------
(* Flag and template.                                                      *)

\* A registration past its create works on a row that register created.
FlagInv ==
    /\ \A r \in Requests : pc[r] \in {"rg_finger", "rg_face"} => who[r] \in registered
    /\ FingerFlagMatchesTemplate

\* Outside register, flag and template change together.
LEMMA NextFlag == BaseInv /\ FlagInv /\ [Next]_vars => FlagInv'
<1> SUFFICES ASSUME BaseInv, FlagInv, [Next]_vars PROVE FlagInv'
  OBVIOUS
<1> USE DEF tables, faceColumns, fingerColumns, flagColumns, history
<1>1. RequestsTyped /\ UsersTyped
  BY DEF BaseInv, TypeOK
<1>2. ASSUME NEW r \in Requests, EnrollFingerprintWrite(r) PROVE FlagInv'
  <2>1. finger[r] # Nil /\ who[r] \in Users
    BY <1>2, EnrollmentAssumption DEF EnrollFingerprintWrite, BaseInv, Rows
  <2>. QED
    BY <1>1, <1>2, <2>1 DEF EnrollFingerprintWrite, StoreFingerprint, Goto, RequestsTyped,
                            UsersTyped, FlagInv, FingerFlagMatchesTemplate
<1>3. ASSUME NEW r \in Requests, RevokeFlags(r) PROVE FlagInv'
  BY <1>1, <1>3 DEF RevokeFlags, ClearRow, Goto, RequestsTyped, UsersTyped, FlagInv,
                    FingerFlagMatchesTemplate
<1>4. ASSUME NEW r \in Requests, RegisterCreate(r) PROVE FlagInv'
  BY <1>1, <1>4 DEF RegisterCreate, Goto, Finish, RequestsTyped, UsersTyped, FlagInv,
                    FingerFlagMatchesTemplate
<1>5. ASSUME NEW r \in Requests, RegisterPutFinger(r) PROVE FlagInv'
  BY <1>1, <1>5 DEF RegisterPutFinger, Goto, RequestsTyped, UsersTyped, FlagInv,
                    FingerFlagMatchesTemplate
<1>6. ASSUME NEW r \in Requests,
             Register(r) \/ RegisterCheckFace(r) \/ RegisterCheckFinger(r) \/ RegisterPutFace(r)
      PROVE  FlagInv'
  BY <1>1, <1>6 DEF Register, RegisterCheckFace, RegisterCheckFinger, RegisterPutFace, Begin,
         Goto, Finish, RequestsTyped, FlagInv, FingerFlagMatchesTemplate
<1>7. ASSUME NEW r \in Requests, FaceStep(r) PROVE FlagInv'
  BY <1>1, <1>7 DEF FaceStep, EnrollFace, EnrollFaceCheck, EnrollFaceWrite, EnrollFaceFlags,
         EnrollFaceRead, EnrollFaceMirror, Begin, Goto, Finish, RequestsTyped, FlagInv,
         FingerFlagMatchesTemplate
<1>8. ASSUME NEW r \in Requests,
             EnrollFingerprint(r) \/ EnrollFingerprintCheck(r)
             \/ EnrollFingerprintRead(r) \/ EnrollFingerprintMirror(r)
      PROVE  FlagInv'
  BY <1>1, <1>8 DEF EnrollFingerprint, EnrollFingerprintCheck, EnrollFingerprintRead,
         EnrollFingerprintMirror, Begin, Goto, Finish, RequestsTyped, FlagInv,
         FingerFlagMatchesTemplate
<1>9. ASSUME NEW r \in Requests,
             Revoke(r) \/ RevokeEmbedding(r) \/ Skip(r) \/ SkipUpdate(r)
             \/ Login(r) \/ LoginSync(r) \/ Abort(r)
      PROVE  FlagInv'
  BY <1>1, <1>9 DEF Revoke, RevokeEmbedding, Skip, SkipUpdate, Login, LoginSync, Abort,
         Begin, Finish, RequestsTyped, FlagInv, FingerFlagMatchesTemplate
<1>10. CASE UNCHANGED vars
  BY <1>10 DEF vars, requestVars, FlagInv, FingerFlagMatchesTemplate
<1>. QED
  BY <1>2, <1>3, <1>4, <1>5, <1>6, <1>7, <1>8, <1>9, <1>10
     DEF Next, FingerStep, AccountStep, RegisterStep

\* For an account that did not register itself, the fingerprint flag is set
\* exactly when there is a template, in every interleaving of enrolments,
\* revocations, registrations of others and crashes.
THEOREM FingerFlagMatchesTemplateThm == Spec => []FingerFlagMatchesTemplate
<1>1. Init => FlagInv
  BY DEF Init, FlagInv, FingerFlagMatchesTemplate
<1>2. FlagInv => FingerFlagMatchesTemplate
  BY DEF FlagInv
<1>. QED  BY <1>1, <1>2, NextFlag, BaseInvariance, PTL DEF Spec

-----------------------------------------------------------------------------
(* Consistency of an account nobody is working on.                         *)

\* Who serves an undisturbed user serves it alone.
Alone ==
    /\ \A r \in Requests : pc[r] = "idle" => who[r] = Nil
    /\ \A q, r \in Requests :
         q # r /\ who[q] = who[r] /\ who[r] # Nil => who[r] \in disturbed

\* A row not yet created carries no flag.
Blank ==
    \A u \in Users : ~exists[u] =>
        ~faceRegistered[u] /\ ~fingerprintRegistered[u] /\ ~biometricEnrolled[u]

Settled(u) ==
    /\ faceRegistered[u] => faceEmbedding[u] # Nil
    /\ fingerprintRegistered[u] <=> fingerprintTemplate[u] # Nil
    /\ biometricEnrolled[u] => faceRegistered[u] \/ fingerprintRegistered[u]

Halfway == {"rg_finger", "rg_face"}

Registering(u) == \E r \in Requests : who[r] = u /\ pc[r] \in Halfway

\* What request r has established about its user.
Local(r) ==
    /\ pc[r] \in {"ef_dup", "ef_write"} => face[r] # Nil
    /\ pc[r] = "ef_flags" => faceRegistered[who[r]]
    /\ pc[r] = "rv_embedding" => ~faceRegistered[who[r]]
    /\ pc[r] = "lg_sync" /\ saw[r] =>
         faceRegistered[who[r]] \/ fingerprintRegistered[who[r]]
    /\ pc[r] \in Halfway => /\ ~biometricEnrolled[who[r]]
                            /\ faceRegistered[who[r]] => face[r] # Nil
    /\ pc[r] = "rg_finger" => /\ fingerprintRegistered[who[r]] <=> finger[r] # Nil
                              /\ fingerprintTemplate[who[r]] = Nil
    /\ pc[r] = "rg_face" => (fingerprintRegistered[who[r]] <=> fingerprintTemplate[who[r]] # Nil)

SettledInv ==
    /\ Alone /\ Blank
    /\ \A u \in Users \ disturbed : Registering(u) \/ Settled(u)
    /\ \A r \in Requests : pc[r] # "idle" /\ who[r] \notin disturbed => Local(r)

ColumnsOf(u) == <<exists[u], faceEmbedding[u], faceRegistered[u], fingerprintTemplate[u],
                  fingerprintRegistered[u], biometricEnrolled[u]>>

\* A step of r that works on who[r] alone preserves the invariant if it does
\* so for that user and that request.
LEMMA OneUser ==
    ASSUME BaseInv, SettledInv, NEW r \in Requests, NEW w, pc[r] # "idle", w = who[r],
           OthersKept(r),
           disturbed \subseteq disturbed',
           who'[r] = IF pc'[r] = "idle" THEN Nil ELSE w,
           \A v \in Users \ {w} : ColumnsOf(v)' = ColumnsOf(v),
           ~exists'[w] => ~exists[w] /\ ColumnsOf(w)' = ColumnsOf(w),
           w \notin disturbed' => Settled(w)' \/ pc'[r] \in Halfway,
           w \notin disturbed' /\ pc'[r] # "idle" => Local(r)'
    PROVE  SettledInv'
<1> USE DEF ColumnsOf
<1>1. w \in Users /\ Nil \notin Users
  BY EnrollmentAssumption DEF BaseInv, Rows
<1>2. Alone'
  BY <1>1 DEF SettledInv, Alone, OthersKept
<1>3. Blank'
  BY <1>1 DEF SettledInv, Blank
<1>4. ASSUME NEW u \in Users \ disturbed' PROVE Registering(u)' \/ Settled(u)'
  <2>1. CASE u = w
    BY <2>1, <1>4 DEF Registering, Halfway
  <2>2. CASE u # w
    BY <2>2, <1>4 DEF SettledInv, Registering, Settled, OthersKept
  <2>. QED  BY <2>1, <2>2
<1>5. ASSUME NEW q \in Requests, pc'[q] # "idle", who'[q] \notin disturbed' PROVE Local(q)'
  <2>1. CASE q = r
    BY <1>5, <2>1
  <2>2. CASE q # r
    <3>1. /\ pc'[q] = pc[q] /\ who'[q] = who[q] /\ face'[q] = face[q]
          /\ finger'[q] = finger[q] /\ saw'[q] = saw[q]
      BY <2>2 DEF OthersKept
    <3> DEFINE x == who[q]
    <3>2. x # w /\ x \in Users
      BY <1>1, <1>5, <2>2, <3>1 DEF SettledInv, Alone, BaseInv, Rows
    <3>. QED  BY <1>5, <3>1, <3>2 DEF SettledInv, Local
  <2>. QED  BY <2>1, <2>2
<1>. QED  BY <1>2, <1>3, <1>4, <1>5 DEF SettledInv

\* What an undisturbed request may rely on.
LEMMA Knows ==
    ASSUME BaseInv, SettledInv, NEW r \in Requests, pc[r] # "idle", who[r] \notin disturbed
    PROVE  Local(r) /\ (pc[r] \notin Halfway => Settled(who[r]))
  BY EnrollmentAssumption DEF BaseInv, Rows, SettledInv, Alone, Registering

\* A request that starts finds its user settled, or disturbs the user.
LEMMA Opened ==
    ASSUME BaseInv, SettledInv, NEW r \in Requests, NEW w \in Users, pc[r] = "idle",
           OthersKept(r), who'[r] = w,
           disturbed' = IF \E q \in Requests \ {r} : who[q] = w
                        THEN disturbed \cup {w} ELSE disturbed,
           UNCHANGED tables, pc'[r] # "idle", Local(r)'
    PROVE  SettledInv'
<1> USE DEF tables, faceColumns, fingerColumns, flagColumns
<1>1. Nil \notin Users /\ who[r] = Nil
  BY EnrollmentAssumption DEF SettledInv, Alone
<1>2. Alone'
  BY <1>1 DEF SettledInv, Alone, OthersKept
<1>3. Blank'
  BY DEF SettledInv, Blank
<1>4. ASSUME NEW u \in Users \ disturbed' PROVE Registering(u)' \/ Settled(u)'
  <2>1. Settled(u) \/ Registering(u)
    BY <1>4 DEF SettledInv
  <2>. QED  BY <1>1, <1>4, <2>1 DEF Registering, Settled, OthersKept, Halfway
<1>5. ASSUME NEW q \in Requests, pc'[q] # "idle", who'[q] \notin disturbed' PROVE Local(q)'
  <2>1. CASE q = r
    BY <2>1
  <2>2. CASE q # r
    BY <1>5, <2>2 DEF OthersKept, SettledInv, Local
  <2>. QED  BY <2>1, <2>2
<1>. QED  BY <1>2, <1>3, <1>4, <1>5 DEF SettledInv

\* Every statement of every handler preserves SettledInv.
LEMMA NextSettled == BaseInv /\ SettledInv /\ [Next]_vars => SettledInv'
<1> SUFFICES ASSUME BaseInv, SettledInv, [Next]_vars PROVE SettledInv'
  OBVIOUS
<1> USE DEF tables, faceColumns, fingerColumns, flagColumns, history
<1>0. RequestsTyped /\ UsersTyped /\ Nil \notin Users \cup Faces \cup Fingers
  BY EnrollmentAssumption DEF BaseInv, TypeOK
<1>1. ASSUME NEW r \in Requests, EnrollFaceCheck(r) PROVE SettledInv'
  <2>1. PICK w \in Users : w = who[r] /\ pc[r] # "idle"
    BY <1>1 DEF EnrollFaceCheck, BaseInv, Rows
  <2>2. OthersKept(r) /\ who'[r] = IF pc'[r] = "idle" THEN Nil ELSE w
    BY <1>0, <1>1, <2>1, GotoMoves, FinishMoves DEF EnrollFaceCheck, RequestsTyped, OthersKept
  <2>3. /\ disturbed \subseteq disturbed'
        /\ \A v \in Users \ {w} : ColumnsOf(v)' = ColumnsOf(v)
        /\ ~exists'[w] => ~exists[w] /\ ColumnsOf(w)' = ColumnsOf(w)
    BY <1>0, <1>1, <2>1 DEF EnrollFaceCheck, BaseInv, Rows, Opening, UsersTyped, ColumnsOf
  <2>4. ASSUME w \notin disturbed'
        PROVE  /\ Settled(w)' \/ pc'[r] \in Halfway
               /\ pc'[r] # "idle" => Local(r)'
    <3>1. Local(r) /\ (pc[r] \notin Halfway => Settled(w)) /\ (~exists[w] => ~faceRegistered[w]
          /\ ~fingerprintRegistered[w] /\ ~biometricEnrolled[w])
      BY <2>1, <2>3, <2>4, Knows DEF SettledInv, Blank
    <3>. QED
      BY <1>0, <1>1, <2>1, <3>1 DEF EnrollFaceCheck, Goto, Finish, RequestsTyped, UsersTyped,
         BaseInv, Rows, Local, Settled, Halfway
  <2>. QED  BY <2>1, <2>2, <2>3, <2>4, OneUser
<1>2. ASSUME NEW r \in Requests, EnrollFaceWrite(r) PROVE SettledInv'
  <2>1. PICK w \in Users : w = who[r] /\ pc[r] # "idle"
    BY <1>2 DEF EnrollFaceWrite, BaseInv, Rows
  <2>2. OthersKept(r) /\ who'[r] = IF pc'[r] = "idle" THEN Nil ELSE w
    BY <1>0, <1>2, <2>1, GotoMoves, FinishMoves DEF EnrollFaceWrite, RequestsTyped, OthersKept
  <2>3. /\ disturbed \subseteq disturbed'
        /\ \A v \in Users \ {w} : ColumnsOf(v)' = ColumnsOf(v)
        /\ ~exists'[w] => ~exists[w] /\ ColumnsOf(w)' = ColumnsOf(w)
    BY <1>0, <1>2, <2>1 DEF EnrollFaceWrite, BaseInv, Rows, Opening, UsersTyped, ColumnsOf
  <2>4. ASSUME w \notin disturbed'
        PROVE  /\ Settled(w)' \/ pc'[r] \in Halfway
               /\ pc'[r] # "idle" => Local(r)'
    <3>1. Local(r) /\ (pc[r] \notin Halfway => Settled(w)) /\ (~exists[w] => ~faceRegistered[w]
          /\ ~fingerprintRegistered[w] /\ ~biometricEnrolled[w])
      BY <2>1, <2>3, <2>4, Knows DEF SettledInv, Blank
    <3>. QED
      BY <1>0, <1>2, <2>1, <3>1 DEF EnrollFaceWrite, Goto, Finish, RequestsTyped, UsersTyped,
         BaseInv, Rows, Local, Settled, Halfway
  <2>. QED  BY <2>1, <2>2, <2>3, <2>4, OneUser
<1>3. ASSUME NEW r \in Requests, EnrollFaceFlags(r) PROVE SettledInv'
  <2>1. PICK w \in Users : w = who[r] /\ pc[r] # "idle"
    BY <1>3 DEF EnrollFaceFlags, BaseInv, Rows
  <2>2. OthersKept(r) /\ who'[r] = IF pc'[r] = "idle" THEN Nil ELSE w
    BY <1>0, <1>3, <2>1, GotoMoves, FinishMoves DEF EnrollFaceFlags, RequestsTyped, OthersKept
  <2>3. /\ disturbed \subseteq disturbed'
        /\ \A v \in Users \ {w} : ColumnsOf(v)' = ColumnsOf(v)
        /\ ~exists'[w] => ~exists[w] /\ ColumnsOf(w)' = ColumnsOf(w)
    BY <1>0, <1>3, <2>1 DEF EnrollFaceFlags, BaseInv, Rows, Opening, UsersTyped, ColumnsOf
  <2>4. ASSUME w \notin disturbed'
        PROVE  /\ Settled(w)' \/ pc'[r] \in Halfway
               /\ pc'[r] # "idle" => Local(r)'
    <3>1. Local(r) /\ (pc[r] \notin Halfway => Settled(w)) /\ (~exists[w] => ~faceRegistered[w]
          /\ ~fingerprintRegistered[w] /\ ~biometricEnrolled[w])
      BY <2>1, <2>3, <2>4, Knows DEF SettledInv, Blank
    <3>. QED
      BY <1>0, <1>3, <2>1, <3>1 DEF EnrollFaceFlags, Goto, Finish, RequestsTyped, UsersTyped,
         BaseInv, Rows, Local, Settled, Halfway
  <2>. QED  BY <2>1, <2>2, <2>3, <2>4, OneUser
<1>4. ASSUME NEW r \in Requests, EnrollFaceRead(r) PROVE SettledInv'
  <2>1. PICK w \in Users : w = who[r] /\ pc[r] # "idle"
    BY <1>4 DEF EnrollFaceRead, BaseInv, Rows
  <2>2. OthersKept(r) /\ who'[r] = IF pc'[r] = "idle" THEN Nil ELSE w
    BY <1>0, <1>4, <2>1, GotoMoves, FinishMoves DEF EnrollFaceRead, RequestsTyped, OthersKept
  <2>3. /\ disturbed \subseteq disturbed'
        /\ \A v \in Users \ {w} : ColumnsOf(v)' = ColumnsOf(v)
        /\ ~exists'[w] => ~exists[w] /\ ColumnsOf(w)' = ColumnsOf(w)
    BY <1>0, <1>4, <2>1 DEF EnrollFaceRead, BaseInv, Rows, Opening, UsersTyped, ColumnsOf
  <2>4. ASSUME w \notin disturbed'
        PROVE  /\ Settled(w)' \/ pc'[r] \in Halfway
               /\ pc'[r] # "idle" => Local(r)'
    <3>1. Local(r) /\ (pc[r] \notin Halfway => Settled(w)) /\ (~exists[w] => ~faceRegistered[w]
          /\ ~fingerprintRegistered[w] /\ ~biometricEnrolled[w])
      BY <2>1, <2>3, <2>4, Knows DEF SettledInv, Blank
    <3>. QED
      BY <1>0, <1>4, <2>1, <3>1 DEF EnrollFaceRead, Goto, Finish, RequestsTyped, UsersTyped,
         BaseInv, Rows, Local, Settled, Halfway
  <2>. QED  BY <2>1, <2>2, <2>3, <2>4, OneUser
<1>5. ASSUME NEW r \in Requests, EnrollFaceMirror(r) PROVE SettledInv'
  <2>1. PICK w \in Users : w = who[r] /\ pc[r] # "idle"
    BY <1>5 DEF EnrollFaceMirror, BaseInv, Rows
  <2>2. OthersKept(r) /\ who'[r] = IF pc'[r] = "idle" THEN Nil ELSE w
    BY <1>0, <1>5, <2>1, GotoMoves, FinishMoves DEF EnrollFaceMirror, RequestsTyped, OthersKept
  <2>3. /\ disturbed \subseteq disturbed'
        /\ \A v \in Users \ {w} : ColumnsOf(v)' = ColumnsOf(v)
        /\ ~exists'[w] => ~exists[w] /\ ColumnsOf(w)' = ColumnsOf(w)
    BY <1>0, <1>5, <2>1 DEF EnrollFaceMirror, BaseInv, Rows, Opening, UsersTyped, ColumnsOf
  <2>4. ASSUME w \notin disturbed'
        PROVE  /\ Settled(w)' \/ pc'[r] \in Halfway
               /\ pc'[r] # "idle" => Local(r)'
    <3>1. Local(r) /\ (pc[r] \notin Halfway => Settled(w)) /\ (~exists[w] => ~faceRegistered[w]
          /\ ~fingerprintRegistered[w] /\ ~biometricEnrolled[w])
      BY <2>1, <2>3, <2>4, Knows DEF SettledInv, Blank
    <3>. QED
      BY <1>0, <1>5, <2>1, <3>1 DEF EnrollFaceMirror, Goto, Finish, RequestsTyped, UsersTyped,
         BaseInv, Rows, Local, Settled, Halfway
  <2>. QED  BY <2>1, <2>2, <2>3, <2>4, OneUser
<1>6. ASSUME NEW r \in Requests, EnrollFingerprintCheck(r) PROVE SettledInv'
  <2>1. PICK w \in Users : w = who[r] /\ pc[r] # "idle"
    BY <1>6 DEF EnrollFingerprintCheck, BaseInv, Rows
  <2>2. OthersKept(r) /\ who'[r] = IF pc'[r] = "idle" THEN Nil ELSE w
    BY <1>0, <1>6, <2>1, GotoMoves, FinishMoves DEF EnrollFingerprintCheck, RequestsTyped, OthersKept
  <2>3. /\ disturbed \subseteq disturbed'
        /\ \A v \in Users \ {w} : ColumnsOf(v)' = ColumnsOf(v)
        /\ ~exists'[w] => ~exists[w] /\ ColumnsOf(w)' = ColumnsOf(w)
    BY <1>0, <1>6, <2>1 DEF EnrollFingerprintCheck, BaseInv, Rows, Opening, UsersTyped, ColumnsOf
  <2>4. ASSUME w \notin disturbed'
        PROVE  /\ Settled(w)' \/ pc'[r] \in Halfway
               /\ pc'[r] # "idle" => Local(r)'
    <3>1. Local(r) /\ (pc[r] \notin Halfway => Settled(w)) /\ (~exists[w] => ~faceRegistered[w]
          /\ ~fingerprintRegistered[w] /\ ~biometricEnrolled[w])
      BY <2>1, <2>3, <2>4, Knows DEF SettledInv, Blank
    <3>. QED
      BY <1>0, <1>6, <2>1, <3>1 DEF EnrollFingerprintCheck, Goto, Finish, RequestsTyped, UsersTyped,
         BaseInv, Rows, Local, Settled, Halfway
  <2>. QED  BY <2>1, <2>2, <2>3, <2>4, OneUser
<1>7. ASSUME NEW r \in Requests, EnrollFingerprintWrite(r) PROVE SettledInv'
  <2>1. PICK w \in Users : w = who[r] /\ pc[r] # "idle"
    BY <1>7 DEF EnrollFingerprintWrite, BaseInv, Rows
  <2>2. OthersKept(r) /\ who'[r] = IF pc'[r] = "idle" THEN Nil ELSE w
    BY <1>0, <1>7, <2>1, GotoMoves, FinishMoves DEF EnrollFingerprintWrite, RequestsTyped, OthersKept
  <2>3. /\ disturbed \subseteq disturbed'
        /\ \A v \in Users \ {w} : ColumnsOf(v)' = ColumnsOf(v)
        /\ ~exists'[w] => ~exists[w] /\ ColumnsOf(w)' = ColumnsOf(w)
    BY <1>0, <1>7, <2>1 DEF EnrollFingerprintWrite, StoreFingerprint, BaseInv, Rows, Opening, UsersTyped, ColumnsOf
  <2>4. ASSUME w \notin disturbed'
        PROVE  /\ Settled(w)' \/ pc'[r] \in Halfway
               /\ pc'[r] # "idle" => Local(r)'
    <3>1. Local(r) /\ (pc[r] \notin Halfway => Settled(w)) /\ (~exists[w] => ~faceRegistered[w]
          /\ ~fingerprintRegistered[w] /\ ~biometricEnrolled[w])
      BY <2>1, <2>3, <2>4, Knows DEF SettledInv, Blank
    <3>. QED
      BY <1>0, <1>7, <2>1, <3>1 DEF EnrollFingerprintWrite, StoreFingerprint, Goto, Finish, RequestsTyped, UsersTyped,
         BaseInv, Rows, Local, Settled, Halfway
  <2>. QED  BY <2>1, <2>2, <2>3, <2>4, OneUser
<1>8. ASSUME NEW r \in Requests, EnrollFingerprintRead(r) PROVE SettledInv'
  <2>1. PICK w \in Users : w = who[r] /\ pc[r] # "idle"
    BY <1>8 DEF EnrollFingerprintRead, BaseInv, Rows
  <2>2. OthersKept(r) /\ who'[r] = IF pc'[r] = "idle" THEN Nil ELSE w
    BY <1>0, <1>8, <2>1, GotoMoves, FinishMoves DEF EnrollFingerprintRead, RequestsTyped, OthersKept
  <2>3. /\ disturbed \subseteq disturbed'
        /\ \A v \in Users \ {w} : ColumnsOf(v)' = ColumnsOf(v)
        /\ ~exists'[w] => ~exists[w] /\ ColumnsOf(w)' = ColumnsOf(w)
    BY <1>0, <1>8, <2>1 DEF EnrollFingerprintRead, BaseInv, Rows, Opening, UsersTyped, ColumnsOf
  <2>4. ASSUME w \notin disturbed'
        PROVE  /\ Settled(w)' \/ pc'[r] \in Halfway
               /\ pc'[r] # "idle" => Local(r)'
    <3>1. Local(r) /\ (pc[r] \notin Halfway => Settled(w)) /\ (~exists[w] => ~faceRegistered[w]
          /\ ~fingerprintRegistered[w] /\ ~biometricEnrolled[w])
      BY <2>1, <2>3, <2>4, Knows DEF SettledInv, Blank
    <3>. QED
      BY <1>0, <1>8, <2>1, <3>1 DEF EnrollFingerprintRead, Goto, Finish, RequestsTyped, UsersTyped,
         BaseInv, Rows, Local, Settled, Halfway
  <2>. QED  BY <2>1, <2>2, <2>3, <2>4, OneUser
<1>9. ASSUME NEW r \in Requests, EnrollFingerprintMirror(r) PROVE SettledInv'
  <2>1. PICK w \in Users : w = who[r] /\ pc[r] # "idle"
    BY <1>9 DEF EnrollFingerprintMirror, BaseInv, Rows
  <2>2. OthersKept(r) /\ who'[r] = IF pc'[r] = "idle" THEN Nil ELSE w
    BY <1>0, <1>9, <2>1, GotoMoves, FinishMoves DEF EnrollFingerprintMirror, RequestsTyped, OthersKept
  <2>3. /\ disturbed \subseteq disturbed'
        /\ \A v \in Users \ {w} : ColumnsOf(v)' = ColumnsOf(v)
        /\ ~exists'[w] => ~exists[w] /\ ColumnsOf(w)' = ColumnsOf(w)
    BY <1>0, <1>9, <2>1 DEF EnrollFingerprintMirror, BaseInv, Rows, Opening, UsersTyped, ColumnsOf
  <2>4. ASSUME w \notin disturbed'
        PROVE  /\ Settled(w)' \/ pc'[r] \in Halfway
               /\ pc'[r] # "idle" => Local(r)'
    <3>1. Local(r) /\ (pc[r] \notin Halfway => Settled(w)) /\ (~exists[w] => ~faceRegistered[w]
          /\ ~fingerprintRegistered[w] /\ ~biometricEnrolled[w])
      BY <2>1, <2>3, <2>4, Knows DEF SettledInv, Blank
    <3>. QED
      BY <1>0, <1>9, <2>1, <3>1 DEF EnrollFingerprintMirror, Goto, Finish, RequestsTyped, UsersTyped,
         BaseInv, Rows, Local, Settled, Halfway
  <2>. QED  BY <2>1, <2>2, <2>3, <2>4, OneUser
<1>10. ASSUME NEW r \in Requests, RevokeFlags(r) PROVE SettledInv'
  <2>1. PICK w \in Users : w = who[r] /\ pc[r] # "idle"
    BY <1>10 DEF RevokeFlags, BaseInv, Rows
  <2>2. OthersKept(r) /\ who'[r] = IF pc'[r] = "idle" THEN Nil ELSE w
    BY <1>0, <1>10, <2>1, GotoMoves, FinishMoves DEF RevokeFlags, RequestsTyped, OthersKept
  <2>3. /\ disturbed \subseteq disturbed'
        /\ \A v \in Users \ {w} : ColumnsOf(v)' = ColumnsOf(v)
        /\ ~exists'[w] => ~exists[w] /\ ColumnsOf(w)' = ColumnsOf(w)
    BY <1>0, <1>10, <2>1 DEF RevokeFlags, ClearRow, BaseInv, Rows, Opening, UsersTyped, ColumnsOf
  <2>4. ASSUME w \notin disturbed'
        PROVE  /\ Settled(w)' \/ pc'[r] \in Halfway
               /\ pc'[r] # "idle" => Local(r)'
    <3>1. Local(r) /\ (pc[r] \notin Halfway => Settled(w)) /\ (~exists[w] => ~faceRegistered[w]
          /\ ~fingerprintRegistered[w] /\ ~biometricEnrolled[w])
      BY <2>1, <2>3, <2>4, Knows DEF SettledInv, Blank
    <3>. QED
      BY <1>0, <1>10, <2>1, <3>1 DEF RevokeFlags, ClearRow, Goto, Finish, RequestsTyped, UsersTyped,
         BaseInv, Rows, Local, Settled, Halfway
  <2>. QED  BY <2>1, <2>2, <2>3, <2>4, OneUser
<1>11. ASSUME NEW r \in Requests, RevokeEmbedding(r) PROVE SettledInv'
  <2>1. PICK w \in Users : w = who[r] /\ pc[r] # "idle"
    BY <1>11 DEF RevokeEmbedding, BaseInv, Rows
  <2>2. OthersKept(r) /\ who'[r] = IF pc'[r] = "idle" THEN Nil ELSE w
    BY <1>0, <1>11, <2>1, GotoMoves, FinishMoves DEF RevokeEmbedding, RequestsTyped, OthersKept
  <2>3. /\ disturbed \subseteq disturbed'
        /\ \A v \in Users \ {w} : ColumnsOf(v)' = ColumnsOf(v)
        /\ ~exists'[w] => ~exists[w] /\ ColumnsOf(w)' = ColumnsOf(w)
    BY <1>0, <1>11, <2>1 DEF RevokeEmbedding, BaseInv, Rows, Opening, UsersTyped, ColumnsOf
  <2>4. ASSUME w \notin disturbed'
        PROVE  /\ Settled(w)' \/ pc'[r] \in Halfway
               /\ pc'[r] # "idle" => Local(r)'
    <3>1. Local(r) /\ (pc[r] \notin Halfway => Settled(w)) /\ (~exists[w] => ~faceRegistered[w]
          /\ ~fingerprintRegistered[w] /\ ~biometricEnrolled[w])
      BY <2>1, <2>3, <2>4, Knows DEF SettledInv, Blank
    <3>. QED
      BY <1>0, <1>11, <2>1, <3>1 DEF RevokeEmbedding, Goto, Finish, RequestsTyped, UsersTyped,
         BaseInv, Rows, Local, Settled, Halfway
  <2>. QED  BY <2>1, <2>2, <2>3, <2>4, OneUser
<1>12. ASSUME NEW r \in Requests, SkipUpdate(r) PROVE SettledInv'
  <2>1. PICK w \in Users : w = who[r] /\ pc[r] # "idle"
    BY <1>12 DEF SkipUpdate, BaseInv, Rows
  <2>2. OthersKept(r) /\ who'[r] = IF pc'[r] = "idle" THEN Nil ELSE w
    BY <1>0, <1>12, <2>1, GotoMoves, FinishMoves DEF SkipUpdate, RequestsTyped, OthersKept
  <2>3. /\ disturbed \subseteq disturbed'
        /\ \A v \in Users \ {w} : ColumnsOf(v)' = ColumnsOf(v)
        /\ ~exists'[w] => ~exists[w] /\ ColumnsOf(w)' = ColumnsOf(w)
    BY <1>0, <1>12, <2>1 DEF SkipUpdate, BaseInv, Rows, Opening, UsersTyped, ColumnsOf
  <2>4. ASSUME w \notin disturbed'
        PROVE  /\ Settled(w)' \/ pc'[r] \in Halfway
               /\ pc'[r] # "idle" => Local(r)'
    <3>1. Local(r) /\ (pc[r] \notin Halfway => Settled(w)) /\ (~exists[w] => ~faceRegistered[w]
          /\ ~fingerprintRegistered[w] /\ ~biometricEnrolled[w])
      BY <2>1, <2>3, <2>4, Knows DEF SettledInv, Blank
    <3>. QED
      BY <1>0, <1>12, <2>1, <3>1 DEF SkipUpdate, Goto, Finish, RequestsTyped, UsersTyped,
         BaseInv, Rows, Local, Settled, Halfway
  <2>. QED  BY <2>1, <2>2, <2>3, <2>4, OneUser
<1>13. ASSUME NEW r \in Requests, LoginSync(r) PROVE SettledInv'
  <2>1. PICK w \in Users : w = who[r] /\ pc[r] # "idle"
    BY <1>13 DEF LoginSync, BaseInv, Rows
  <2>2. OthersKept(r) /\ who'[r] = IF pc'[r] = "idle" THEN Nil ELSE w
    BY <1>0, <1>13, <2>1, GotoMoves, FinishMoves DEF LoginSync, RequestsTyped, OthersKept
  <2>3. /\ disturbed \subseteq disturbed'
        /\ \A v \in Users \ {w} : ColumnsOf(v)' = ColumnsOf(v)
        /\ ~exists'[w] => ~exists[w] /\ ColumnsOf(w)' = ColumnsOf(w)
    BY <1>0, <1>13, <2>1 DEF LoginSync, BaseInv, Rows, Opening, UsersTyped, ColumnsOf
  <2>4. ASSUME w \notin disturbed'
        PROVE  /\ Settled(w)' \/ pc'[r] \in Halfway
               /\ pc'[r] # "idle" => Local(r)'
    <3>1. Local(r) /\ (pc[r] \notin Halfway => Settled(w)) /\ (~exists[w] => ~faceRegistered[w]
          /\ ~fingerprintRegistered[w] /\ ~biometricEnrolled[w])
      BY <2>1, <2>3, <2>4, Knows DEF SettledInv, Blank
    <3>. QED
      BY <1>0, <1>13, <2>1, <3>1 DEF LoginSync, Goto, Finish, RequestsTyped, UsersTyped,
         BaseInv, Rows, Local, Settled, Halfway
  <2>. QED  BY <2>1, <2>2, <2>3, <2>4, OneUser
<1>14. ASSUME NEW r \in Requests, RegisterCheckFace(r) PROVE SettledInv'
  <2>1. PICK w \in Users : w = who[r] /\ pc[r] # "idle"
    BY <1>14 DEF RegisterCheckFace, BaseInv, Rows
  <2>2. OthersKept(r) /\ who'[r] = IF pc'[r] = "idle" THEN Nil ELSE w
    BY <1>0, <1>14, <2>1, GotoMoves, FinishMoves DEF RegisterCheckFace, RequestsTyped, OthersKept
  <2>3. /\ disturbed \subseteq disturbed'
        /\ \A v \in Users \ {w} : ColumnsOf(v)' = ColumnsOf(v)
        /\ ~exists'[w] => ~exists[w] /\ ColumnsOf(w)' = ColumnsOf(w)
    BY <1>0, <1>14, <2>1 DEF RegisterCheckFace, BaseInv, Rows, Opening, UsersTyped, ColumnsOf
  <2>4. ASSUME w \notin disturbed'
        PROVE  /\ Settled(w)' \/ pc'[r] \in Halfway
               /\ pc'[r] # "idle" => Local(r)'
    <3>1. Local(r) /\ (pc[r] \notin Halfway => Settled(w)) /\ (~exists[w] => ~faceRegistered[w]
          /\ ~fingerprintRegistered[w] /\ ~biometricEnrolled[w])
      BY <2>1, <2>3, <2>4, Knows DEF SettledInv, Blank
    <3>. QED
      BY <1>0, <1>14, <2>1, <3>1 DEF RegisterCheckFace, Goto, Finish, RequestsTyped, UsersTyped,
         BaseInv, Rows, Local, Settled, Halfway
  <2>. QED  BY <2>1, <2>2, <2>3, <2>4, OneUser
<1>15. ASSUME NEW r \in Requests, RegisterCheckFinger(r) PROVE SettledInv'
  <2>1. PICK w \in Users : w = who[r] /\ pc[r] # "idle"
    BY <1>15 DEF RegisterCheckFinger, BaseInv, Rows
  <2>2. OthersKept(r) /\ who'[r] = IF pc'[r] = "idle" THEN Nil ELSE w
    BY <1>0, <1>15, <2>1, GotoMoves, FinishMoves DEF RegisterCheckFinger, RequestsTyped, OthersKept
  <2>3. /\ disturbed \subseteq disturbed'
        /\ \A v \in Users \ {w} : ColumnsOf(v)' = ColumnsOf(v)
        /\ ~exists'[w] => ~exists[w] /\ ColumnsOf(w)' = ColumnsOf(w)
    BY <1>0, <1>15, <2>1 DEF RegisterCheckFinger, BaseInv, Rows, Opening, UsersTyped, ColumnsOf
  <2>4. ASSUME w \notin disturbed'
        PROVE  /\ Settled(w)' \/ pc'[r] \in Halfway
               /\ pc'[r] # "idle" => Local(r)'
    <3>1. Local(r) /\ (pc[r] \notin Halfway => Settled(w)) /\ (~exists[w] => ~faceRegistered[w]
          /\ ~fingerprintRegistered[w] /\ ~biometricEnrolled[w])
      BY <2>1, <2>3, <2>4, Knows DEF SettledInv, Blank
    <3>. QED
      BY <1>0, <1>15, <2>1, <3>1 DEF RegisterCheckFinger, Goto, Finish, RequestsTyped, UsersTyped,
         BaseInv, Rows, Local, Settled, Halfway
  <2>. QED  BY <2>1, <2>2, <2>3, <2>4, OneUser
<1>16. ASSUME NEW r \in Requests, RegisterCreate(r) PROVE SettledInv'
  <2>1. PICK w \in Users : w = who[r] /\ pc[r] # "idle"
    BY <1>16 DEF RegisterCreate, BaseInv, Rows
  <2>2. OthersKept(r) /\ who'[r] = IF pc'[r] = "idle" THEN Nil ELSE w
    BY <1>0, <1>16, <2>1, GotoMoves, FinishMoves DEF RegisterCreate, RequestsTyped, OthersKept
  <2>3. /\ disturbed \subseteq disturbed'
        /\ \A v \in Users \ {w} : ColumnsOf(v)' = ColumnsOf(v)
        /\ ~exists'[w] => ~exists[w] /\ ColumnsOf(w)' = ColumnsOf(w)
    BY <1>0, <1>16, <2>1 DEF RegisterCreate, BaseInv, Rows, Opening, UsersTyped, ColumnsOf
  <2>4. ASSUME w \notin disturbed'
        PROVE  /\ Settled(w)' \/ pc'[r] \in Halfway
               /\ pc'[r] # "idle" => Local(r)'
    <3>1. Local(r) /\ (pc[r] \notin Halfway => Settled(w)) /\ (~exists[w] => ~faceRegistered[w]
          /\ ~fingerprintRegistered[w] /\ ~biometricEnrolled[w])
      BY <2>1, <2>3, <2>4, Knows DEF SettledInv, Blank
    <3>2. CASE exists[w]
      <4>1. pc[r] = "rg_create" /\ pc'[r] = "idle" /\ UNCHANGED tables
        BY <1>0, <1>16, <2>1, <3>2, FinishMoves DEF RegisterCreate
      <4>. QED  BY <3>1, <4>1 DEF Settled, Halfway
    <3>3. CASE ~exists[w]
      <4>1. /\ pc'[r] = "rg_finger"
            /\ UNCHANGED <<face, finger, faceEmbedding, fingerprintTemplate, flagColumns>>
        BY <1>0, <1>16, <2>1, <3>3 DEF RegisterCreate, Goto, RequestsTyped
      <4>2. /\ faceRegistered'[w] = (face[r] # Nil)
            /\ fingerprintRegistered'[w] = (finger[r] # Nil)
        BY <1>0, <1>16, <2>1, <3>3 DEF RegisterCreate, UsersTyped
      <4>3. fingerprintTemplate[w] = Nil /\ ~biometricEnrolled[w]
        BY <3>1, <3>3 DEF BaseInv, Rows
      <4>4. who'[r] = w
        BY <2>2, <4>1
      <4>. QED  BY <4>1, <4>2, <4>3, <4>4 DEF Local, Halfway
    <3>. QED  BY <3>2, <3>3
  <2>. QED  BY <2>1, <2>2, <2>3, <2>4, OneUser
<1>17. ASSUME NEW r \in Requests, RegisterPutFinger(r) PROVE SettledInv'
  <2>1. PICK w \in Users : w = who[r] /\ pc[r] # "idle"
    BY <1>17 DEF RegisterPutFinger, BaseInv, Rows
  <2>2. OthersKept(r) /\ who'[r] = IF pc'[r] = "idle" THEN Nil ELSE w
    BY <1>0, <1>17, <2>1, GotoMoves, FinishMoves DEF RegisterPutFinger, RequestsTyped, OthersKept
  <2>3. /\ disturbed \subseteq disturbed'
        /\ \A v \in Users \ {w} : ColumnsOf(v)' = ColumnsOf(v)
        /\ ~exists'[w] => ~exists[w] /\ ColumnsOf(w)' = ColumnsOf(w)
    BY <1>0, <1>17, <2>1 DEF RegisterPutFinger, BaseInv, Rows, Opening, UsersTyped, ColumnsOf
  <2>4. ASSUME w \notin disturbed'
        PROVE  /\ Settled(w)' \/ pc'[r] \in Halfway
               /\ pc'[r] # "idle" => Local(r)'
    <3>1. Local(r) /\ (pc[r] \notin Halfway => Settled(w)) /\ (~exists[w] => ~faceRegistered[w]
          /\ ~fingerprintRegistered[w] /\ ~biometricEnrolled[w])
      BY <2>1, <2>3, <2>4, Knows DEF SettledInv, Blank
    <3>2. /\ pc[r] = "rg_finger" /\ pc'[r] = "rg_face" /\ face' = face
          /\ UNCHANGED <<faceColumns, fingerprintRegistered, biometricEnrolled>>
      BY <1>0, <1>17 DEF RegisterPutFinger, Goto, RequestsTyped
    <3>3. fingerprintTemplate'[w] = IF finger[r] # Nil THEN finger[r] ELSE fingerprintTemplate[w]
      BY <1>0, <1>17, <2>1 DEF RegisterPutFinger, UsersTyped
    <3>4. /\ ~biometricEnrolled[w] /\ (faceRegistered[w] => face[r] # Nil)
          /\ fingerprintRegistered[w] <=> finger[r] # Nil
          /\ fingerprintTemplate[w] = Nil
      BY <2>1, <3>1, <3>2 DEF Local, Halfway
    <3>5. who'[r] = w
      BY <2>2, <3>2
    <3>6. fingerprintRegistered'[w] <=> fingerprintTemplate'[w] # Nil
      BY <3>2, <3>3, <3>4
    <3>. QED  BY <3>2, <3>4, <3>5, <3>6 DEF Local, Halfway
  <2>. QED  BY <2>1, <2>2, <2>3, <2>4, OneUser
<1>18. ASSUME NEW r \in Requests, RegisterPutFace(r) PROVE SettledInv'
  <2>1. PICK w \in Users : w = who[r] /\ pc[r] # "idle"
    BY <1>18 DEF RegisterPutFace, BaseInv, Rows
  <2>2. OthersKept(r) /\ who'[r] = IF pc'[r] = "idle" THEN Nil ELSE w
    BY <1>0, <1>18, <2>1, GotoMoves, FinishMoves DEF RegisterPutFace, RequestsTyped, OthersKept
  <2>3. /\ disturbed \subseteq disturbed'
        /\ \A v \in Users \ {w} : ColumnsOf(v)' = ColumnsOf(v)
        /\ ~exists'[w] => ~exists[w] /\ ColumnsOf(w)' = ColumnsOf(w)
    BY <1>0, <1>18, <2>1 DEF RegisterPutFace, BaseInv, Rows, Opening, UsersTyped, ColumnsOf
  <2>4. ASSUME w \notin disturbed'
        PROVE  /\ Settled(w)' \/ pc'[r] \in Halfway
               /\ pc'[r] # "idle" => Local(r)'
    <3>1. Local(r) /\ (pc[r] \notin Halfway => Settled(w)) /\ (~exists[w] => ~faceRegistered[w]
          /\ ~fingerprintRegistered[w] /\ ~biometricEnrolled[w])
      BY <2>1, <2>3, <2>4, Knows DEF SettledInv, Blank
    <3>2. pc[r] = "rg_face" /\ pc'[r] = "idle"
          /\ UNCHANGED <<faceRegistered, fingerColumns, biometricEnrolled>>
      BY <1>0, <1>18, FinishMoves DEF RegisterPutFace
    <3>3. face[r] # Nil => faceEmbedding'[w] = face[r]
      BY <1>0, <1>18, <2>1 DEF RegisterPutFace, UsersTyped
    <3>4. /\ faceRegistered[w] => face[r] # Nil
          /\ fingerprintRegistered[w] <=> fingerprintTemplate[w] # Nil
          /\ ~biometricEnrolled[w]
      BY <2>1, <3>1, <3>2 DEF Local, Halfway
    <3>5. w \in Users /\ face[r] \in Faces \cup {Nil}
      BY <1>0 DEF RequestsTyped
    <3>. QED  BY <1>0, <3>2, <3>3, <3>4, <3>5 DEF Settled, UsersTyped
  <2>. QED  BY <2>1, <2>2, <2>3, <2>4, OneUser
<1>19. ASSUME NEW r \in Requests, Abort(r) PROVE SettledInv'
  <2>1. PICK w \in Users : w = who[r] /\ pc[r] # "idle"
    BY <1>19 DEF Abort, BaseInv, Rows
  <2>2. OthersKept(r) /\ who'[r] = IF pc'[r] = "idle" THEN Nil ELSE w
    BY <1>0, <1>19, <2>1, GotoMoves, FinishMoves DEF Abort, RequestsTyped, OthersKept
  <2>3. /\ disturbed \subseteq disturbed'
        /\ \A v \in Users \ {w} : ColumnsOf(v)' = ColumnsOf(v)
        /\ ~exists'[w] => ~exists[w] /\ ColumnsOf(w)' = ColumnsOf(w)
    BY <1>0, <1>19, <2>1 DEF Abort, BaseInv, Rows, Opening, UsersTyped, ColumnsOf
  <2>4. ASSUME w \notin disturbed'
        PROVE  /\ Settled(w)' \/ pc'[r] \in Halfway
               /\ pc'[r] # "idle" => Local(r)'
    <3>1. Local(r) /\ (pc[r] \notin Halfway => Settled(w)) /\ (~exists[w] => ~faceRegistered[w]
          /\ ~fingerprintRegistered[w] /\ ~biometricEnrolled[w])
      BY <2>1, <2>3, <2>4, Knows DEF SettledInv, Blank
    <3>2. pc'[r] = "idle" /\ UNCHANGED tables
      BY <1>0, <1>19, FinishMoves DEF Abort
    <3>3. pc[r] \notin Halfway
      BY <1>19, <2>1, <2>4 DEF Abort, Halfway
    <3>. QED  BY <3>1, <3>2, <3>3 DEF Settled
  <2>. QED  BY <2>1, <2>2, <2>3, <2>4, OneUser
<1>20. ASSUME NEW r \in Requests,
              EnrollFace(r) \/ EnrollFingerprint(r) \/ Revoke(r) \/ Skip(r) \/ Login(r) \/ Register(r)
       PROVE  SettledInv'
  <2>1. PICK w \in Users :
          /\ who' = [who EXCEPT ![r] = w]
          /\ disturbed' = IF \E q \in Requests \ {r} : who[q] = w
                          THEN disturbed \cup {w} ELSE disturbed
    BY <1>20 DEF EnrollFace, EnrollFingerprint, Revoke, Skip, Login, Register, Begin, Serve
  <2>2. OthersKept(r) /\ who'[r] = w /\ UNCHANGED tables /\ pc[r] = "idle" /\ pc'[r] # "idle"
    <3>1. who'[r] = w
      BY <1>0, <2>1 DEF RequestsTyped
    <3>2. CASE Login(r)
      BY <1>0, <3>1, <3>2 DEF Login, RequestsTyped, OthersKept
    <3>3. ASSUME NEW next \in Steps \ {"idle"}, NEW u, NEW f, NEW g,
                 Begin(r, next, u, f, g), UNCHANGED tables
          PROVE  OthersKept(r) /\ UNCHANGED tables /\ pc[r] = "idle" /\ pc'[r] # "idle"
      BY <1>0, <3>3, BeginMoves DEF Begin
    <3>4. CASE EnrollFace(r) \/ EnrollFingerprint(r) \/ Revoke(r) \/ Skip(r) \/ Register(r)
      BY <3>1, <3>3, <3>4 DEF EnrollFace, EnrollFingerprint, Revoke, Skip, Register, Steps
    <3>. QED  BY <1>20, <3>2, <3>4
  <2>3. Local(r)'
    BY <1>0, <1>20 DEF EnrollFace, EnrollFingerprint, Revoke, Skip, Login, Register,
       Begin, RequestsTyped, Local, Halfway
  <2>. QED  BY <2>1, <2>2, <2>3, Opened
<1>21. CASE UNCHANGED vars
  BY <1>21 DEF vars, requestVars, SettledInv, Alone, Blank, Registering, Settled, Local
<1>. QED
  BY <1>1, <1>2, <1>3, <1>4, <1>5, <1>6, <1>7, <1>8, <1>9, <1>10, <1>11, <1>12, <1>13, <1>14, <1>15, <1>16, <1>17, <1>18, <1>19, <1>20, <1>21
     DEF Next, FaceStep, FingerStep, AccountStep, RegisterStep

\* An account that was never served by two requests at once, and whose
\* registration did not die halfway, is consistent whenever nobody works on it.
THEOREM SettledIsConsistentThm == Spec => []SettledIsConsistent
<1>1. Init => SettledInv
  BY DEF Init, SettledInv, Alone, Blank, Settled, Local
<1>2. SettledInv => SettledIsConsistent
  <2> SUFFICES ASSUME SettledInv, NEW u \in Users \ disturbed, Idle(u) PROVE Settled(u)
    BY DEF SettledIsConsistent, Settled
  <2>. QED  BY DEF SettledInv, Registering, Idle
<1>. QED  BY <1>1, <1>2, NextSettled, BaseInvariance, PTL DEF Spec

-----------------------------------------------------------------------------
(* The run with the pages that enrol                                       *)

\* A behaviour of the run is a behaviour of the backend and of each page: what is
\* proved of one of them holds of the run, whichever the run follows.
THEOREM PagesImplementEach == PagesSpec => Spec /\ SettingsSpec /\ SignupSpec
<1>1. PagesInit => Init /\ SettingsInit /\ SignupInit
  BY DEF PagesInit
<1>2. ASSUME [PagesNext]_<<focus, vars, settingsVars, signupVars>>
      PROVE  [Next]_vars /\ [SettingsNext]_settingsVars /\ [SignupNext]_signupVars
  <2>1. CASE UNCHANGED <<focus, vars, settingsVars, signupVars>>
    BY <2>1, Zenon
  <2>2. CASE focus = "enrollment" /\ Next /\ UNCHANGED <<settingsVars, signupVars>>
    BY <2>2, Zenon
  <2>3. CASE focus = "settings" /\ SettingsNext /\ UNCHANGED <<vars, signupVars>>
    BY <2>3, Zenon
  <2>4. CASE focus = "signup" /\ SignupNext /\ UNCHANGED <<vars, settingsVars>>
    BY <2>4, Zenon
  <2> QED
    BY <1>2, <2>1, <2>2, <2>3, <2>4, Zenon DEF PagesNext
<1> QED
  BY <1>1, <1>2, PTL DEF PagesSpec, Spec, SettingsSpec, SignupSpec
=============================================================================
