----------------------- MODULE TenantOnboardingProofs -----------------------
(***************************************************************************)
(* Theorems about TenantOnboarding, for every number of handlers, emails   *)
(* and tenants, past OG999 too.  LockInv: the unique index on the code     *)
(* serialises the transactions.  FullInv adds that what a transaction has  *)
(* read or inserted is still the next number and a free email when it      *)
(* commits.  At the end: the run with the services of a tenant is a run of *)
(* each.                                                                   *)
(***************************************************************************)
EXTENDS MCTenantPages, FiniteSetTheorems, SequenceTheorems, TLAPS

\* The locals of the handlers, as far as the argument needs them.
LocalsTyped ==
    /\ pc \in [Handlers -> Steps]
    /\ DOMAIN code = Handlers /\ DOMAIN email = Handlers /\ DOMAIN row = Handlers
    /\ DOMAIN admin = Handlers

\* A code read is the next one, unless a rival has committed it since.
CodeIsNextOrTaken ==
    \A h \in Handlers : pc[h] \in {"tx_tenant", "tx_admin", "tx_user", "tx_commit"} =>
        code[h] = NextCode(Codes) \/ code[h] \in Codes

\* A transaction past its insert holds a code nobody has committed.
CreatorsCodeIsFree == \A h \in Creators : code[h] \notin Codes

LockInv == LocalsTyped /\ CodeIsNextOrTaken /\ CreatorsCodeIsFree /\ OneCreatorAtATime

-----------------------------------------------------------------------------

\* What a step of one handler h does not touch.
OthersKept(h) ==
    \A g \in Handlers \ {h} : /\ pc'[g] = pc[g] /\ code'[g] = code[g]
                              /\ email'[g] = email[g] /\ row'[g] = row[g]

LEMMA FinishMoves ==
    ASSUME LocalsTyped, NEW h \in Handlers, Finish(h)
    PROVE  LocalsTyped' /\ OthersKept(h) /\ pc'[h] = "idle"
  BY DEF LocalsTyped, OthersKept, Finish, Steps

LEMMA GotoMoves ==
    ASSUME LocalsTyped, NEW h \in Handlers, NEW step \in Steps, Goto(h, step),
           UNCHANGED <<email, row, code>>, DOMAIN admin' = Handlers
    PROVE  LocalsTyped' /\ OthersKept(h) /\ pc'[h] = step
  BY DEF LocalsTyped, OthersKept, Goto

\* A step that commits no tenant and gives h no code and no creator's place.
LEMMA QuietLock ==
    ASSUME LockInv, LocalsTyped', NEW h \in Handlers, OthersKept(h),
           tenants' = tenants,
           pc'[h] \in {"tx_tenant", "tx_admin", "tx_user", "tx_commit"} =>
               code'[h] = code[h] /\ pc[h] \in {"tx_tenant", "tx_admin", "tx_user", "tx_commit"},
           h \in Creators' => h \in Creators
    PROVE  LockInv'
<1>1. Codes' = Codes
  BY DEF Codes
<1>2. \A g \in Creators' : g \in Creators /\ code'[g] = code[g]
  BY DEF OthersKept, Creators
<1>3. CodeIsNextOrTaken'
  <2> SUFFICES ASSUME NEW g \in Handlers,
                      pc'[g] \in {"tx_tenant", "tx_admin", "tx_user", "tx_commit"}
               PROVE  code'[g] = NextCode(Codes) \/ code'[g] \in Codes
    BY <1>1 DEF CodeIsNextOrTaken, NextCode, LastCode, SortKey
  <2>. QED  BY DEF OthersKept, LockInv, CodeIsNextOrTaken
<1>4. CreatorsCodeIsFree'
  BY <1>1, <1>2 DEF LockInv, CreatorsCodeIsFree
<1>5. OneCreatorAtATime'
  BY <1>2 DEF LockInv, OneCreatorAtATime
<1>. QED  BY <1>3, <1>4, <1>5 DEF LockInv

LEMMA NextLock == LockInv /\ [Next]_vars => LockInv'
<1> SUFFICES ASSUME LockInv, [Next]_vars PROVE LockInv'
  OBVIOUS
<1>0. LocalsTyped
  BY DEF LockInv
<1>1. ASSUME NEW h \in Handlers, NEW e \in Emails, Submit(h, e) PROVE LockInv'
  <2>1. LocalsTyped' /\ OthersKept(h) /\ pc'[h] = "sr_create" /\ tenants' = tenants
    BY <1>0, <1>1 DEF LocalsTyped, OthersKept, Submit, Goto, Steps
  <2>. QED  BY <2>1, QuietLock DEF Creators
<1>2. ASSUME NEW h \in Handlers, NEW e, NEW i, Open(h, e, i) PROVE LockInv'
  <2>1. LocalsTyped' /\ OthersKept(h) /\ pc'[h] = "tx_code" /\ tenants' = tenants
    BY <1>0, <1>2 DEF LocalsTyped, OthersKept, Open, Goto, Steps
  <2>. QED  BY <2>1, QuietLock DEF Creators
<1>3. ASSUME NEW h \in Handlers, SubmitCreate(h) \/ Abort(h) PROVE LockInv'
  <2>1. Finish(h) /\ tenants' = tenants
    BY <1>3 DEF SubmitCreate, Abort
  <2>. QED  BY <1>0, <2>1, FinishMoves, QuietLock DEF Creators
<1>4. ASSUME NEW h \in Handlers, ReadCode(h) PROVE LockInv'
  <2>1. /\ LocalsTyped' /\ OthersKept(h) /\ pc'[h] = "tx_tenant"
        /\ code'[h] = NextCode(Codes) /\ tenants' = tenants
    BY <1>0, <1>4 DEF LocalsTyped, OthersKept, ReadCode, Goto, Steps
  <2>2. Codes' = Codes
    BY <2>1 DEF Codes
  <2>3. \A g \in Creators' : g \in Creators /\ code'[g] = code[g]
    BY <2>1 DEF OthersKept, Creators
  <2>4. CodeIsNextOrTaken'
    <3> SUFFICES ASSUME NEW g \in Handlers,
                        pc'[g] \in {"tx_tenant", "tx_admin", "tx_user", "tx_commit"}
                 PROVE  code'[g] = NextCode(Codes) \/ code'[g] \in Codes
      BY <2>2 DEF CodeIsNextOrTaken, NextCode, LastCode, SortKey
    <3>. QED  BY <2>1 DEF OthersKept, LockInv, CodeIsNextOrTaken
  <2>. QED
    BY <2>1, <2>2, <2>3, <2>4 DEF LockInv, CreatorsCodeIsFree, OneCreatorAtATime
<1>5. ASSUME NEW h \in Handlers, InsertTenant(h) PROVE LockInv'
  <2>1. CASE CodeTaken(h)
    <3>1. Finish(h) /\ tenants' = tenants
      BY <1>5, <2>1 DEF InsertTenant
    <3>. QED  BY <1>0, <3>1, FinishMoves, QuietLock DEF Creators
  <2>2. CASE ~CodeTaken(h)
    <3>1. /\ LocalsTyped' /\ OthersKept(h) /\ pc'[h] = "tx_admin" /\ pc[h] = "tx_tenant"
          /\ code' = code /\ tenants' = tenants
      BY <1>0, <1>5, <2>2, GotoMoves DEF InsertTenant, LocalsTyped, Steps
    <3>2. code[h] = NextCode(Codes) /\ code[h] \notin Codes
      BY <2>2, <3>1 DEF LockInv, CodeIsNextOrTaken, CodeTaken
    <3>3. ASSUME NEW g \in Creators PROVE FALSE
      <4>1. code[g] = NextCode(Codes)
        BY DEF LockInv, CodeIsNextOrTaken, CreatorsCodeIsFree, Creators
      <4>. QED  BY <1>5, <3>2, <4>1 DEF InsertTenant, CodeHeld
    <3>4. Creators' = {h}
      BY <3>1, <3>3 DEF Creators, OthersKept
    <3>5. Codes' = Codes
      BY <3>1 DEF Codes
    <3>6. CodeIsNextOrTaken'
      <4> SUFFICES ASSUME NEW g \in Handlers,
                          pc'[g] \in {"tx_tenant", "tx_admin", "tx_user", "tx_commit"}
                   PROVE  code'[g] = NextCode(Codes) \/ code'[g] \in Codes
        BY <3>5 DEF CodeIsNextOrTaken, NextCode, LastCode, SortKey
      <4>. QED  BY <3>1 DEF OthersKept, LockInv, CodeIsNextOrTaken
    <3>. QED
      BY <3>1, <3>2, <3>4, <3>5, <3>6 DEF LockInv, CreatorsCodeIsFree, OneCreatorAtATime
  <2>. QED  BY <2>1, <2>2
<1>6. ASSUME NEW h \in Handlers, ReadAdmin(h) PROVE LockInv'
  <2>1. DOMAIN admin' = Handlers
    BY <1>0, <1>6 DEF ReadAdmin, LocalsTyped
  <2>2. /\ LocalsTyped' /\ OthersKept(h) /\ pc'[h] = "tx_user" /\ pc[h] = "tx_admin"
        /\ code' = code /\ tenants' = tenants
    BY <1>0, <1>6, <2>1, GotoMoves DEF ReadAdmin, Steps
  <2>. QED  BY <2>2, QuietLock DEF Creators
<1>7. ASSUME NEW h \in Handlers, InsertAdmin(h) PROVE LockInv'
  <2>1. tenants' = tenants /\ pc[h] = "tx_user"
    BY <1>7 DEF InsertAdmin
  <2>2. CASE Finish(h)
    BY <1>0, <2>1, <2>2, FinishMoves, QuietLock DEF Creators
  <2>3. CASE Goto(h, "tx_commit") /\ UNCHANGED <<email, row, code, admin>>
    <3>1. LocalsTyped' /\ OthersKept(h) /\ pc'[h] = "tx_commit" /\ code' = code
      BY <1>0, <2>3, GotoMoves DEF LocalsTyped, Steps
    <3>. QED  BY <2>1, <3>1, QuietLock DEF Creators
  <2>. QED  BY <1>7, <2>2, <2>3 DEF InsertAdmin
<1>8. ASSUME NEW h \in Handlers, Commit(h) PROVE LockInv'
  <2>1. /\ LocalsTyped' /\ OthersKept(h) /\ pc'[h] = "idle" /\ h \in Creators
        /\ \A g \in Handlers \ {h} : code'[g] = code[g]
    BY <1>0, <1>8, FinishMoves DEF Commit, Creators, OthersKept
  <2>2. Creators' = {}
    BY <2>1 DEF OthersKept, LockInv, OneCreatorAtATime, Creators
  <2>3. Codes' = Codes \cup {code[h]} /\ code[h] = NextCode(Codes)
    <3> DEFINE new == [code |-> code[h], admin |-> admin[h], email |-> email[h],
                       request |-> row[h]]
    <3>1. tenants' = tenants \cup {new} /\ new.code = code[h]
      BY <1>8 DEF Commit
    <3> HIDE DEF new
    <3>2. {t.code : t \in tenants'} = {t.code : t \in tenants} \cup {code[h]}
      BY <3>1
    <3>3. Codes' = Codes \cup {code[h]}
      BY <3>2 DEF Codes
    <3>. QED
      BY <2>1, <3>3 DEF LockInv, CodeIsNextOrTaken, CreatorsCodeIsFree, Creators
  <2>4. CodeIsNextOrTaken'
    <3> SUFFICES ASSUME NEW g \in Handlers,
                        pc'[g] \in {"tx_tenant", "tx_admin", "tx_user", "tx_commit"}
                 PROVE  code'[g] \in Codes'
      BY DEF CodeIsNextOrTaken
    <3>1. g # h /\ pc[g] = pc'[g] /\ code'[g] = code[g]
      BY <2>1 DEF OthersKept
    <3>. QED  BY <2>3, <3>1 DEF LockInv, CodeIsNextOrTaken
  <2>. QED
    BY <2>1, <2>2, <2>4 DEF LockInv, CreatorsCodeIsFree, OneCreatorAtATime
<1>9. CASE /\ UNCHANGED <<tenants, pc, email, row, code, admin>>
  <2>1. Codes' = Codes /\ NextCode(Codes)' = NextCode(Codes)
    BY <1>9 DEF Codes, NextCode, LastCode, SortKey
  <2>. QED
    BY <1>9, <2>1 DEF LockInv, LocalsTyped, CodeIsNextOrTaken, CreatorsCodeIsFree,
                      OneCreatorAtATime, Creators
<1>. QED
  BY <1>1, <1>2, <1>3, <1>4, <1>5, <1>6, <1>7, <1>8, <1>9
     DEF Next, Transaction, Provision, RegisterOrganization, Review, NewUser, vars, handlerVars

\* Nobody is in a transaction at first.
LEMMA InitLock == Init => LockInv
  BY DEF Init, LockInv, LocalsTyped, CodeIsNextOrTaken, CreatorsCodeIsFree,
         OneCreatorAtATime, Creators, Steps

\* From the insert of the tenant to the commit a transaction is alone,
\* although READ COMMITTED lets all of them read the same next number.
THEOREM OneCreatorAtATimeThm == Spec => []OneCreatorAtATime
<1>1. LockInv => OneCreatorAtATime
  BY DEF LockInv
<1>. QED  BY <1>1, InitLock, NextLock, PTL DEF Spec
-----------------------------------------------------------------------------
(* What is numbered, and for whom.                                         *)

\* A request under way works for an email, and one that provisions for that of
\* its access request.
RowsMatch ==
    /\ \A h \in Handlers : pc[h] # "idle" => email[h] \in Emails
    /\ \A h \in Handlers : pc[h] = "idle" => row[h] = 0
    /\ \A h \in Handlers : row[h] # 0 =>
           row[h] \in DOMAIN requests /\ requests[row[h]].email = email[h]

\* The super admin's number is still the next one when it is inserted and when
\* the transaction commits, and it and the email are free then.
CommitIsFree ==
    /\ \A h \in Handlers : pc[h] \in {"tx_user", "tx_commit"} => admin[h] = NextCode(Admins)
    /\ \A h \in Handlers : pc[h] = "tx_commit" =>
           admin[h] \notin Admins /\ email[h] \notin users

\* Every tenant has an account, and belongs to the request it came from.
TenantsMatch ==
    /\ IsFiniteSet(tenants)
    /\ \A t \in tenants : t.email \in users
    /\ \A t \in tenants : t.request # 0 =>
           t.request \in DOMAIN requests /\ requests[t.request].email = t.email

FullInv ==
    /\ LockInv /\ TypeOK
    /\ RowsMatch /\ CommitIsFree /\ TenantsMatch
    /\ SequentialCodes /\ ProvisionedAtMostOnce

\* The number computed from 1..n is the next one or taken; up to OG999 it is
\* the next one.
LEMMA NextCodeOf ==
    ASSUME NEW n \in Nat
    PROVE  /\ NextCode(1..n) \in 1..(n + 1)
           /\ n <= LastPadded => NextCode(1..n) = n + 1
<1>1. CASE n = 0
  BY <1>1 DEF NextCode
<1>2. CASE n > 0
  <2> DEFINE IsLast(c) == \A d \in 1..n : SortKey(d) <= SortKey(c)
  <2>1. \E c \in 1..n : IsLast(c)
    <3>1. CASE n <= LastPadded
      <4>1. IsLast(n)
        BY <1>2, <3>1, OnboardingAssumption DEF SortKey
      <4>. QED  BY <1>2, <4>1
    <3>2. CASE n > LastPadded /\ (LastPadded = 0 \/ 20 * LastPadded <= 2 * n + 1)
      <4>1. IsLast(n)
        BY <1>2, <3>2, OnboardingAssumption DEF SortKey
      <4>. QED  BY <1>2, <4>1
    <3>3. CASE n > LastPadded /\ LastPadded # 0 /\ 20 * LastPadded > 2 * n + 1
      <4>1. IsLast(LastPadded) /\ LastPadded \in 1..n
        BY <1>2, <3>3, OnboardingAssumption DEF SortKey
      <4>. QED  BY <4>1
    <3>. QED  BY <3>1, <3>2, <3>3, OnboardingAssumption
  <2>2. LastCode(1..n) \in 1..n /\ IsLast(LastCode(1..n))
    BY <2>1 DEF LastCode
  <2>3. 1..n # {}
    BY <1>2
  <2>4. NextCode(1..n) = LastCode(1..n) + 1
    BY <2>3 DEF NextCode
  <2>5. ASSUME n <= LastPadded PROVE LastCode(1..n) = n
    BY <1>2, <2>2, <2>5, OnboardingAssumption DEF SortKey
  <2>. QED  BY <2>2, <2>4, <2>5
<1>. QED  BY <1>1, <1>2

\* Codes and super admins are numbered alike, so the same holds of both.
LEMMA NextNumber ==
    ASSUME FullInv
    PROVE  /\ NextCode(Codes) \in Nat /\ NextCode(Admins) \in Nat
           /\ FirstCode + Cardinality(tenants) \in Nat
           /\ \/ NextCode(Codes) \in Codes
              \/ NextCode(Codes) = FirstCode + Cardinality(tenants) + 1
           /\ \/ NextCode(Admins) \in Admins
              \/ NextCode(Admins) = FirstCode + Cardinality(tenants) + 1
<1> DEFINE last == FirstCode + Cardinality(tenants)
<1>1. last \in Nat
  BY FS_CardinalityType, OnboardingAssumption DEF FullInv, TenantsMatch
<1>2. Codes = 1..last /\ Admins = 1..last
  BY DEF FullInv, SequentialCodes
<1>. HIDE DEF last
<1>3. NextCode(1..last) \in 1..(last + 1)
  BY <1>1, NextCodeOf
<1>4. NextCode(1..last) \in Nat /\ (NextCode(1..last) \in 1..last \/ NextCode(1..last) = last + 1)
  BY <1>1, <1>3
<1>. QED  BY <1>1, <1>2, <1>4 DEF last

\* A step that commits nothing: what remains to be shown of it.
LEMMA QuietFull ==
    ASSUME FullInv, LockInv', TypeOK', RowsMatch', tenants' = tenants, users' = users,
           \A t \in tenants : t.request # 0 =>
               /\ t.request \in DOMAIN requests'
               /\ requests'[t.request].email = requests[t.request].email,
           \A h \in Handlers : pc'[h] \in {"tx_user", "tx_commit"} =>
               /\ pc'[h] = pc[h]
               /\ admin'[h] = admin[h] /\ email'[h] = email[h]
    PROVE  FullInv'
<1>1. Codes' = Codes /\ Admins' = Admins
  BY DEF Codes, Admins
<1>2. CommitIsFree'
  BY <1>1 DEF FullInv, CommitIsFree, NextCode, LastCode, SortKey
<1>3. TenantsMatch'
  BY DEF FullInv, TenantsMatch
<1>4. SequentialCodes' /\ ProvisionedAtMostOnce'
  BY <1>1 DEF FullInv, SequentialCodes, ProvisionedAtMostOnce
<1>. QED  BY <1>2, <1>3, <1>4 DEF FullInv

-----------------------------------------------------------------------------

\* The end of a handler that commits nothing.
LEMMA FinishFull ==
    ASSUME FullInv, LockInv', NEW h \in Handlers, Finish(h), tenants' = tenants,
           users' = users, requests' = requests
    PROVE  FullInv'
<1>1. TypeOK'
  BY DEF FullInv, TypeOK, Finish, Steps
<1>2. /\ \A g \in Handlers \ {h} : /\ pc'[g] = pc[g] /\ email'[g] = email[g]
                                   /\ row'[g] = row[g] /\ admin'[g] = admin[g]
      /\ pc'[h] = "idle" /\ row'[h] = 0
  BY DEF FullInv, TypeOK, Finish
<1>3. RowsMatch'
  BY <1>2 DEF FullInv, RowsMatch
<1>4. \A g \in Handlers : pc'[g] \in {"tx_user", "tx_commit"} => g # h
  BY <1>2
<1>5. \A t \in tenants : t.request # 0 =>
          /\ t.request \in DOMAIN requests'
          /\ requests'[t.request].email = requests[t.request].email
  BY DEF FullInv, TenantsMatch
<1>. QED  BY <1>1, <1>2, <1>3, <1>4, <1>5, QuietFull

\* Requests are submitted and reviewed, accounts created, outside any
\* transaction.
LEMMA RequestsFull ==
    ASSUME FullInv, LockInv',
           \/ \E h \in Handlers : SubmitCreate(h) \/ \E e \in Emails : Submit(h, e)
           \/ \E i \in DOMAIN requests, status \in Statuses : Review(i, status)
           \/ \E e \in Emails : NewUser(e)
    PROVE  FullInv'
<1>1. ASSUME NEW h \in Handlers, NEW e \in Emails, Submit(h, e) PROVE FullInv'
  <2>1. TypeOK'
    BY <1>1 DEF FullInv, TypeOK, Submit, Goto, Steps
  <2>2. RowsMatch'
    BY <1>1 DEF FullInv, TypeOK, RowsMatch, Submit, Goto
  <2>3. \A g \in Handlers : pc'[g] \in {"tx_user", "tx_commit"} =>
            pc'[g] = pc[g] /\ admin'[g] = admin[g] /\ email'[g] = email[g]
    BY <1>1 DEF FullInv, TypeOK, Submit, Goto
  <2>. QED  BY <1>1, <2>1, <2>2, <2>3, QuietFull DEF Submit, FullInv, TenantsMatch
<1>2. ASSUME NEW h \in Handlers, SubmitCreate(h) PROVE FullInv'
  <2> DEFINE new == [email |-> email[h], status |-> "PENDING"]
  <2>1. new \in [email : Emails, status : Statuses]
    BY <1>2 DEF SubmitCreate, FullInv, RowsMatch, Statuses
  <2>2. requests \in Seq([email : Emails, status : Statuses])
    BY DEF FullInv, TypeOK
  <2>3. requests' = Append(requests, new) /\ Finish(h) /\ UNCHANGED <<tenants, users>>
    BY <1>2 DEF SubmitCreate
  <2>. HIDE DEF new
  <2>4. /\ requests' \in Seq([email : Emails, status : Statuses])
        /\ \A i \in DOMAIN requests : i \in DOMAIN requests' /\ requests'[i] = requests[i]
    BY <2>1, <2>2, <2>3
  <2>5. TypeOK'
    BY <2>3, <2>4 DEF FullInv, TypeOK, Finish, Steps
  <2>6. /\ \A g \in Handlers \ {h} : /\ pc'[g] = pc[g] /\ email'[g] = email[g]
                                     /\ row'[g] = row[g] /\ admin'[g] = admin[g]
        /\ pc'[h] = "idle" /\ row'[h] = 0
    BY <2>3 DEF FullInv, TypeOK, Finish
  <2>7. RowsMatch'
    BY <2>4, <2>6 DEF FullInv, RowsMatch
  <2>8. \A t \in tenants : t.request # 0 =>
            /\ t.request \in DOMAIN requests'
            /\ requests'[t.request].email = requests[t.request].email
    BY <2>4 DEF FullInv, TenantsMatch
  <2>. QED  BY <2>3, <2>5, <2>6, <2>7, <2>8, QuietFull
<1>3. ASSUME NEW i \in DOMAIN requests, NEW status \in Statuses, Review(i, status)
      PROVE  FullInv'
  <2>1. requests \in Seq([email : Emails, status : Statuses])
    BY DEF FullInv, TypeOK
  <2>2. /\ requests' = [requests EXCEPT ![i].status = status]
        /\ UNCHANGED <<tenants, users, pc, email, row, code, admin>>
    BY <1>3 DEF Review, handlerVars
  <2>3. /\ requests' \in Seq([email : Emails, status : Statuses])
        /\ DOMAIN requests' = DOMAIN requests
        /\ \A j \in DOMAIN requests : requests'[j].email = requests[j].email
    <3>1. /\ requests[i] \in [email : Emails, status : Statuses]
          /\ Len(requests) \in Nat /\ DOMAIN requests = 1..Len(requests)
      BY <2>1, ElementOfSeq, LenProperties
    <3>2. /\ [requests[i] EXCEPT !.status = status] \in [email : Emails, status : Statuses]
          /\ [requests[i] EXCEPT !.status = status].email = requests[i].email
      BY <3>1
    <3>3. requests' = [requests EXCEPT ![i] = [requests[i] EXCEPT !.status = status]]
      BY <2>2
    <3>. QED  BY <2>1, <3>1, <3>2, <3>3
  <2>4. TypeOK'
    BY <2>2, <2>3 DEF FullInv, TypeOK
  <2>5. RowsMatch'
    BY <2>2, <2>3 DEF FullInv, RowsMatch
  <2>. QED  BY <2>2, <2>3, <2>4, <2>5, QuietFull DEF FullInv, TenantsMatch
<1>4. ASSUME NEW e \in Emails, NewUser(e) PROVE FullInv'
  <2>1. /\ users' = users \cup {e}
        /\ UNCHANGED <<requests, tenants, pc, email, row, code, admin>>
        /\ \A h \in Handlers : pc[h] = "tx_commit" => email[h] # e
    BY <1>4 DEF NewUser, handlerVars
  <2>2. Codes' = Codes /\ Admins' = Admins
    BY <2>1 DEF Codes, Admins
  <2>3. TypeOK'
    BY <2>1 DEF FullInv, TypeOK
  <2>4. RowsMatch' /\ TenantsMatch'
    BY <2>1 DEF FullInv, RowsMatch, TenantsMatch
  <2>5. CommitIsFree'
    BY <2>1, <2>2 DEF FullInv, CommitIsFree, NextCode, LastCode, SortKey
  <2>6. SequentialCodes' /\ ProvisionedAtMostOnce'
    BY <2>1, <2>2 DEF FullInv, SequentialCodes, ProvisionedAtMostOnce
  <2>. QED  BY <2>3, <2>4, <2>5, <2>6 DEF FullInv
<1>. QED  BY <1>1, <1>2, <1>3, <1>4

-----------------------------------------------------------------------------

\* The steps of a transaction up to its insert of the super admin.
LEMMA TransactionFull ==
    ASSUME FullInv, LockInv', NEW h \in Handlers,
           \/ \E e \in Emails : RegisterOrganization(h, e)
           \/ \E i \in DOMAIN requests : Provision(h, i)
           \/ ReadCode(h) \/ InsertTenant(h) \/ ReadAdmin(h) \/ InsertAdmin(h)
    PROVE  FullInv'
<1>0. \A t \in tenants : t.request # 0 => t.request \in DOMAIN requests
  BY DEF FullInv, TenantsMatch
<1>1. ASSUME NEW e \in Emails, NEW i \in Nat, Open(h, e, i),
             i # 0 => i \in DOMAIN requests /\ requests[i].email = e
      PROVE  FullInv'
  <2>1. TypeOK'
    BY <1>1 DEF FullInv, TypeOK, Open, Goto, Steps
  <2>2. RowsMatch'
    BY <1>1 DEF FullInv, TypeOK, RowsMatch, Open, Goto
  <2>3. \A g \in Handlers : pc'[g] \in {"tx_user", "tx_commit"} =>
            pc'[g] = pc[g] /\ admin'[g] = admin[g] /\ email'[g] = email[g]
    BY <1>1 DEF FullInv, TypeOK, Open, Goto
  <2>. QED  BY <1>0, <1>1, <2>1, <2>2, <2>3, QuietFull DEF Open
<1>2. ASSUME NEW i \in DOMAIN requests, Provision(h, i) PROVE FullInv'
  <2>0. requests \in Seq([email : Emails, status : Statuses])
    BY DEF FullInv, TypeOK
  <2>1. /\ requests[i] \in [email : Emails, status : Statuses]
        /\ Len(requests) \in Nat /\ DOMAIN requests = 1..Len(requests)
    BY <2>0, ElementOfSeq, LenProperties
  <2>2. requests[i].email \in Emails /\ i \in Nat
    BY <2>1
  <2>. QED  BY <1>1, <1>2, <2>2 DEF Provision
<1>3. CASE ReadCode(h)
  <2>1. NextCode(Codes) \in Nat
    BY NextNumber
  <2>2. TypeOK'
    BY <1>3, <2>1 DEF FullInv, TypeOK, ReadCode, Goto, Steps
  <2>3. RowsMatch'
    BY <1>3 DEF FullInv, TypeOK, RowsMatch, ReadCode, Goto
  <2>4. \A g \in Handlers : pc'[g] \in {"tx_user", "tx_commit"} =>
            pc'[g] = pc[g] /\ admin'[g] = admin[g] /\ email'[g] = email[g]
    BY <1>3 DEF FullInv, TypeOK, ReadCode, Goto
  <2>. QED  BY <1>0, <1>3, <2>2, <2>3, <2>4, QuietFull DEF ReadCode
<1>4. CASE InsertTenant(h)
  <2>1. CASE CodeTaken(h)
    BY <1>4, <2>1, FinishFull DEF InsertTenant
  <2>2. CASE ~CodeTaken(h)
    <3>1. /\ pc[h] = "tx_tenant" /\ pc' = [pc EXCEPT ![h] = "tx_admin"]
          /\ UNCHANGED <<email, row, code, admin, requests, tenants, users>>
      BY <1>4, <2>2 DEF InsertTenant, Goto
    <3>2. TypeOK'
      BY <3>1 DEF FullInv, TypeOK, Steps
    <3>3. RowsMatch'
      BY <3>1 DEF FullInv, TypeOK, RowsMatch
    <3>4. \A g \in Handlers : pc'[g] \in {"tx_user", "tx_commit"} => pc'[g] = pc[g]
      BY <3>1 DEF FullInv, TypeOK
    <3>. QED  BY <1>0, <3>1, <3>2, <3>3, <3>4, QuietFull
  <2>. QED  BY <2>1, <2>2
<1>5. CASE ReadAdmin(h)
  <2>1. /\ pc[h] = "tx_admin" /\ pc' = [pc EXCEPT ![h] = "tx_user"]
        /\ admin' = [admin EXCEPT ![h] = NextCode(Admins)]
        /\ UNCHANGED <<email, row, code, requests, tenants, users>>
    BY <1>5 DEF ReadAdmin, Goto
  <2>2. NextCode(Admins) \in Nat
    BY NextNumber
  <2>3. TypeOK'
    BY <2>1, <2>2 DEF FullInv, TypeOK, Steps
  <2>4. RowsMatch' /\ TenantsMatch'
    BY <2>1 DEF FullInv, TypeOK, RowsMatch, TenantsMatch
  <2>5. Codes' = Codes /\ Admins' = Admins /\ NextCode(Admins)' = NextCode(Admins)
    BY <2>1 DEF Codes, Admins, NextCode, LastCode, SortKey
  <2>6. CommitIsFree'
    BY <2>1, <2>5 DEF FullInv, TypeOK, CommitIsFree
  <2>7. SequentialCodes' /\ ProvisionedAtMostOnce'
    BY <2>1, <2>5 DEF FullInv, SequentialCodes, ProvisionedAtMostOnce
  <2>. QED  BY <2>3, <2>4, <2>6, <2>7 DEF FullInv
<1>6. CASE InsertAdmin(h)
  <2>1. CASE EmailTaken(h) \/ admin[h] \in Admins
    BY <1>6, <2>1, FinishFull DEF InsertAdmin
  <2>2. CASE ~(EmailTaken(h) \/ admin[h] \in Admins)
    <3>1. /\ pc[h] = "tx_user" /\ pc' = [pc EXCEPT ![h] = "tx_commit"]
          /\ UNCHANGED <<email, row, code, admin, requests, tenants, users>>
      BY <1>6, <2>2 DEF InsertAdmin, Goto
    <3>2. TypeOK'
      BY <3>1 DEF FullInv, TypeOK, Steps
    <3>3. RowsMatch' /\ TenantsMatch'
      BY <3>1 DEF FullInv, TypeOK, RowsMatch, TenantsMatch
    <3>4. Codes' = Codes /\ Admins' = Admins /\ NextCode(Admins)' = NextCode(Admins)
      BY <3>1 DEF Codes, Admins, NextCode, LastCode, SortKey
    <3>5. CommitIsFree'
      BY <2>2, <3>1, <3>4 DEF FullInv, TypeOK, CommitIsFree, EmailTaken
    <3>6. SequentialCodes' /\ ProvisionedAtMostOnce'
      BY <3>1, <3>4 DEF FullInv, SequentialCodes, ProvisionedAtMostOnce
    <3>. QED  BY <3>2, <3>3, <3>5, <3>6 DEF FullInv
  <2>. QED  BY <2>1, <2>2
<1>7. ASSUME NEW e \in Emails, RegisterOrganization(h, e) PROVE FullInv'
  BY <1>1, <1>7 DEF RegisterOrganization
<1>. QED  BY <1>2, <1>3, <1>4, <1>5, <1>6, <1>7

-----------------------------------------------------------------------------

\* The commit: the number goes from last to last + 1, for a new email.
LEMMA CommitFull ==
    ASSUME FullInv, LockInv', NEW h \in Handlers, Commit(h)
    PROVE  FullInv'
<1> DEFINE new == [code |-> code[h], admin |-> admin[h], email |-> email[h],
                   request |-> row[h]]
           last == FirstCode + Cardinality(tenants)
<1>1. /\ pc[h] = "tx_commit" /\ Finish(h)
      /\ tenants' = tenants \cup {new} /\ users' = users \cup {email[h]}
      /\ requests' = IF row[h] = 0 THEN requests
                     ELSE [requests EXCEPT ![row[h]].status = "ONBOARDED"]
  BY DEF Commit
<1>2. /\ new.code = code[h] /\ new.admin = admin[h]
      /\ new.email = email[h] /\ new.request = row[h]
      /\ new \in [code : Nat, admin : Nat, email : Emails, request : Nat]
  BY <1>1 DEF FullInv, TypeOK, RowsMatch
<1>. HIDE DEF new
<1>3. code[h] \notin Codes /\ admin[h] \notin Admins /\ email[h] \notin users
  BY <1>1 DEF FullInv, LockInv, CreatorsCodeIsFree, Creators, CommitIsFree
<1>4. last \in Nat /\ Codes = 1..last /\ Admins = 1..last
  BY NextNumber DEF FullInv, SequentialCodes
<1>5. code[h] = last + 1 /\ admin[h] = last + 1
  BY <1>1, <1>3, NextNumber DEF FullInv, LockInv, CodeIsNextOrTaken, CommitIsFree
<1>6. /\ \A g \in Handlers \ {h} : /\ pc'[g] = pc[g] /\ email'[g] = email[g]
                                   /\ row'[g] = row[g] /\ admin'[g] = admin[g]
      /\ pc'[h] = "idle" /\ row'[h] = 0
  BY <1>1 DEF FullInv, TypeOK, Finish
<1>7. /\ requests' \in Seq([email : Emails, status : Statuses])
      /\ DOMAIN requests' = DOMAIN requests
      /\ \A j \in DOMAIN requests : requests'[j].email = requests[j].email
  <2>1. requests \in Seq([email : Emails, status : Statuses])
    BY DEF FullInv, TypeOK
  <2>2. CASE row[h] = 0
    BY <1>1, <2>1, <2>2
  <2>3. CASE row[h] # 0
    <3>1. /\ requests[row[h]] \in [email : Emails, status : Statuses]
          /\ Len(requests) \in Nat /\ DOMAIN requests = 1..Len(requests)
          /\ row[h] \in DOMAIN requests
      BY <2>1, <2>3, ElementOfSeq, LenProperties DEF FullInv, RowsMatch
    <3> DEFINE onboarded == [requests[row[h]] EXCEPT !.status = "ONBOARDED"]
    <3>2. /\ onboarded \in [email : Emails, status : Statuses]
          /\ onboarded.email = requests[row[h]].email
      BY <3>1 DEF Statuses
    <3>3. requests' = [requests EXCEPT ![row[h]] = onboarded]
      BY <1>1, <2>3
    <3>. HIDE DEF onboarded
    <3>. QED  BY <2>1, <3>1, <3>2, <3>3
  <2>. QED  BY <2>2, <2>3
<1>8. TypeOK'
  <2>1. tenants' \subseteq [code : Nat, admin : Nat, email : Emails, request : Nat]
    BY <1>1, <1>2 DEF FullInv, TypeOK
  <2>2. users' \subseteq Emails
    BY <1>1 DEF FullInv, TypeOK, RowsMatch
  <2>. QED  BY <1>1, <1>7, <2>1, <2>2 DEF FullInv, TypeOK, Finish, Steps
<1>9. RowsMatch'
  BY <1>6, <1>7 DEF FullInv, RowsMatch
<1>10. CommitIsFree'
  \* Nobody else has got that far.
  <2>1. \A g \in Handlers : pc'[g] \notin {"tx_user", "tx_commit"}
    BY <1>1, <1>6 DEF FullInv, LockInv, OneCreatorAtATime, Creators
  <2>. QED  BY <2>1 DEF CommitIsFree
<1>11. TenantsMatch'
  <2>1. IsFiniteSet(tenants')
    BY <1>1, FS_AddElement DEF FullInv, TenantsMatch
  <2>2. new.request # 0 =>
            new.request \in DOMAIN requests' /\ requests'[new.request].email = new.email
    BY <1>2, <1>7 DEF FullInv, RowsMatch
  <2>3. new.email \in users'
    BY <1>1, <1>2
  <2>. QED  BY <1>1, <1>7, <2>1, <2>2, <2>3 DEF FullInv, TenantsMatch
<1>12. SequentialCodes'
  <2>1. new \notin tenants
    BY <1>2, <1>3 DEF Codes
  <2>2. Cardinality(tenants') = Cardinality(tenants) + 1
    BY <1>1, <2>1, FS_AddElement DEF FullInv, TenantsMatch
  <2>3. /\ {t.code : t \in tenants'} = {t.code : t \in tenants} \cup {last + 1}
        /\ {t.admin : t \in tenants'} = {t.admin : t \in tenants} \cup {last + 1}
    BY <1>1, <1>2, <1>5
  <2>4. Codes' = Codes \cup {last + 1} /\ Admins' = Admins \cup {last + 1}
    BY <2>3 DEF Codes, Admins
  <2>5. FirstCode + Cardinality(tenants') = last + 1
    BY <1>4, <2>2, FS_CardinalityType, OnboardingAssumption DEF FullInv, TenantsMatch
  <2>. HIDE DEF last
  <2>6. 1..last \cup {last + 1} = 1..(last + 1)
    BY <1>4
  <2>. QED  BY <1>4, <2>4, <2>5, <2>6 DEF SequentialCodes
<1>13. ProvisionedAtMostOnce'
  \* A tenant of the same request would already have the email.
  <2>1. ASSUME NEW t \in tenants, t.request = new.request, new.request # 0 PROVE FALSE
    <3>1. t.email = new.email
      BY <1>2, <2>1 DEF FullInv, TenantsMatch, RowsMatch
    <3>. QED  BY <1>2, <1>3, <3>1 DEF FullInv, TenantsMatch
  <2>. QED  BY <1>1, <2>1 DEF FullInv, ProvisionedAtMostOnce
<1>. QED  BY <1>8, <1>9, <1>10, <1>11, <1>12, <1>13 DEF FullInv

LEMMA NextFull == FullInv /\ [Next]_vars => FullInv'
<1> SUFFICES ASSUME FullInv, [Next]_vars PROVE FullInv'
  OBVIOUS
<1>1. LockInv'
  BY NextLock DEF FullInv
<1>2. ASSUME NEW h \in Handlers, Abort(h) PROVE FullInv'
  BY <1>1, <1>2, FinishFull DEF Abort
<1>3. CASE UNCHANGED vars
  <2>1. UNCHANGED <<requests, tenants, users, pc, email, row, code, admin>>
    BY <1>3 DEF vars, handlerVars
  <2>2. TypeOK' /\ RowsMatch'
    BY <2>1 DEF FullInv, TypeOK, RowsMatch
  <2>. QED  BY <1>1, <2>1, <2>2, QuietFull DEF FullInv, TenantsMatch
<1>. QED
  BY <1>1, <1>2, <1>3, RequestsFull, TransactionFull, CommitFull DEF Next, Transaction

LEMMA InitFull == Init => FullInv
<1> SUFFICES ASSUME Init PROVE FullInv
  OBVIOUS
<1>1. LockInv
  BY InitLock
<1>2. TypeOK
  BY DEF Init, TypeOK, Steps
<1>3. tenants = {} /\ Cardinality(tenants) = 0 /\ IsFiniteSet(tenants)
  BY FS_EmptySet DEF Init
<1>4. RowsMatch /\ CommitIsFree /\ TenantsMatch
  BY <1>3 DEF Init, RowsMatch, CommitIsFree, TenantsMatch
<1>5. SequentialCodes /\ ProvisionedAtMostOnce
  BY <1>3, OnboardingAssumption
     DEF SequentialCodes, ProvisionedAtMostOnce, Codes, Admins
<1>. QED  BY <1>1, <1>2, <1>4, <1>5 DEF FullInv

-----------------------------------------------------------------------------

\* The tables and the handlers' locals keep their types.
THEOREM TypeCorrect == Spec => []TypeOK
<1>1. FullInv => TypeOK
  BY DEF FullInv
<1>. QED  BY <1>1, InitFull, NextFull, PTL DEF Spec

\* Organisations and their super admins are numbered 1, 2, 3, ... without a gap
\* or a repetition, whatever aborts and however transactions overlap: also
\* beyond OG999, where no further organisation is created.
THEOREM SequentialCodesThm == Spec => []SequentialCodes
<1>1. FullInv => SequentialCodes
  BY DEF FullInv
<1>. QED  BY <1>1, InitFull, NextFull, PTL DEF Spec

\* provisionTenant creates at most one organisation for an access request,
\* although the status it checks is read before the transaction: the unique
\* email of the super admin is what prevents a second one.
THEOREM ProvisionedAtMostOnceThm == Spec => []ProvisionedAtMostOnce
<1>1. FullInv => ProvisionedAtMostOnce
  BY DEF FullInv
<1>. QED  BY <1>1, InitFull, NextFull, PTL DEF Spec

\* As long as at most LastPadded organisations exist, findFirst by descending
\* code gives the highest number and the next one is free; the run
\* tenant_overflow shows it fails with one more.
THEOREM NextCodeIsFreeThm ==
    Spec => [](FirstCode + Cardinality(tenants) <= LastPadded => NextCodeIsFree)
<1>1. ASSUME FullInv, FirstCode + Cardinality(tenants) <= LastPadded PROVE NextCodeIsFree
  <2> DEFINE last == FirstCode + Cardinality(tenants)
  <2>1. last \in Nat /\ last <= LastPadded /\ Codes = 1..last /\ Admins = 1..last
    BY <1>1, NextNumber DEF FullInv, SequentialCodes
  <2>. HIDE DEF last
  <2>2. NextCode(1..last) = last + 1
    BY <2>1, NextCodeOf
  <2>3. last + 1 \notin 1..last
    BY <2>1
  <2>. QED  BY <2>1, <2>2, <2>3 DEF NextCodeIsFree
<1>2. FullInv => (FirstCode + Cardinality(tenants) <= LastPadded => NextCodeIsFree)
  BY <1>1
<1>. QED  BY <1>2, InitFull, NextFull, PTL DEF Spec

-----------------------------------------------------------------------------
(* The run with the services of a tenant                                   *)

\* A behaviour of the run is a behaviour of onboarding, of the live pages and of
\* the biometric checks: what is proved of one of them holds of the run.
THEOREM ServicesImplementEach == ServicesSpec => Spec /\ LiveSpec /\ ChecksSpec
<1>1. ServicesInit => Init /\ LiveInit /\ ChecksInit
  BY Zenon DEF ServicesInit
<1>2. ASSUME [ServicesNext]_<<focus, vars, liveVars, checkVars>>
      PROVE  [Next]_vars /\ [LiveNext]_liveVars /\ [ChecksNext]_checkVars
  <2>1. CASE UNCHANGED <<focus, vars, liveVars, checkVars>>
    BY <2>1, Zenon
  <2>2. CASE focus = "onboarding" /\ Next /\ UNCHANGED <<liveVars, checkVars>>
    BY <2>2, Zenon
  <2>3. CASE focus = "live" /\ LiveNext /\ UNCHANGED <<vars, checkVars>>
    BY <2>3, Zenon
  <2>4. CASE focus = "checks" /\ ChecksNext /\ UNCHANGED <<vars, liveVars>>
    BY <2>4, Zenon
  <2> QED
    BY <1>2, <2>1, <2>2, <2>3, <2>4, Zenon DEF ServicesNext
<1> QED
  BY <1>1, <1>2, PTL DEF ServicesSpec, Spec, LiveSpec, ChecksSpec
=============================================================================
