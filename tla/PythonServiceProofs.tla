------------------------ MODULE PythonServiceProofs -------------------------
(***************************************************************************)
(* Theorems about the components of the Python service, for every value of *)
(* the constants: the nonces of LivenessNonce, the rows and requests of    *)
(* BiometricChecks, the scores of CaptureVerdicts, the risk score and the  *)
(* watchlist of EdgeMonitor, and the journey and the figures of SiteDay.   *)
(*                                                                         *)
(* The invariant of the nonces says what a handler may rely on between two *)
(* accesses of the dict: what is to be deleted has expired, and, unless    *)
(* another handler has disturbed it, is still there. That of the checks    *)
(* says what a request knows of the row it works on, unless another has    *)
(* written it meanwhile.                                                   *)
(*                                                                         *)
(* The sums of the services are SumFunction of the community modules: what *)
(* a sum over a finite set is when one member is added, taken away or      *)
(* changed is proved once, and used for the verdict of a frame, the        *)
(* decayed score of a worker and the counts of a site.                     *)
(***************************************************************************)
EXTENDS LivenessNonce, BiometricChecks, CaptureVerdicts, EdgeMonitor, SiteDay,
        FiniteSetTheorems, WellFoundedInduction, TLAPS

-----------------------------------------------------------------------------
(* Nonces                                                                  *)

\* A used nonce has left the dict.
UsedIsGone ==
    \A n \in Nonces : accepted[n] > 0 => accepted[n] = 1 /\ n \in 1..issued /\ n \notin store

\* What a purge is to delete expired before it began.
CollectedIsExpired ==
    \A t \in Pool :
      /\ purge[t].cutoff <= now
      /\ \A n \in purge[t].expired : n \in 1..issued /\ Expired(n, now)

CheckingAges == {"age", "expire", "consume"}

RefusedIsExpired ==
    check.pc \in CheckingAges =>
      check.nonce \in 1..issued /\ (check.pc = "expire" => Expired(check.nonce, now))

\* A handler nobody disturbed sees the dict as it found it.
PurgeSeesStore ==
    \A t \in Pool :
      InHandler(purge[t]) /\ ~purge[t].disturbed =>
        /\ purge[t].expired \subseteq store
        /\ purge[t].pc = "scan" => purge[t].size = Cardinality(store)

CheckSeesStore ==
    check.pc \in CheckingAges /\ ~check.disturbed => check.nonce \in store

NonceInv ==
    /\ NonceTypeOK
    /\ UsedIsGone
    /\ CollectedIsExpired
    /\ RefusedIsExpired
    /\ PurgeSeesStore
    /\ CheckSeesStore
    /\ NonceUsableOnce
    /\ NonceErrorNeedsOverlap

-----------------------------------------------------------------------------
\* The dict holds at most as many nonces as there are.
LEMMA StoreSize == NonceTypeOK => Cardinality(store) \in 0..MaxNonces
<1> SUFFICES ASSUME NonceTypeOK PROVE Cardinality(store) \in 0..MaxNonces
  OBVIOUS
<1>1. issued \in Nat /\ issued <= MaxNonces /\ store \subseteq 1..issued
  BY NonceAssumption DEF NonceTypeOK
<1>2. IsFiniteSet(1..issued) /\ Cardinality(1..issued) = issued
  BY <1>1, FS_Interval
<1>3. IsFiniteSet(store) /\ Cardinality(store) <= issued
  BY <1>1, <1>2, FS_Subset
<1>. QED  BY <1>1, <1>3, FS_CardinalityType, NonceAssumption

\* What has expired stays expired, and a new nonce does not age another one.
LEMMA ExpiredStays ==
    ASSUME NonceTypeOK, NEW n \in 1..issued, NEW time \in Nat, NEW later \in Nat,
           time <= later, Expired(n, time), stamp'[n] = stamp[n]
    PROVE  Expired(n, later)'
<1>1. stamp[n] \in Nat /\ TTL \in Nat
  BY NonceAssumption DEF NonceTypeOK, Nonces
<1>. QED  BY <1>1 DEF Expired

\* The fields of another challenge when a handler changes the dict.
LEMMA DisturbedEffect ==
    ASSUME NonceTypeOK, NEW u \in Pool
    PROVE  LET p == [purge[u] EXCEPT !.disturbed = @ \/ InHandler(purge[u])]
           IN /\ p \in Purges /\ p.pc = purge[u].pc /\ p.cutoff = purge[u].cutoff
              /\ p.expired = purge[u].expired /\ p.size = purge[u].size
              /\ p.disturbed = (purge[u].disturbed \/ InHandler(purge[u]))
<1>1. purge[u] \in Purges
  BY DEF NonceTypeOK
<1>. QED  BY <1>1 DEF Purges, InHandler

\* A check in progress when a handler changes the dict.
LEMMA DisturbedCheckEffect ==
    ASSUME NonceTypeOK, check' = DisturbedCheck
    PROVE  /\ check' \in Checks /\ check'.pc = check.pc /\ check'.nonce = check.nonce
           /\ check'.disturbed = (check.disturbed \/ check.pc # "idle")
BY DEF NonceTypeOK, Checks, DisturbedCheck

LEMMA IdleType == Idle \in Purges /\ NoCheck \in Checks
BY NonceAssumption DEF Idle, NoCheck, Purges, Checks

\* An empty dict and nobody in a handler.
LEMMA InitNonceInv == NonceInit => NonceInv
<1> SUFFICES ASSUME NonceInit PROVE NonceInv
  OBVIOUS
<1>1. /\ now = 0 /\ issued = 0 /\ store = {} /\ check = NoCheck
      /\ \A n \in Nonces : accepted[n] = 0
      /\ \A t \in Pool : purge[t] = Idle
  BY DEF NonceInit
<1>2. NonceTypeOK
  BY IdleType, NonceAssumption DEF NonceInit, NonceTypeOK
<1>3. UsedIsGone /\ CollectedIsExpired /\ RefusedIsExpired /\ PurgeSeesStore /\ CheckSeesStore
  BY <1>1 DEF UsedIsGone, CollectedIsExpired, RefusedIsExpired, PurgeSeesStore, CheckSeesStore,
              CheckingAges, Idle, NoCheck, InHandler
<1>4. NonceUsableOnce /\ NonceErrorNeedsOverlap
  BY <1>1 DEF NonceUsableOnce, NonceErrorNeedsOverlap, Idle, NoCheck
<1>. QED  BY <1>2, <1>3, <1>4 DEF NonceInv

\* A step of one handler that leaves the dict, the clock and the nonces alone:
\* what it must show is about that handler only.
LEMMA QuietPurge ==
    ASSUME NonceInv, NEW t \in Pool, NEW p \in Purges, purge' = [purge EXCEPT ![t] = p],
           UNCHANGED <<now, issued, store, stamp, check, accepted>>,
           p.cutoff <= now, \A n \in p.expired : n \in 1..issued /\ Expired(n, now),
           InHandler(p) /\ ~p.disturbed =>
             p.expired \subseteq store /\ (p.pc = "scan" => p.size = Cardinality(store)),
           p.pc = "error" => p.disturbed
    PROVE  NonceInv'
<1> USE DEF NonceInv
<1>1. purge'[t] = p /\ \A u \in Pool \ {t} : purge'[u] = purge[u]
  BY DEF NonceTypeOK
<1>2. NonceTypeOK'
  BY DEF NonceTypeOK
<1>3. CollectedIsExpired' /\ PurgeSeesStore' /\ NonceErrorNeedsOverlap'
  BY <1>1 DEF CollectedIsExpired, PurgeSeesStore, NonceErrorNeedsOverlap, Expired, InHandler
<1>4. (UsedIsGone /\ RefusedIsExpired /\ CheckSeesStore /\ NonceUsableOnce)'
  BY DEF UsedIsGone, RefusedIsExpired, CheckSeesStore, NonceUsableOnce, Expired
<1>. QED  BY <1>2, <1>3, <1>4

LEMMA QuietCheck ==
    ASSUME NonceInv, check' \in Checks,
           UNCHANGED <<now, issued, store, stamp, purge, accepted>>,
           RefusedIsExpired', CheckSeesStore', check'.pc = "error" => check'.disturbed
    PROVE  NonceInv'
BY DEF NonceInv, NonceTypeOK, UsedIsGone, CollectedIsExpired, PurgeSeesStore,
       NonceUsableOnce, NonceErrorNeedsOverlap, Expired

LEMMA TickInv == NonceInv /\ Tick => NonceInv'
<1> SUFFICES ASSUME NonceInv, Tick PROVE NonceInv'
  OBVIOUS
<1> USE DEF NonceInv
<1>1. /\ now \in Nat /\ now' = now + 1 /\ now' \in 0..MaxTime
      /\ UNCHANGED <<issued, store, stamp, purge, check, accepted>>
  BY NonceAssumption DEF Tick, NonceTypeOK
<1>2. \A n \in 1..issued : Expired(n, now) => Expired(n, now)'
  BY <1>1, NonceAssumption DEF Expired, NonceTypeOK, Nonces
<1>3. NonceTypeOK'
  BY <1>1 DEF NonceTypeOK
<1>4. (UsedIsGone /\ PurgeSeesStore /\ CheckSeesStore /\ NonceErrorNeedsOverlap)'
  BY <1>1 DEF UsedIsGone, PurgeSeesStore, CheckSeesStore, NonceErrorNeedsOverlap
<1>5. CollectedIsExpired'
  <2> SUFFICES ASSUME NEW t \in Pool
               PROVE  purge[t].cutoff <= now' /\ \A n \in purge[t].expired : n \in 1..issued /\ Expired(n, now)'
    BY <1>1 DEF CollectedIsExpired, Expired
  <2>1. purge[t].cutoff \in Nat
    BY NonceAssumption DEF NonceTypeOK, Purges
  <2>. QED  BY <1>1, <1>2, <2>1 DEF CollectedIsExpired
<1>6. (RefusedIsExpired /\ NonceUsableOnce)'
  BY <1>1, <1>2 DEF RefusedIsExpired, NonceUsableOnce, Expired
<1>. QED  BY <1>3, <1>4, <1>5, <1>6

LEMMA BeginPurgeInv ==
    ASSUME NonceInv, NEW t \in Pool, BeginPurge(t)
    PROVE  NonceInv'
<1> DEFINE p == [Idle EXCEPT !.pc = "scan", !.cutoff = now, !.size = Cardinality(store)]
<1>1. Cardinality(store) \in 0..MaxNonces /\ now \in 0..MaxTime
  BY StoreSize DEF NonceInv, NonceTypeOK
<1>2. p \in Purges /\ p.pc = "scan" /\ p.cutoff = now /\ p.size = Cardinality(store)
      /\ p.expired = {}
  BY <1>1, IdleType DEF Purges, Idle
<1>3. purge' = [purge EXCEPT ![t] = p] /\ UNCHANGED <<now, issued, store, stamp, check, accepted>>
  BY DEF BeginPurge
<1>4. now <= now
  BY <1>1, NonceAssumption
<1> HIDE DEF p
<1>. QED  BY <1>2, <1>3, <1>4, QuietPurge

\* A purge that goes to another step keeps what it collected.
LEMMA GotoEffect ==
    ASSUME NonceTypeOK, NEW t \in Pool, NEW step \in {"delete", "error"}, Goto(t, step)
    PROVE  \E p \in Purges :
             /\ purge' = [purge EXCEPT ![t] = p] /\ UNCHANGED <<store, check>>
             /\ p.pc = step /\ p.cutoff = purge[t].cutoff
             /\ p.expired = purge[t].expired /\ p.disturbed = purge[t].disturbed
<1> DEFINE p == [purge[t] EXCEPT !.pc = step, !.size = 0, !.at = 0]
<1>1. purge[t] \in Purges
  BY DEF NonceTypeOK
<1>0. 0 \in 0..MaxNonces /\ step \in {"idle", "scan", "delete", "issue", "error"}
  BY NonceAssumption
<1>2. p \in Purges /\ p.pc = step /\ p.cutoff = purge[t].cutoff
      /\ p.expired = purge[t].expired /\ p.disturbed = purge[t].disturbed
  BY <1>0, <1>1 DEF Purges
<1>3. purge' = [purge EXCEPT ![t] = p] /\ UNCHANGED <<store, check>>
  BY DEF Goto
<1>. QED  BY <1>2, <1>3

LEMMA ScanInv ==
    ASSUME NonceInv, NEW t \in Pool, Scan(t)
    PROVE  NonceInv'
<1> USE DEF NonceInv
<1>0. /\ purge[t].pc = "scan" /\ UNCHANGED <<now, issued, stamp, accepted>>
      /\ purge[t] \in Purges /\ InHandler(purge[t])
  BY DEF Scan, NonceTypeOK, InHandler
<1>1. CASE Cardinality(store) # purge[t].size /\ Goto(t, "error")
  <2>1. purge[t].disturbed
    BY <1>0, <1>1 DEF PurgeSeesStore
  <2>2. PICK p \in Purges :
             /\ purge' = [purge EXCEPT ![t] = p] /\ UNCHANGED <<store, check>>
             /\ p.pc = "error" /\ p.cutoff = purge[t].cutoff
             /\ p.expired = purge[t].expired /\ p.disturbed = purge[t].disturbed
    BY <1>1, GotoEffect
  <2>. QED  BY <1>0, <2>1, <2>2, QuietPurge DEF CollectedIsExpired
<1>2. CASE Cardinality(store) = purge[t].size /\ Goto(t, "delete")
  <2>1. PICK p \in Purges :
             /\ purge' = [purge EXCEPT ![t] = p] /\ UNCHANGED <<store, check>>
             /\ p.pc = "delete" /\ p.cutoff = purge[t].cutoff
             /\ p.expired = purge[t].expired /\ p.disturbed = purge[t].disturbed
    BY <1>2, GotoEffect
  <2>2. ~p.disturbed => p.expired \subseteq store
    BY <1>0, <2>1 DEF PurgeSeesStore
  <2>. QED  BY <1>0, <2>1, <2>2, QuietPurge DEF CollectedIsExpired
<1>3. CASE Visit(t)
  <2>1. PICK n \in store :
          /\ purge' = [purge EXCEPT ![t].at = n,
                     ![t].expired = IF Expired(n, purge[t].cutoff) THEN @ \cup {n} ELSE @]
          /\ UNCHANGED <<store, check>>
    BY <1>3 DEF Visit, Later
  <2> DEFINE p == [purge[t] EXCEPT !.at = n,
                     !.expired = IF Expired(n, purge[t].cutoff) THEN @ \cup {n} ELSE @]
  <2>2. n \in Nonces /\ n \in 1..issued /\ n \in 0..MaxNonces
    BY NonceAssumption DEF NonceTypeOK, Nonces
  <2>3. /\ p \in Purges /\ p.pc = "scan" /\ p.cutoff = purge[t].cutoff
        /\ p.size = purge[t].size /\ p.disturbed = purge[t].disturbed
        /\ p.expired = IF Expired(n, purge[t].cutoff) THEN purge[t].expired \cup {n} ELSE purge[t].expired
    BY <1>0, <2>2 DEF Purges
  <2>4. purge' = [purge EXCEPT ![t] = p]
    BY <1>0, <2>1 DEF NonceTypeOK
  <2>5. purge[t].cutoff <= now /\ \A m \in purge[t].expired : m \in 1..issued /\ Expired(m, now)
    BY DEF CollectedIsExpired
  <2>6. Expired(n, purge[t].cutoff) => Expired(n, now)
    <3>1. purge[t].cutoff \in Nat /\ now \in Nat /\ stamp[n] \in Nat /\ TTL \in Nat
      BY <1>0, <2>2, NonceAssumption DEF Purges, NonceTypeOK
    <3>. QED  BY <2>5, <3>1 DEF Expired
  <2>7. ~purge[t].disturbed => purge[t].expired \subseteq store /\ purge[t].size = Cardinality(store)
    BY <1>0 DEF PurgeSeesStore
  <2>8. \A m \in p.expired : m \in purge[t].expired \/ (m = n /\ Expired(n, now))
    BY <2>3, <2>6
  <2>9. ~p.disturbed => p.expired \subseteq store /\ p.size = Cardinality(store)
    BY <2>1, <2>3, <2>7
  <2> HIDE DEF p
  <2>10. \A m \in p.expired : m \in 1..issued /\ Expired(m, now)
    BY <2>2, <2>5, <2>8
  <2>. QED  BY <1>0, <2>1, <2>3, <2>4, <2>5, <2>9, <2>10, QuietPurge
<1>. QED  BY <1>1, <1>2, <1>3 DEF Scan

LEMMA EndChallengeInv ==
    ASSUME NonceInv, NEW t \in Pool, EndChallenge(t)
    PROVE  NonceInv'
<1>1. purge' = [purge EXCEPT ![t] = Idle] /\ UNCHANGED <<now, issued, store, stamp, check, accepted>>
  BY DEF EndChallenge
<1>2. Idle.cutoff <= now /\ Idle.expired = {} /\ Idle.pc = "idle"
  BY NonceAssumption DEF Idle, NonceInv, NonceTypeOK
<1>. QED  BY <1>1, <1>2, IdleType, QuietPurge DEF InHandler

LEMMA CheckStepInv ==
    ASSUME NonceInv, (\E n \in Nonces : Lookup(n)) \/ Age \/ EndCheck
    PROVE  NonceInv'
<1> USE DEF NonceInv
<1>0. check \in Checks /\ NoCheck.pc = "idle" /\ NoCheck.nonce = 0
  BY DEF NonceTypeOK, NoCheck
<1>1. ASSUME NEW n \in Nonces, Lookup(n) PROVE NonceInv'
  <2>1. /\ n \in store /\ check' = [NoCheck EXCEPT !.pc = "age", !.nonce = n]
        /\ UNCHANGED <<now, issued, store, stamp, purge, accepted>>
    BY <1>1 DEF Lookup
  <2>2. check' \in Checks /\ check'.pc = "age" /\ check'.nonce = n
    <3>1. n \in 0..MaxNonces
      BY NonceAssumption DEF Nonces
    <3>. QED  BY <2>1, <3>1, IdleType DEF NoCheck, Checks
  <2>3. n \in 1..issued
    BY <2>1 DEF NonceTypeOK
  <2>. QED  BY <2>1, <2>2, <2>3, QuietCheck DEF RefusedIsExpired, CheckSeesStore
<1>2. CASE Age
  <2>1. /\ check.pc = "age" /\ UNCHANGED <<now, issued, store, stamp, purge, accepted>>
        /\ check' = [check EXCEPT !.pc = IF Expired(check.nonce, now) THEN "expire" ELSE "consume"]
    BY <1>2 DEF Age
  <2>2. /\ check' \in Checks /\ check'.nonce = check.nonce /\ check'.disturbed = check.disturbed
        /\ check'.pc = IF Expired(check.nonce, now) THEN "expire" ELSE "consume"
    BY <1>0, <2>1 DEF Checks
  <2>3. RefusedIsExpired' /\ CheckSeesStore' /\ check'.pc # "error"
    BY <2>1, <2>2 DEF RefusedIsExpired, CheckSeesStore, CheckingAges, Expired
  <2>. QED  BY <2>1, <2>2, <2>3, QuietCheck
<1>3. CASE EndCheck
  <2>1. check' = NoCheck /\ UNCHANGED <<now, issued, store, stamp, purge, accepted>>
    BY <1>3 DEF EndCheck
  <2>. QED  BY <1>0, <2>1, IdleType, QuietCheck DEF RefusedIsExpired, CheckSeesStore, CheckingAges
<1>. QED  BY <1>1, <1>2, <1>3

-----------------------------------------------------------------------------
(* The three accesses that change the dict.                                *)

\* The other challenges and the check when a handler changes the dict.
LEMMA OthersDisturbed ==
    ASSUME NonceTypeOK, NEW t \in Pool, NEW p \in Purges, purge' = Disturbed(t, p)
    PROVE  /\ purge' \in [Pool -> Purges] /\ purge'[t] = p
           /\ \A u \in Pool \ {t} :
                /\ purge'[u].pc = purge[u].pc /\ purge'[u].cutoff = purge[u].cutoff
                /\ purge'[u].expired = purge[u].expired
                /\ purge'[u].disturbed = (purge[u].disturbed \/ InHandler(purge[u]))
<1>1. \A u \in Pool \ {t} :
        purge'[u] = [purge[u] EXCEPT !.disturbed = @ \/ InHandler(purge[u])]
  BY DEF Disturbed
<1>2. purge'[t] = p
  BY DEF Disturbed
<1>3. \A u \in Pool \ {t} :
        /\ purge'[u] \in Purges
        /\ purge'[u].pc = purge[u].pc /\ purge'[u].cutoff = purge[u].cutoff
        /\ purge'[u].expired = purge[u].expired
        /\ purge'[u].disturbed = (purge[u].disturbed \/ InHandler(purge[u]))
  <2> SUFFICES ASSUME NEW u \in Pool \ {t}
               PROVE  /\ purge'[u] \in Purges
                      /\ purge'[u].pc = purge[u].pc /\ purge'[u].cutoff = purge[u].cutoff
                      /\ purge'[u].expired = purge[u].expired
                      /\ purge'[u].disturbed = (purge[u].disturbed \/ InHandler(purge[u]))
    OBVIOUS
  <2> DEFINE q == [purge[u] EXCEPT !.disturbed = @ \/ InHandler(purge[u])]
  <2>1. /\ q \in Purges /\ q.pc = purge[u].pc /\ q.cutoff = purge[u].cutoff
        /\ q.expired = purge[u].expired
        /\ q.disturbed = (purge[u].disturbed \/ InHandler(purge[u]))
    BY DisturbedEffect
  <2>2. purge'[u] = q
    BY <1>1
  <2> HIDE DEF q
  <2>. QED  BY <2>1, <2>2
<1>4. purge' = [u \in Pool |-> purge'[u]]
  BY DEF Disturbed
<1>. QED  BY <1>2, <1>3, <1>4

\* A deletion by a purge takes away what has expired.
LEMMA RemoveInv ==
    ASSUME NonceInv, NEW t \in Pool, NEW n \in purge[t].expired, purge[t].pc = "delete",
           n \in store, store' = store \ {n},
           purge' = Disturbed(t, [purge[t] EXCEPT !.expired = @ \ {n}]),
           check' = DisturbedCheck, UNCHANGED <<now, issued, stamp, accepted>>
    PROVE  NonceInv'
<1> USE DEF NonceInv
<1> DEFINE p == [purge[t] EXCEPT !.expired = @ \ {n}]
<1>1. purge[t] \in Purges /\ n \in 1..issued /\ Expired(n, now)
  BY DEF NonceTypeOK, CollectedIsExpired
<1>2. /\ p \in Purges /\ p.pc = "delete" /\ p.cutoff = purge[t].cutoff
      /\ p.expired = purge[t].expired \ {n} /\ p.disturbed = purge[t].disturbed
  BY <1>1 DEF Purges
<1> HIDE DEF p
<1>3. /\ purge' \in [Pool -> Purges] /\ purge'[t] = p
      /\ \A u \in Pool \ {t} :
           /\ purge'[u].pc = purge[u].pc /\ purge'[u].cutoff = purge[u].cutoff
           /\ purge'[u].expired = purge[u].expired
           /\ purge'[u].disturbed = (purge[u].disturbed \/ InHandler(purge[u]))
  BY <1>2, OthersDisturbed DEF p
<1>4. /\ check' \in Checks /\ check'.pc = check.pc /\ check'.nonce = check.nonce
      /\ check'.disturbed = (check.disturbed \/ check.pc # "idle")
  BY DisturbedCheckEffect
<1>5. \A m : Expired(m, now)' <=> Expired(m, now)
  BY DEF Expired
<1>6. NonceTypeOK' /\ UsedIsGone'
  BY <1>3, <1>4 DEF NonceTypeOK, UsedIsGone
<1>7. CollectedIsExpired'
  <2> SUFFICES ASSUME NEW u \in Pool
               PROVE  /\ purge'[u].cutoff <= now
                      /\ \A m \in purge'[u].expired : m \in 1..issued /\ Expired(m, now)'
    BY DEF CollectedIsExpired, Expired
  <2>1. purge'[u].cutoff = purge[u].cutoff /\ purge'[u].expired \subseteq purge[u].expired
    BY <1>2, <1>3
  <2>. QED  BY <1>5, <2>1 DEF CollectedIsExpired
<1>8. RefusedIsExpired' /\ CheckSeesStore'
  BY <1>4 DEF RefusedIsExpired, CheckSeesStore, CheckingAges, Expired
<1>9. PurgeSeesStore'
  <2> SUFFICES ASSUME NEW u \in Pool, InHandler(purge[u])', ~purge'[u].disturbed
               PROVE  /\ purge'[u].expired \subseteq store'
                      /\ purge'[u].pc = "scan" => purge'[u].size = Cardinality(store')
    BY DEF PurgeSeesStore
  <2>1. u = t
    BY <1>3 DEF InHandler
  <2>. QED  BY <1>2, <1>3, <2>1 DEF PurgeSeesStore, InHandler
<1>10. NonceUsableOnce'
  BY <1>1, <1>5 DEF NonceUsableOnce, Expired
<1>11. NonceErrorNeedsOverlap'
  BY <1>2, <1>3, <1>4 DEF NonceErrorNeedsOverlap
<1>. QED  BY <1>6, <1>7, <1>8, <1>9, <1>10, <1>11

LEMMA DeleteInv ==
    ASSUME NonceInv, NEW t \in Pool, Delete(t)
    PROVE  NonceInv'
<1> USE DEF NonceInv
<1>0. /\ purge[t].pc = "delete" /\ UNCHANGED <<now, issued, stamp, accepted>>
      /\ purge[t] \in Purges /\ InHandler(purge[t])
  BY DEF Delete, NonceTypeOK, InHandler
<1>1. CASE /\ purge' = [purge EXCEPT ![t] = [Idle EXCEPT !.pc = "issue"]]
           /\ UNCHANGED <<store, check>>
  <2> DEFINE p == [Idle EXCEPT !.pc = "issue"]
  <2>1. p \in Purges /\ p.pc = "issue" /\ p.expired = {} /\ p.cutoff = 0
    BY IdleType DEF Purges, Idle
  <2>2. 0 <= now
    BY NonceAssumption DEF NonceTypeOK
  <2> HIDE DEF p
  <2>3. purge' = [purge EXCEPT ![t] = p]
    BY <1>1 DEF p
  <2>. QED  BY <1>0, <1>1, <2>1, <2>2, <2>3, QuietPurge DEF InHandler
<1>2. CASE \E n \in purge[t].expired :
             /\ n \in store /\ store' = store \ {n}
             /\ purge' = Disturbed(t, [purge[t] EXCEPT !.expired = @ \ {n}])
             /\ check' = DisturbedCheck
  BY <1>0, <1>2, RemoveInv
<1>3. CASE \E n \in purge[t].expired : n \notin store /\ Goto(t, "error")
  <2>1. purge[t].disturbed
    BY <1>0, <1>3 DEF PurgeSeesStore
  <2>2. PICK p \in Purges :
             /\ purge' = [purge EXCEPT ![t] = p] /\ UNCHANGED <<store, check>>
             /\ p.pc = "error" /\ p.cutoff = purge[t].cutoff
             /\ p.expired = purge[t].expired /\ p.disturbed = purge[t].disturbed
    BY <1>3, GotoEffect
  <2>. QED  BY <1>0, <2>1, <2>2, QuietPurge DEF CollectedIsExpired
<1>. QED  BY <1>1, <1>2, <1>3 DEF Delete

\* The new nonce is younger than the TTL and nobody knows it yet.
LEMMA IssueInv ==
    ASSUME NonceInv, NEW t \in Pool, Issue(t)
    PROVE  NonceInv'
<1> USE DEF NonceInv
<1> DEFINE k == issued + 1
<1>1. /\ issued \in Nat /\ issued < MaxNonces /\ issued' = k /\ store' = store \cup {k}
      /\ stamp' = [stamp EXCEPT ![k] = now] /\ purge' = Disturbed(t, Idle)
      /\ check' = DisturbedCheck /\ UNCHANGED <<now, accepted>>
  BY NonceAssumption DEF Issue, NonceTypeOK
<1>2. k \in Nonces /\ k \in 0..MaxNonces /\ k \notin 1..issued /\ 1..k = (1..issued) \cup {k}
  BY <1>1, NonceAssumption DEF Nonces
<1> HIDE DEF k
<1>3. /\ purge' \in [Pool -> Purges] /\ purge'[t] = Idle
      /\ \A u \in Pool \ {t} :
           /\ purge'[u].pc = purge[u].pc /\ purge'[u].cutoff = purge[u].cutoff
           /\ purge'[u].expired = purge[u].expired
           /\ purge'[u].disturbed = (purge[u].disturbed \/ InHandler(purge[u]))
  BY <1>1, IdleType, OthersDisturbed
<1>4. /\ check' \in Checks /\ check'.pc = check.pc /\ check'.nonce = check.nonce
      /\ check'.disturbed = (check.disturbed \/ check.pc # "idle")
  BY <1>1, DisturbedCheckEffect
<1>5. \A m \in 1..issued : Expired(m, now)' <=> Expired(m, now)
  <2>1. \A m \in 1..issued : stamp'[m] = stamp[m]
    BY <1>1, <1>2 DEF NonceTypeOK
  <2>. QED  BY <1>1, <2>1 DEF Expired
<1>6. NonceTypeOK'
  BY <1>1, <1>2, <1>3, <1>4 DEF NonceTypeOK
<1>7. UsedIsGone'
  BY <1>1, <1>2 DEF UsedIsGone
<1>8. CollectedIsExpired'
  <2> SUFFICES ASSUME NEW u \in Pool
               PROVE  /\ purge'[u].cutoff <= now'
                      /\ \A m \in purge'[u].expired : m \in 1..issued' /\ Expired(m, now)'
    BY DEF CollectedIsExpired, Expired
  <2>1. CASE u = t
    BY <1>1, <1>3, <2>1, NonceAssumption DEF Idle, NonceTypeOK
  <2>2. CASE u # t
    BY <1>1, <1>2, <1>3, <1>5, <2>2 DEF CollectedIsExpired
  <2>. QED  BY <2>1, <2>2
<1>9. RefusedIsExpired'
  BY <1>1, <1>2, <1>4, <1>5 DEF RefusedIsExpired, Expired
<1>10. CheckSeesStore'
  BY <1>4 DEF CheckSeesStore, CheckingAges
<1>11. PurgeSeesStore' /\ NonceErrorNeedsOverlap'
  <2>1. purge'[t].pc = "idle"
    BY <1>3 DEF Idle
  <2>2. ASSUME NEW u \in Pool, InHandler(purge[u])'
        PROVE  purge'[u].disturbed
    BY <1>3, <2>1, <2>2 DEF InHandler
  <2>3. ASSUME NEW u \in Pool, purge'[u].pc = "error"
        PROVE  purge'[u].disturbed
    BY <1>3, <2>1, <2>3 DEF NonceErrorNeedsOverlap
  <2>4. check'.pc = "error" => check'.disturbed
    BY <1>4 DEF NonceErrorNeedsOverlap
  <2>. QED  BY <2>2, <2>3, <2>4 DEF PurgeSeesStore, NonceErrorNeedsOverlap
<1>12. NonceUsableOnce'
  <2> SUFFICES ASSUME NEW n \in 1..issued'
               PROVE  /\ accepted[n] <= 1
                      /\ accepted[n] = 0 /\ ~Expired(n, now)' => n \in store'
    BY <1>1 DEF NonceUsableOnce, Expired
  <2>1. CASE n = k
    <3>1. accepted[k] \in Nat /\ ~(accepted[k] > 0)
      BY <1>2 DEF NonceTypeOK, UsedIsGone
    <3>. QED  BY <1>1, <2>1, <3>1
  <2>2. CASE n \in 1..issued
    BY <1>1, <1>5, <2>2 DEF NonceUsableOnce
  <2>. QED  BY <1>1, <1>2, <2>1, <2>2
<1>. QED  BY <1>6, <1>7, <1>8, <1>9, <1>10, <1>11, <1>12

\* The check deletes its nonce, and goes on with it if it was in time.
LEMMA ConsumeInv ==
    ASSUME NonceInv, Consume
    PROVE  NonceInv'
<1> USE DEF NonceInv
<1> DEFINE k == check.nonce
<1>0. /\ check \in Checks /\ check.pc \in {"expire", "consume"} /\ UNCHANGED <<now, issued, stamp>>
      /\ k \in 1..issued /\ k \in Nonces
  <2>1. check \in Checks /\ check.pc \in {"expire", "consume"} /\ UNCHANGED <<now, issued, stamp>>
        /\ k \in 1..issued
    BY DEF Consume, NonceTypeOK, RefusedIsExpired, CheckingAges
  <2>. QED  BY <2>1, NonceAssumption DEF NonceTypeOK, Nonces
<1>1. CASE k \notin store
  <2>1. /\ check' = [check EXCEPT !.pc = "error"]
        /\ UNCHANGED <<now, issued, store, stamp, purge, accepted>>
    BY <1>1 DEF Consume
  <2>2. check' \in Checks /\ check'.pc = "error" /\ check'.disturbed = check.disturbed
    BY <1>0, <2>1 DEF Checks
  <2>3. check.disturbed
    BY <1>0, <1>1 DEF CheckSeesStore, CheckingAges
  <2>4. RefusedIsExpired' /\ CheckSeesStore'
    BY <2>2 DEF RefusedIsExpired, CheckSeesStore, CheckingAges
  <2>. QED  BY <2>1, <2>2, <2>3, <2>4, QuietCheck
<1>2. CASE k \in store
  <2>1. /\ store' = store \ {k}
        /\ accepted' = [accepted EXCEPT ![k] = IF check.pc = "consume" THEN @ + 1 ELSE @]
        /\ purge' = [t \in Pool |-> [purge[t] EXCEPT !.disturbed = @ \/ InHandler(purge[t])]]
        /\ check' = NoCheck
    BY <1>2 DEF Consume, Consumed
  <2>2. accepted[k] = 0
    BY <1>0, <1>2 DEF UsedIsGone, NonceTypeOK
  <2>3. /\ accepted' \in [Nonces -> Nat] /\ accepted'[k] = IF check.pc = "consume" THEN 1 ELSE 0
        /\ \A m \in Nonces \ {k} : accepted'[m] = accepted[m]
    BY <1>0, <2>1, <2>2 DEF NonceTypeOK
  <2> HIDE DEF k
  <2>4. /\ purge' \in [Pool -> Purges]
        /\ \A u \in Pool :
           /\ purge'[u].pc = purge[u].pc /\ purge'[u].cutoff = purge[u].cutoff
           /\ purge'[u].expired = purge[u].expired
           /\ purge'[u].disturbed = (purge[u].disturbed \/ InHandler(purge[u]))
    <3>1. \A u \in Pool : purge'[u] \in Purges
      BY <2>1, DisturbedEffect
    <3>2. \A u \in Pool : purge'[u] = [purge[u] EXCEPT !.disturbed = @ \/ InHandler(purge[u])]
      BY <2>1
    <3>. QED  BY <2>1, <3>1, <3>2, DisturbedEffect
  <2>5. \A m : Expired(m, now)' <=> Expired(m, now)
    BY <1>0 DEF Expired
  <2>6. NonceTypeOK'
    BY <1>0, <2>1, <2>3, <2>4, IdleType DEF NonceTypeOK
  <2>7. UsedIsGone'
    BY <1>0, <2>1, <2>3 DEF UsedIsGone
  <2>8. CollectedIsExpired'
    <3> SUFFICES ASSUME NEW u \in Pool
                 PROVE  /\ purge'[u].cutoff <= now'
                        /\ \A m \in purge'[u].expired : m \in 1..issued' /\ Expired(m, now)'
      BY DEF CollectedIsExpired, Expired
    <3>. QED  BY <1>0, <2>4, <2>5 DEF CollectedIsExpired
  <2>9. RefusedIsExpired' /\ CheckSeesStore'
    BY <2>1 DEF RefusedIsExpired, CheckSeesStore, CheckingAges, NoCheck
  <2>10. PurgeSeesStore' /\ NonceErrorNeedsOverlap'
    BY <2>1, <2>4 DEF PurgeSeesStore, NonceErrorNeedsOverlap, InHandler, NoCheck
  <2>11. NonceUsableOnce'
    <3> SUFFICES ASSUME NEW n \in 1..issued
                 PROVE  /\ accepted'[n] <= 1
                        /\ accepted'[n] = 0 /\ ~Expired(n, now)' => n \in store'
      BY <1>0 DEF NonceUsableOnce, Expired
    <3>1. CASE n = k
      BY <1>0, <2>3, <2>5, <3>1 DEF RefusedIsExpired, CheckingAges, k
    <3>2. CASE n # k
      <4>1. n \in Nonces
        BY NonceAssumption DEF NonceTypeOK, Nonces
      <4>. QED  BY <2>1, <2>3, <2>5, <3>2, <4>1 DEF NonceUsableOnce
    <3>. QED  BY <3>1, <3>2
  <2>. QED  BY <2>6, <2>7, <2>8, <2>9, <2>10, <2>11
<1>. QED  BY <1>1, <1>2

-----------------------------------------------------------------------------
\* The invariant holds in every reachable state.
LEMMA NonceInvariant == NonceSpec => []NonceInv
<1>1. NonceInv /\ [NonceNext]_nonceVars => NonceInv'
  <2> SUFFICES ASSUME NonceInv, [NonceNext]_nonceVars PROVE NonceInv'
    OBVIOUS
  <2>1. CASE UNCHANGED nonceVars
    BY <2>1 DEF nonceVars, NonceInv, NonceTypeOK, UsedIsGone, CollectedIsExpired, RefusedIsExpired,
                PurgeSeesStore, CheckSeesStore, NonceUsableOnce, NonceErrorNeedsOverlap, Expired
  <2>2. CASE NonceNext
    BY <2>2, TickInv, BeginPurgeInv, ScanInv, DeleteInv, IssueInv, EndChallengeInv, CheckStepInv,
       ConsumeInv DEF NonceNext
  <2>. QED  BY <2>1, <2>2
<1>. QED  BY InitNonceInv, <1>1, PTL DEF NonceSpec

\* The dict, the clock and the handlers keep their types.
THEOREM NonceTypeCorrect == NonceSpec => []NonceTypeOK
<1>1. NonceInv => NonceTypeOK
  BY DEF NonceInv
<1>. QED  BY NonceInvariant, <1>1, PTL

\* A nonce lets at most one frame through, and until then it is in the dict for
\* the whole of its TTL.
THEOREM NoncesAreUsableOnce == NonceSpec => []NonceUsableOnce
<1>1. NonceInv => NonceUsableOnce
  BY DEF NonceInv
<1>. QED  BY NonceInvariant, <1>1, PTL

\* Only a handler during which another one changed the dict raises.
THEOREM NonceErrorsOverlap == NonceSpec => []NonceErrorNeedsOverlap
<1>1. NonceInv => NonceErrorNeedsOverlap
  BY DEF NonceInv
<1>. QED  BY NonceInvariant, <1>1, PTL

-----------------------------------------------------------------------------
(* Biometric checks                                                        *)

Steps == {"idle", "py_dup", "py_write", "nest_dup", "nest_write", "print_dup", "print_write",
          "revoke_face", "adapt_write", "py_match", "nest_match"}
         \cup Registering \cup Storing \cup Answers
AtWork == Steps \ ({"idle"} \cup Answers)
Comparing == {"py_match", "nest_match"}

\* What a request knows of the rows: nobody has written the one it works on, or
\* the user is among the clashed or the stranded; and a face that matches was
\* seen with its flag.
Fits(j, rows, clashes, strands, revivals) ==
    /\ j.pc \in AtWork => j.target \in Profiles
    /\ j.pc \in AtWork \ {"revoke_face"} => j.sample \in Persons
    /\ j.pc = "revoke_face" /\ j.target \notin clashes => ~rows[j.target].faceRegistered
    /\ j.pc = "py_match" /\ j.target \notin clashes \cup strands => rows[j.target].face # Null
    /\ j.pc \in Comparing /\ rows[j.target].face = j.sample => j.held \/ j.target \in revivals
    /\ j.pc = "failed" => j.target \in clashes \cup strands
    /\ j.pc = "matched" => j.held \/ j.target \in revivals

\* A registration that has created the row of u and has yet to store the face.
Brings(j, u) == j.pc \in Storing /\ j.target = u /\ "face" \in j.gives

\* Flag and embedding are in step where requests came one after the other and
\* no registration was cut short.
InStep ==
    \A u \in Profiles :
        profile[u].faceRegistered => \/ profile[u].face # Null
                                     \/ u \in clashed \cup stranded
                                     \/ \E h \in Callers : Brings(job[h], u)

ChecksInv ==
    /\ ChecksTypeOK
    /\ InStep
    /\ \A h \in Callers : Fits(job[h], profile, clashed, stranded, revived)

\* What a request knows stays so when more users are clashed or stranded.
LEMMA FitsWithMore ==
  ASSUME NEW j, NEW rows, NEW clashes, NEW clashes2, NEW strands, NEW strands2, NEW revivals,
         Fits(j, rows, clashes, strands, revivals),
         clashes \subseteq clashes2, strands \subseteq strands2
  PROVE  Fits(j, rows, clashes2, strands2, revivals)
  BY SMT DEF Fits

\* A job that begins, goes on or ends, without a write.
LEMMA MovesInv ==
  ASSUME ChecksInv, NEW h \in Callers, NEW j \in Jobs, job' = [job EXCEPT ![h] = j],
         UNCHANGED <<accounts, profile, revived, cachedFace>>, handled' \in 0..MaxHandled,
         clashed \subseteq clashed', clashed' \subseteq Profiles,
         stranded \subseteq stranded', stranded' \subseteq Profiles,
         \A u \in Profiles : Brings(job[h], u) => u \in stranded',
         Fits(j, profile, clashed', stranded', revived)
  PROVE  ChecksInv'
  <1>1. /\ job' \in [Callers -> Jobs] /\ job'[h] = j
        /\ \A g \in Callers : g # h => job'[g] = job[g]
    BY SMT DEF ChecksInv, ChecksTypeOK
  <1>2. ChecksTypeOK'
    BY <1>1, SMT DEF ChecksInv, ChecksTypeOK
  <1>3. InStep'
    <2> SUFFICES ASSUME NEW u \in Profiles, profile[u].faceRegistered, profile[u].face = Null,
                        u \notin clashed' \cup stranded'
                 PROVE  \E g \in Callers : Brings(job'[g], u)
      BY Zenon DEF InStep, Brings
    <2>1. u \notin clashed \cup stranded
      OBVIOUS
    <2>2. PICK g \in Callers : Brings(job[g], u)
      BY <2>1, Zenon DEF ChecksInv, InStep
    <2>3. g # h
      BY <2>2, Zenon
    <2> QED  BY <1>1, <2>2, <2>3, Zenon
  <1>4. \A g \in Callers : Fits(job[g], profile, clashed', stranded', revived)
    BY FitsWithMore DEF ChecksInv
  <1>5. \A g \in Callers : Fits(job'[g], profile', clashed', stranded', revived')
    BY <1>1, <1>4, Zenon
  <1> QED  BY <1>2, <1>3, <1>5 DEF ChecksInv

\* A request that is not the writer keeps what it knows.
LEMMA OthersFit ==
  ASSUME NEW j \in Jobs, NEW rows \in [Profiles -> ProfileRows], NEW u \in Profiles,
         NEW row \in ProfileRows, NEW held \in BOOLEAN,
         NEW clashes, NEW clashes2, NEW strands, NEW revivals, NEW revivals2,
         Fits(j, rows, clashes, strands, revivals),
         clashes \subseteq clashes2, revivals \subseteq revivals2,
         j.target = u /\ j.pc \in AtWork => u \in clashes2,
         j.held => held,
         j.target = u /\ Holds(row, j.sample) => held,
         row.face \in Persons /\ row.face # rows[u].face => row.faceRegistered \/ u \in revivals2
  PROVE  Fits([j EXCEPT !.held = held], [rows EXCEPT ![u] = row], clashes2, strands, revivals2)
  <1> DEFINE i == [j EXCEPT !.held = held]
             after == [rows EXCEPT ![u] = row]
  <1>1. i.pc = j.pc /\ i.target = j.target /\ i.sample = j.sample /\ i.held = held
    BY Zenon DEF Jobs
  <1>2. after[u] = row /\ \A v \in Profiles : v # u => after[v] = rows[v]
    BY SMT
  <1> HIDE DEF i, after
  <1>3. j.pc \in {"revoke_face"} \cup Comparing => j.pc \in AtWork
    BY DEF AtWork, Comparing, Steps, Answers
  <1>4. /\ i.pc \in AtWork => i.target \in Profiles
        /\ i.pc \in AtWork \ {"revoke_face"} => i.sample \in Persons
        /\ i.pc = "failed" => i.target \in clashes2 \cup strands
        /\ i.pc = "matched" => i.held \/ i.target \in revivals2
    BY <1>1, SMT DEF Fits
  <1>5. /\ i.pc = "revoke_face" /\ i.target \notin clashes2 => ~after[i.target].faceRegistered
        /\ i.pc = "py_match" /\ i.target \notin clashes2 \cup strands => after[i.target].face # Null
    BY <1>1, <1>2, <1>3, SMT DEF Fits, Comparing
  <1>6. i.pc \in Comparing /\ after[i.target].face = i.sample => i.held \/ i.target \in revivals2
    <2> SUFFICES ASSUME j.pc \in Comparing, after[j.target].face = j.sample
                 PROVE  held \/ j.target \in revivals2
      BY <1>1, Zenon
    <2>1. j.target \in Profiles /\ j.sample \in Persons
      BY <1>3, SMT DEF Fits, Comparing
    <2>2. CASE j.target # u
      BY <1>2, <2>1, <2>2, SMT DEF Fits
    <2>3. CASE j.target = u /\ rows[u].face = j.sample
      BY <2>3, SMT DEF Fits
    <2>4. CASE j.target = u /\ rows[u].face # j.sample
      BY <1>2, <2>1, <2>4, SMT DEF Holds
    <2> QED  BY <2>2, <2>3, <2>4
  <1>7. Fits(i, after, clashes2, strands, revivals2)
    BY <1>4, <1>5, <1>6 DEF Fits
  <1> QED  BY <1>7 DEF i, after

\* A statement that writes the row of u.
LEMMA WritesInv ==
  ASSUME ChecksInv, NEW h \in Callers, NEW u \in Profiles, NEW row \in ProfileRows,
         NEW next \in Jobs, Writes(h, u, row, next),
         UNCHANGED cachedFace, handled' \in 0..MaxHandled, accounts' \subseteq Profiles,
         revived' \subseteq Profiles, revived \subseteq revived',
         stranded' \subseteq Profiles, stranded \subseteq stranded',
         \A v \in Profiles : Brings(job[h], v) => v = u,
         row.faceRegistered => \/ row.face # Null
                               \/ u \in clashed \cup stranded'
                               \/ Brings(next, u)
                               \/ \E g \in Callers \ {h} : Brings(job[g], u),
         row.face \in Persons /\ row.face # profile[u].face => row.faceRegistered \/ u \in revived',
         \/ next.pc = "idle"
         \/ next.pc = "revoke_face" /\ next.target = u /\ ~row.faceRegistered
         \/ next.pc \in Storing /\ next.target = u /\ next.sample \in Persons
  PROVE  ChecksInv'
  <1> DEFINE sees(g) == job[g].held \/ (job[g].target = u /\ Holds(row, job[g].sample))
  <1>1. /\ profile \in [Profiles -> ProfileRows] /\ job \in [Callers -> Jobs]
        /\ clashed \subseteq Profiles
        /\ \A g \in Callers : job[g] \in Jobs
    BY SMT DEF ChecksInv, ChecksTypeOK
  <1>2. /\ profile' = [profile EXCEPT ![u] = row]
        /\ job' = [g \in Callers |-> IF g = h THEN next ELSE [job[g] EXCEPT !.held = sees(g)]]
        /\ clashed \subseteq clashed' /\ clashed' \subseteq Profiles
        /\ \A g \in Callers \ {h} : job[g].target = u /\ job[g].pc \notin Answers => u \in clashed'
    <2>1. clashed' = IF \E g \in Callers \ {h} : job[g].target = u /\ job[g].pc \notin Answers
                     THEN clashed \cup {u} ELSE clashed
      BY Zenon DEF Writes
    <2>2. clashed \subseteq clashed' /\ clashed' \subseteq Profiles
      BY <1>1, <2>1, SMT
    <2>3. \A g \in Callers \ {h} : job[g].target = u /\ job[g].pc \notin Answers => u \in clashed'
      BY <2>1, Zenon
    <2> QED  BY <2>2, <2>3, Zenon DEF Writes
  <1>3. ASSUME NEW g \in Callers \ {h}
        PROVE  [job[g] EXCEPT !.held = sees(g)] \in Jobs
               /\ Fits([job[g] EXCEPT !.held = sees(g)], profile', clashed', stranded', revived')
    <2>1. job[g] \in Jobs /\ Fits(job[g], profile, clashed, stranded, revived)
      BY <1>1 DEF ChecksInv
    <2>2. sees(g) \in BOOLEAN
      BY <2>1, SMT DEF Jobs, Holds, ProfileRows
    <2>3. /\ job[g].held => sees(g)
          /\ job[g].target = u /\ Holds(row, job[g].sample) => sees(g)
      OBVIOUS
    <2>4. job[g].target = u /\ job[g].pc \in AtWork => u \in clashed'
      BY <1>2, SMT DEF AtWork
    <2> HIDE DEF sees
    <2>5. [job[g] EXCEPT !.held = sees(g)] \in Jobs
      BY <2>1, <2>2, Zenon DEF Jobs
    <2>6. Fits([job[g] EXCEPT !.held = sees(g)], profile', clashed', stranded, revived')
      BY <1>1, <1>2, <2>1, <2>2, <2>3, <2>4, OthersFit
    <2> QED  BY <2>5, <2>6, FitsWithMore
  <1>4. Fits(next, profile', clashed', stranded', revived')
    <2>1. profile'[u] = row
      BY <1>1, <1>2, SMT
    <2> QED  BY <2>1, SMT DEF Fits, AtWork, Steps, Answers, Comparing, Storing, Registering
  <1> HIDE DEF sees
  <1>5. /\ job' \in [Callers -> Jobs]
        /\ \A g \in Callers : Fits(job'[g], profile', clashed', stranded', revived')
    <2>1. ASSUME NEW g \in Callers PROVE job'[g] \in Jobs /\ Fits(job'[g], profile', clashed', stranded', revived')
      <3>1. CASE g = h
        <4>1. job'[g] = next
          BY <1>2, <3>1, Zenon
        <4> QED  BY <1>4, <4>1
      <3>2. CASE g # h
        <4>1. job'[g] = [job[g] EXCEPT !.held = sees(g)]
          BY <1>2, <3>2, Zenon
        <4> QED  BY <1>3, <3>2, <4>1, Zenon
      <3> QED  BY <3>1, <3>2
    <2>2. job' = [g \in Callers |-> job'[g]]
      BY <1>2, Zenon
    <2> QED  BY <2>1, <2>2, Zenon
  <1>6. profile' \in [Profiles -> ProfileRows] /\ profile'[u] = row
        /\ \A v \in Profiles : v # u => profile'[v] = profile[v]
    BY <1>1, <1>2, SMT
  <1>7. ChecksTypeOK'
    BY <1>2, <1>5, <1>6, Zenon DEF ChecksInv, ChecksTypeOK
  <1>8. \A g \in Callers \ {h}, v \in Profiles : Brings(job[g], v) => Brings(job'[g], v)
    <2> SUFFICES ASSUME NEW g \in Callers \ {h}, NEW v \in Profiles, Brings(job[g], v)
                 PROVE  Brings(job'[g], v)
      OBVIOUS
    <2>1. job'[g] = [job[g] EXCEPT !.held = sees(g)] /\ job[g] \in Jobs
      BY <1>1, <1>2, Zenon
    <2>2. job'[g].pc = job[g].pc /\ job'[g].target = job[g].target /\ job'[g].gives = job[g].gives
      BY <2>1, Zenon DEF Jobs
    <2> QED  BY <2>2 DEF Brings
  <1>9. InStep'
    <2> SUFFICES ASSUME NEW v \in Profiles, profile'[v].faceRegistered, profile'[v].face = Null,
                        v \notin clashed' \cup stranded'
                 PROVE  \E g \in Callers : Brings(job'[g], v)
      BY Zenon DEF InStep, Brings
    <2>1. v \notin clashed \cup stranded
      BY <1>2
    <2>2. job'[h] = next
      BY <1>2, Zenon
    <2>3. CASE v = u
      BY <1>2, <1>6, <1>8, <2>1, <2>2, <2>3, Zenon
    <2>4. CASE v # u
      <3>1. PICK g \in Callers : Brings(job[g], v)
        BY <1>6, <2>1, <2>4, Zenon DEF ChecksInv, InStep
      <3>2. g # h
        BY <2>4, <3>1
      <3> QED  BY <1>8, <3>1, <3>2
    <2> QED  BY <2>3, <2>4
  <1> QED  BY <1>5, <1>7, <1>9 DEF ChecksInv

-----------------------------------------------------------------------------
(* The statements                                                          *)

LEMMA IdleFits ==
  /\ IdleJob \in Jobs /\ IdleJob.pc = "idle"
  /\ Fits(IdleJob, profile, clashed, stranded, revived)
  <1>1. IdleJob \in Jobs /\ IdleJob.pc = "idle"
    BY Zenon DEF IdleJob, Jobs
  <1> QED  BY <1>1, SMT DEF Fits, AtWork, Comparing, Answers

\* A request that begins with what it reads of the row of u.
LEMMA BeginFits ==
  ASSUME ChecksInv, NEW h \in Callers, NEW u \in Profiles, NEW p \in Persons, NEW step \in Steps,
         NEW gives \in SUBSET {"face", "print"}, Begin(h, step, u, p, gives),
         step \notin {"revoke_face", "failed", "matched"},
         step \in Comparing => HasFace(profile[u])
  PROVE  ChecksInv'
  <1> DEFINE j == [pc |-> step, target |-> u, sample |-> p, held |-> Holds(profile[u], p),
                   gives |-> gives]
             storing == \E g \in Callers : job[g].target = u /\ job[g].pc \in Storing
  <1>1. /\ job' = [job EXCEPT ![h] = j] /\ handled' = handled + 1 /\ handled < MaxHandled
        /\ clashed' = (IF storing THEN clashed \cup {u} ELSE clashed) /\ job[h].pc = "idle"
        /\ UNCHANGED <<accounts, profile, cachedFace, revived, stranded>>
    BY Zenon DEF Begin
  <1>2. handled' \in 0..MaxHandled
    BY <1>1, ChecksAssumption, SMT DEF ChecksInv, ChecksTypeOK
  <1>3. profile[u] \in ProfileRows
    BY SMT DEF ChecksInv, ChecksTypeOK
  <1>4. Holds(profile[u], p) \in BOOLEAN
    BY <1>3, SMT DEF ProfileRows, Holds
  <1>5. /\ j \in Jobs /\ j.pc = step /\ j.target = u /\ j.sample = p
        /\ j.held = Holds(profile[u], p)
    BY <1>4, Zenon DEF Jobs, Steps
  <1>6. step \in Comparing /\ profile[u].face = p => Holds(profile[u], p)
    BY Zenon DEF Holds, HasFace
  <1>7. clashed \subseteq clashed' /\ clashed' \subseteq Profiles /\ (storing => u \in clashed')
    <2>1. clashed \subseteq Profiles
      BY DEF ChecksInv, ChecksTypeOK
    <2> QED  BY <1>1, <2>1, Zenon
  <1>8. step = "py_match" /\ u \notin clashed' \cup stranded => profile[u].face # Null
    <2> SUFFICES ASSUME step = "py_match", u \notin clashed' \cup stranded, profile[u].face = Null
                 PROVE  FALSE
      OBVIOUS
    <2>1. profile[u].faceRegistered
      BY Zenon DEF Comparing, HasFace
    <2>2. u \notin clashed \cup stranded
      BY <1>7
    <2>3. \E g \in Callers : Brings(job[g], u)
      BY <2>1, <2>2, Zenon DEF ChecksInv, InStep
    <2>4. storing
      BY <2>3 DEF Brings
    <2> QED  BY <1>7, <2>4
  <1> HIDE DEF j, storing
  <1>9. Fits(j, profile, clashed', stranded, revived)
    BY <1>5, <1>6, <1>8, SMT DEF Fits
  <1>10. \A v \in Profiles : ~Brings(job[h], v)
    BY <1>1, SMT DEF Brings, Storing
  <1>11. stranded' = stranded /\ stranded \subseteq Profiles
    BY <1>1 DEF ChecksInv, ChecksTypeOK
  <1> QED  BY <1>1, <1>2, <1>5, <1>7, <1>9, <1>10, <1>11, MovesInv

\* A request that goes on or is answered.
LEMMA GoesInv ==
  ASSUME ChecksInv, NEW h \in Callers, NEW step \in Steps, Goes(h, step),
         UNCHANGED <<accounts, profile, cachedFace, handled, clashed, revived>>,
         stranded \subseteq stranded', stranded' \subseteq Profiles,
         \A u \in Profiles : Brings(job[h], u) => u \in stranded',
         job[h].pc \in AtWork,
         step \notin {"revoke_face"} \cup Comparing,
         step \in AtWork => job[h].pc # "revoke_face",
         step = "failed" => job[h].target \in clashed \cup stranded,
         step = "matched" => job[h].held \/ job[h].target \in revived
  PROVE  ChecksInv'
  <1> DEFINE j == [job[h] EXCEPT !.pc = step]
  <1>1. job \in [Callers -> Jobs] /\ job[h] \in Jobs /\ Fits(job[h], profile, clashed, stranded, revived)
    BY SMT DEF ChecksInv, ChecksTypeOK
  <1>2. job' = [job EXCEPT ![h] = j]
    <2>1. job' = [job EXCEPT ![h].pc = step]
      BY Zenon DEF Goes
    <2> QED  BY <1>1, <2>1
  <1>3. j \in Jobs /\ j.pc = step /\ j.target = job[h].target /\ j.sample = job[h].sample
        /\ j.held = job[h].held
    BY <1>1, Zenon DEF Jobs, Steps
  <1> HIDE DEF j
  <1>4. Fits(j, profile, clashed, stranded, revived)
    BY <1>1, <1>3, SMT DEF Fits, Comparing
  <1>5. /\ handled' \in 0..MaxHandled
        /\ clashed \subseteq clashed' /\ clashed' \subseteq Profiles
    BY Zenon DEF ChecksInv, ChecksTypeOK
  <1>6. Fits(j, profile, clashed', stranded', revived)
    BY <1>4, <1>5, FitsWithMore
  <1> QED  BY <1>2, <1>3, <1>5, <1>6, MovesInv

\* A request that goes on after it has read, and does not store what a
\* registration brought.
LEMMA ReadsInv ==
  ASSUME ChecksInv, NEW h \in Callers, NEW step \in Steps, Goes(h, step), Reads,
         job[h].pc \in AtWork \ Storing,
         step \notin {"revoke_face"} \cup Comparing,
         step \in AtWork => job[h].pc # "revoke_face",
         step = "failed" => job[h].target \in clashed \cup stranded,
         step = "matched" => job[h].held \/ job[h].target \in revived
  PROVE  ChecksInv'
  <1>1. stranded \subseteq stranded' /\ stranded' \subseteq Profiles
    BY Zenon DEF Reads, ChecksInv, ChecksTypeOK
  <1>2. \A u \in Profiles : Brings(job[h], u) => u \in stranded'
    BY DEF Brings
  <1> QED  BY <1>1, <1>2, GoesInv DEF Reads

LEMMA ComparedInv ==
  ASSUME ChecksInv, NEW h \in Callers, NEW u \in Profiles \cup {Null}, NEW p \in Persons,
         NEW matches \in BOOLEAN, Compared(h, u, p, matches)
  PROVE  ChecksInv'
  <1> DEFINE pc == IF matches THEN "matched" ELSE "refused"
             j == [pc |-> pc, target |-> u, sample |-> p, held |-> TRUE, gives |-> {}]
  <1>1. /\ job' = [job EXCEPT ![h] = j] /\ handled' = handled + 1 /\ handled < MaxHandled
        /\ UNCHANGED <<accounts, profile, clashed, stranded, revived, cachedFace>>
        /\ job[h].pc = "idle"
    BY Zenon DEF Compared
  <1>2. handled' \in 0..MaxHandled
    BY <1>1, ChecksAssumption, SMT DEF ChecksInv, ChecksTypeOK
  <1>3. pc \in {"matched", "refused"}
    BY Zenon
  <1>4. j \in Jobs /\ j.pc = pc /\ j.held
    <2> HIDE DEF pc
    <2> QED  BY <1>3, SMT DEF Jobs, Answers
  <1> HIDE DEF pc, j
  <1>5. Fits(j, profile, clashed, stranded, revived)
    BY <1>3, <1>4, SMT DEF Fits, AtWork, Comparing, Answers
  <1>6. \A v \in Profiles : ~Brings(job[h], v)
    BY <1>1, SMT DEF Brings, Storing
  <1>7. /\ clashed \subseteq clashed' /\ clashed' \subseteq Profiles
        /\ stranded \subseteq stranded' /\ stranded' \subseteq Profiles
    BY <1>1, Zenon DEF ChecksInv, ChecksTypeOK
  <1>8. Fits(j, profile, clashed', stranded', revived)
    BY <1>5, <1>7, FitsWithMore
  <1> QED  BY <1>1, <1>2, <1>4, <1>6, <1>7, <1>8, MovesInv

LEMMA Typed ==
  ASSUME ChecksInv
  PROVE  /\ \A u \in Profiles : /\ profile[u] \in ProfileRows
                                /\ cachedFace[u] \in Persons \cup {Null}
                                /\ profile[u].faceRegistered =>
                                      \/ profile[u].face # Null
                                      \/ u \in clashed \cup stranded
                                      \/ \E h \in Callers : Brings(job[h], u)
         /\ \A h \in Callers : job[h] \in Jobs /\ Fits(job[h], profile, clashed, stranded, revived)
         /\ accounts \subseteq Profiles /\ stranded \subseteq Profiles
         /\ clashed \subseteq Profiles /\ revived \subseteq Profiles /\ handled \in 0..MaxHandled
         /\ cachedFace \in [Profiles -> Persons \cup {Null}]
         /\ \A p \in Persons : p # Null
  BY ChecksAssumption, SMT DEF ChecksInv, ChecksTypeOK, InStep

\* Only a registration between its statements brings a face.
LEMMA BringsNone ==
  ASSUME NEW h \in Callers, job[h].pc \notin Storing
  PROVE  \A v \in Profiles : ~Brings(job[h], v)
  BY DEF Brings

LEMMA HandledMore ==
  ASSUME ChecksInv, handled < MaxHandled, handled' = handled + 1
  PROVE  handled' \in 0..MaxHandled
  BY ChecksAssumption, SMT DEF ChecksInv, ChecksTypeOK

\* A statement of a request that is no registration.
LEMMA RequestWrites ==
  ASSUME ChecksInv, NEW h \in Callers, NEW u \in Profiles, NEW row \in ProfileRows,
         NEW next \in Jobs, Writes(h, u, row, next), job[h].pc \notin Storing,
         UNCHANGED <<accounts, cachedFace, stranded>>, handled' \in 0..MaxHandled,
         revived' \subseteq Profiles, revived \subseteq revived',
         row.faceRegistered => \/ row.face # Null
                               \/ u \in clashed
                               \/ profile[u].faceRegistered /\ row.face = profile[u].face,
         row.face \in Persons /\ row.face # profile[u].face => row.faceRegistered \/ u \in revived',
         \/ next.pc = "idle"
         \/ next.pc = "revoke_face" /\ next.target = u /\ ~row.faceRegistered
  PROVE  ChecksInv'
  <1>1. /\ accounts' \subseteq Profiles
        /\ stranded' \subseteq Profiles /\ stranded \subseteq stranded'
    BY Typed
  <1>2. \A v \in Profiles : ~Brings(job[h], v)
    BY BringsNone
  <1>3. row.faceRegistered => \/ row.face # Null
                              \/ u \in clashed \cup stranded'
                              \/ Brings(next, u)
                              \/ \E g \in Callers \ {h} : Brings(job[g], u)
    <2> SUFFICES ASSUME row.faceRegistered, row.face = Null, u \notin clashed \cup stranded
                 PROVE  \E g \in Callers \ {h} : Brings(job[g], u)
      BY Zenon
    <2>1. profile[u].faceRegistered /\ profile[u].face = Null
      OBVIOUS
    <2> QED  BY <1>2, <2>1, Typed, Zenon
  <1> QED  BY <1>1, <1>2, <1>3, WritesInv

\* The second half of an enrolment of a face, of either service.
LEMMA StoreFaceInv ==
  ASSUME ChecksInv, NEW h \in Callers, PythonStoreFace(h) \/ NestStoreFace(h)
  PROVE  ChecksInv'
  <1> DEFINE u == job[h].target
             p == job[h].sample
             row == [profile[u] EXCEPT !.face = p, !.faceRegistered = TRUE]
  <1>1. /\ job[h].pc \in {"py_write", "nest_write"}
        /\ Writes(h, u, row, IdleJob) /\ UNCHANGED <<accounts, cachedFace, handled, revived, stranded>>
    BY Zenon DEF PythonStoreFace, NestStoreFace
  <1>2. u \in Profiles /\ p \in Persons /\ p # Null
    BY <1>1, Typed, SMT DEF Fits, AtWork, Steps, Answers
  <1>3. profile[u] \in ProfileRows /\ p \in Persons \cup {Null}
    BY <1>2, Typed
  <1>4. row \in ProfileRows /\ row.face = p /\ row.faceRegistered
    <2> HIDE DEF u, p
    <2> QED  BY <1>3, Zenon DEF ProfileRows
  <1> HIDE DEF u, p, row
  <1>5. /\ handled' \in 0..MaxHandled /\ revived' \subseteq Profiles /\ revived \subseteq revived'
        /\ job[h].pc \notin Storing
    BY <1>1, Typed, SMT DEF Storing
  <1> QED  BY <1>1, <1>2, <1>4, <1>5, IdleFits, RequestWrites

LEMMA AdaptiveWriteInv ==
  ASSUME ChecksInv, NEW h \in Callers, AdaptiveWrite(h)
  PROVE  ChecksInv'
  <1> DEFINE u == job[h].target
             p == job[h].sample
             row == [profile[u] EXCEPT !.face = p]
  <1>1. /\ job[h].pc = "adapt_write"
        /\ Writes(h, u, row, IdleJob) /\ UNCHANGED <<accounts, cachedFace, handled, stranded>>
        /\ revived' = IF profile[u].faceRegistered THEN revived ELSE revived \cup {u}
    BY Zenon DEF AdaptiveWrite
  <1>2. u \in Profiles /\ p \in Persons /\ p # Null
    BY <1>1, Typed, SMT DEF Fits, AtWork, Steps, Answers
  <1>3. profile[u] \in ProfileRows /\ p \in Persons \cup {Null}
    BY <1>2, Typed
  <1>4. row \in ProfileRows /\ row.face = p /\ row.faceRegistered = profile[u].faceRegistered
    <2> HIDE DEF u, p
    <2> QED  BY <1>3, Zenon DEF ProfileRows
  <1> HIDE DEF u, p, row
  <1>5. /\ handled' \in 0..MaxHandled /\ revived' \subseteq Profiles /\ revived \subseteq revived'
        /\ row.faceRegistered \/ u \in revived'
        /\ job[h].pc \notin Storing
    BY <1>1, <1>2, <1>4, Typed, SMT DEF Storing
  <1> QED  BY <1>1, <1>2, <1>4, <1>5, IdleFits, RequestWrites

\* A print is stored: embedding and flag of the face stay.
PrintStored(row, u) ==
    /\ row \in ProfileRows
    /\ row.face = profile[u].face /\ row.faceRegistered = profile[u].faceRegistered

LEMMA StorePrintInv ==
  ASSUME ChecksInv, NEW h \in Callers, NEW u \in Profiles, NEW row, PrintStored(row, u),
         NEW next \in Jobs, next.pc = "idle", job[h].pc \notin Storing, Writes(h, u, row, next),
         UNCHANGED <<accounts, cachedFace, revived, stranded>>, handled' \in 0..MaxHandled
  PROVE  ChecksInv'
  <1>1. /\ revived' \subseteq Profiles /\ revived \subseteq revived' /\ row \in ProfileRows
        /\ row.faceRegistered => profile[u].faceRegistered /\ row.face = profile[u].face
        /\ row.face = profile[u].face
    BY Typed, Zenon DEF PrintStored
  <1> QED  BY <1>1, RequestWrites

LEMMA EnrollPrintInv ==
  ASSUME ChecksInv, NEW h \in Callers,
         \/ NestStorePrint(h)
         \/ \E u \in Profiles, form \in {"image", "text"}, p \in Persons : PythonEnrollPrint(h, u, form, p)
  PROVE  ChecksInv'
  <1> DEFINE stored(u, t) == [profile[u] EXCEPT !.print = t, !.printRegistered = TRUE]
  <1>1. ASSUME NEW u \in Profiles, NEW t \in Templates PROVE PrintStored(stored(u, t), u)
    <2>1. profile[u] \in ProfileRows /\ t \in Templates \cup {Null}
      BY Typed
    <2> QED  BY <2>1, Zenon DEF ProfileRows, PrintStored
  <1>2. CASE NestStorePrint(h)
    <2> DEFINE u == job[h].target
               t == Encrypt("nest", "image", job[h].sample)
    <2>1. /\ job[h].pc = "print_write" /\ Writes(h, u, stored(u, t), IdleJob)
          /\ UNCHANGED <<accounts, cachedFace, handled, revived, stranded>>
      BY <1>2, Zenon DEF NestStorePrint
    <2>2. u \in Profiles /\ job[h].sample \in Persons
      BY <2>1, Typed, SMT DEF Fits, AtWork, Steps, Answers
    <2>3. t \in Templates
      BY <2>2, Zenon DEF Encrypt, Templates
    <2>4. handled' \in 0..MaxHandled /\ job[h].pc \notin Storing
      BY <2>1, Typed, SMT DEF Storing
    <2> HIDE DEF stored, u, t
    <2> QED  BY <1>1, <2>1, <2>2, <2>3, <2>4, IdleFits, StorePrintInv
  <1>3. ASSUME NEW u \in Profiles, NEW form \in {"image", "text"}, NEW p \in Persons,
               PythonEnrollPrint(h, u, form, p)
        PROVE  ChecksInv'
    <2> DEFINE t == Encrypt("python", form, p)
    <2>1. /\ job[h].pc = "idle" /\ handled < MaxHandled /\ handled' = handled + 1
          /\ Writes(h, u, stored(u, t), job[h])
          /\ UNCHANGED <<accounts, cachedFace, revived, stranded>>
      BY <1>3, Zenon DEF PythonEnrollPrint
    <2>2. t \in Templates
      BY Zenon DEF Encrypt, Templates
    <2>3. handled' \in 0..MaxHandled /\ job[h] \in Jobs /\ job[h].pc \notin Storing
      <3>1. "idle" \notin Storing
        BY DEF Storing
      <3> QED  BY <2>1, <3>1, HandledMore, Typed, Zenon
    <2> HIDE DEF stored, t
    <2> QED  BY <1>1, <2>1, <2>2, <2>3, StorePrintInv
  <1> QED  BY <1>2, <1>3

LEMMA RevokeInv ==
  ASSUME ChecksInv, NEW h \in Callers,
         NestRevokeFace(h) \/ \E u \in Profiles : PythonRevoke(h, u) \/ NestRevoke(h, u)
  PROVE  ChecksInv'
  <1>1. ASSUME NEW u \in Profiles, PythonRevoke(h, u) PROVE ChecksInv'
    <2>1. /\ job[h].pc = "idle" /\ handled < MaxHandled /\ handled' = handled + 1
          /\ Writes(h, u, EmptyRow, job[h]) /\ UNCHANGED <<accounts, cachedFace, revived, stranded>>
      BY <1>1, Zenon DEF PythonRevoke
    <2>2. EmptyRow \in ProfileRows /\ EmptyRow.face = Null /\ ~EmptyRow.faceRegistered
      BY SMT DEF EmptyRow, ProfileRows
    <2>3. /\ handled' \in 0..MaxHandled /\ job[h] \in Jobs
          /\ revived' \subseteq Profiles /\ revived \subseteq revived' /\ EmptyRow.face \notin Persons
          /\ job[h].pc \notin Storing
      <3>1. "idle" \notin Storing
        BY DEF Storing
      <3> QED  BY <2>1, <2>2, <3>1, HandledMore, Typed, Zenon
    <2> QED  BY <2>1, <2>2, <2>3, RequestWrites
  <1>2. ASSUME NEW u \in Profiles, NestRevoke(h, u) PROVE ChecksInv'
    <2> DEFINE next == [IdleJob EXCEPT !.pc = "revoke_face", !.target = u]
               row == Revoked(profile[u])
    <2>1. /\ job[h].pc = "idle" /\ handled < MaxHandled /\ handled' = handled + 1
          /\ Writes(h, u, row, next) /\ UNCHANGED <<accounts, cachedFace, revived, stranded>>
      BY <1>2, Zenon DEF NestRevoke
    <2>2. row \in ProfileRows /\ row.face = profile[u].face /\ ~row.faceRegistered
      <3>1. profile[u] \in ProfileRows /\ Null \in Templates \cup {Null}
        BY Typed
      <3> QED  BY <3>1, Zenon DEF Revoked, ProfileRows
    <2>3. next \in Jobs /\ next.pc = "revoke_face" /\ next.target = u
      <3>1. u \in Profiles \cup {Null} /\ Null \in Profiles \cup {Null}
        OBVIOUS
      <3> QED  BY <3>1, Zenon DEF IdleJob, Jobs
    <2> HIDE DEF row, next
    <2>4. /\ handled' \in 0..MaxHandled
          /\ revived' \subseteq Profiles /\ revived \subseteq revived'
          /\ job[h].pc \notin Storing
      <3>1. "idle" \notin Storing
        BY DEF Storing
      <3> QED  BY <2>1, <3>1, HandledMore, Typed, Zenon
    <2> QED  BY <2>1, <2>2, <2>3, <2>4, RequestWrites
  <1>3. CASE NestRevokeFace(h)
    <2> DEFINE u == job[h].target
               row == [profile[u] EXCEPT !.face = Null]
    <2>1. /\ job[h].pc = "revoke_face" /\ UNCHANGED <<accounts, cachedFace, handled, revived, stranded>>
          /\ Writes(h, u, row, IdleJob)
      BY <1>3, Zenon DEF NestRevokeFace
    <2>2. u \in Profiles /\ (profile[u].faceRegistered => u \in clashed)
      BY <2>1, Typed, SMT DEF Fits, AtWork, Steps, Answers
    <2>3. row \in ProfileRows /\ row.face = Null /\ row.faceRegistered = profile[u].faceRegistered
      <3>1. profile[u] \in ProfileRows /\ Null \in Persons \cup {Null}
        BY <2>2, Typed
      <3> HIDE DEF u
      <3> QED  BY <3>1, Zenon DEF ProfileRows
    <2> HIDE DEF u, row
    <2>4. /\ handled' \in 0..MaxHandled /\ row.face \notin Persons
          /\ revived' \subseteq Profiles /\ revived \subseteq revived'
          /\ row.faceRegistered => u \in clashed
          /\ job[h].pc \notin Storing
      <3>1. "revoke_face" \notin Storing
        BY DEF Storing
      <3> QED  BY <2>1, <2>2, <2>3, <3>1, Typed, Zenon
    <2> QED  BY <2>1, <2>2, <2>3, <2>4, IdleFits, RequestWrites
  <1> QED  BY <1>1, <1>2, <1>3

\* The requests that begin with a read, or answer in the statement they make.
LEMMA BeginsInv ==
  ASSUME ChecksInv, NEW h \in Callers, NEW u \in Profiles, NEW p \in Persons,
         \/ PythonEnrollFace(h, u, p) \/ PythonVerifyFace(h, u, p) \/ NestEnrollFace(h, u, p)
         \/ NestCheckFace(h, u, p) \/ NestEnrollPrint(h, u, p)
  PROVE  ChecksInv'
  <1> DEFINE Asked(b, yes, no) == IF b THEN yes ELSE no
  <1>1. ASSUME NEW step \in Steps, Begin(h, step, u, p, {}),
               step \in {"py_dup", "nest_dup", "print_dup", "refused"}
        PROVE  ChecksInv'
    <2>1. step \notin {"revoke_face", "failed", "matched"} /\ step \notin Comparing
      BY <1>1 DEF Comparing
    <2> QED  BY <1>1, <2>1, BeginFits
  <1>2. ASSUME NEW step \in Comparing, Begin(h, step, u, p, {}), HasFace(profile[u])
        PROVE  ChecksInv'
    <2>1. step \in Steps /\ step \notin {"revoke_face", "failed", "matched"}
      BY <1>2 DEF Comparing, Steps
    <2> QED  BY <1>2, <2>1, BeginFits
  <1>3. {"py_dup", "nest_dup", "print_dup", "refused"} \subseteq Steps
        /\ {"py_match", "nest_match"} \subseteq Comparing
    BY DEF Steps, Comparing, Answers
  <1>4. CASE PythonEnrollFace(h, u, p)
    BY <1>1, <1>3, <1>4 DEF PythonEnrollFace
  <1>5. CASE PythonVerifyFace(h, u, p)
    <2>1. CASE HasFace(profile[u])
      BY <1>2, <1>3, <1>5, <2>1, Zenon DEF PythonVerifyFace
    <2>2. CASE ~HasFace(profile[u])
      BY <1>1, <1>3, <1>5, <2>2, Zenon DEF PythonVerifyFace
    <2> QED  BY <2>1, <2>2
  <1>6. CASE NestEnrollFace(h, u, p)
    <2>1. CASE HasFace(profile[u])
      BY <1>1, <1>3, <1>6, <2>1, Zenon DEF NestEnrollFace
    <2>2. CASE ~HasFace(profile[u])
      BY <1>1, <1>3, <1>6, <2>2, Zenon DEF NestEnrollFace
    <2> QED  BY <2>1, <2>2
  <1>7. CASE NestCheckFace(h, u, p)
    <2>1. CASE HasFace(profile[u])
      BY <1>2, <1>3, <1>7, <2>1, Zenon DEF NestCheckFace
    <2>2. CASE ~HasFace(profile[u])
      BY <1>1, <1>3, <1>7, <2>2, Zenon DEF NestCheckFace
    <2> QED  BY <2>1, <2>2
  <1>8. CASE NestEnrollPrint(h, u, p)
    <2>1. CASE profile[u].print # Null
      BY <1>1, <1>3, <1>8, <2>1, Zenon DEF NestEnrollPrint
    <2>2. CASE profile[u].print = Null
      BY <1>1, <1>3, <1>8, <2>2, Zenon DEF NestEnrollPrint
    <2> QED  BY <2>1, <2>2
  <1> QED  BY <1>4, <1>5, <1>6, <1>7, <1>8

LEMMA BlendInv ==
  ASSUME ChecksInv, NEW h \in Callers, NEW u \in Profiles, AdaptiveBlend(h, u)
  PROVE  ChecksInv'
  <1>1. cachedFace[u] \in Persons
    BY Typed, SMT DEF AdaptiveBlend
  <1>2. "adapt_write" \in Steps /\ "adapt_write" \notin Comparing
    BY DEF Steps, Comparing
  <1> QED  BY <1>1, <1>2, BeginFits DEF AdaptiveBlend

\* The search for a duplicate, the comparison, and the refusal in between.
LEMMA StepsInv ==
  ASSUME ChecksInv, NEW h \in Callers,
         \/ PythonDuplicate(h) \/ PythonMatchFace(h) \/ NestDuplicateFace(h)
         \/ NestDuplicatePrint(h) \/ NestCompareFace(h) \/ Reject(h)
  PROVE  ChecksInv'
  <1>1. ASSUME NEW step \in {"refused", "py_write", "nest_write", "print_write"},
               Goes(h, step), Reads, job[h].pc \in AtWork \ Storing,
               step = "refused" \/ job[h].pc # "revoke_face"
        PROVE  ChecksInv'
    <2>1. /\ step \in Steps /\ step \notin {"revoke_face"} \cup Comparing
          /\ step # "failed" /\ step # "matched"
          /\ step \in AtWork => job[h].pc # "revoke_face"
      BY <1>1 DEF Steps, Comparing, AtWork, Answers
    <2> QED  BY <1>1, <2>1, ReadsInv
  <1>2. /\ {"py_dup", "nest_dup", "print_dup", "py_match", "nest_match"}
             \subseteq AtWork \ Storing
        /\ {"py_match", "nest_match"} \subseteq Comparing
    BY DEF AtWork, Steps, Answers, Comparing, Storing
  <1>3. CASE PythonDuplicate(h)
    <2>1. job[h].pc = "py_dup" /\ Reads /\ (Goes(h, "refused") \/ Goes(h, "py_write"))
      BY <1>3, Zenon DEF PythonDuplicate
    <2> QED  BY <1>1, <1>2, <2>1
  <1>4. CASE NestDuplicateFace(h)
    <2>1. job[h].pc = "nest_dup" /\ Reads /\ (Goes(h, "refused") \/ Goes(h, "nest_write"))
      BY <1>4, Zenon DEF NestDuplicateFace
    <2> QED  BY <1>1, <1>2, <2>1
  <1>5. CASE NestDuplicatePrint(h)
    <2>1. job[h].pc = "print_dup" /\ Reads /\ (Goes(h, "refused") \/ Goes(h, "print_write"))
      BY <1>5, Zenon DEF NestDuplicatePrint
    <2> QED  BY <1>1, <1>2, <2>1
  <1>6. CASE Reject(h)
    <2>1. /\ job[h].pc \in Steps /\ job[h].target \in Profiles \cup {Null}
          /\ job[h].pc \in AtWork => job[h].target \in Profiles
      BY Typed, Zenon DEF Jobs, Steps, Fits
    <2>2. /\ job[h].pc \in AtWork /\ Goes(h, "refused")
          /\ UNCHANGED <<accounts, profile, cachedFace, handled, clashed, revived>>
          /\ stranded' = IF job[h].pc \in Storing /\ "face" \in job[h].gives
                         THEN stranded \cup {job[h].target} ELSE stranded
      BY <1>6, <2>1, Zenon DEF Reject, AtWork
    <2>3. stranded \subseteq stranded' /\ stranded' \subseteq Profiles
      BY <2>1, <2>2, Typed, Zenon
    <2>4. \A u \in Profiles : Brings(job[h], u) => u \in stranded'
      BY <2>2, Zenon DEF Brings
    <2>5. "refused" \in Steps /\ "refused" \notin {"revoke_face"} \cup Comparing
          /\ "refused" \notin AtWork
      BY DEF Steps, Comparing, AtWork, Answers
    <2> QED  BY <2>2, <2>3, <2>4, <2>5, GoesInv
  <1>7. ASSUME NEW step \in {"matched", "failed"}, Goes(h, step), Reads,
               job[h].pc \in Comparing, 
               step = "matched" => job[h].held \/ job[h].target \in revived,
               step = "failed" => job[h].target \in clashed \cup stranded
        PROVE  ChecksInv'
    <2>1. /\ step \in Steps /\ step \notin {"revoke_face"} \cup Comparing /\ step \notin AtWork
          /\ job[h].pc \in AtWork \ Storing
      BY <1>7 DEF Steps, Comparing, AtWork, Answers, Storing
    <2> QED  BY <1>7, <2>1, ReadsInv
  <1>8. job[h].pc \in Comparing /\ profile[job[h].target].face = job[h].sample
        => job[h].held \/ job[h].target \in revived
    BY Typed, Zenon DEF Fits
  <1>9. CASE PythonMatchFace(h)
    <2> DEFINE face == profile[job[h].target].face
    <2>1. /\ job[h].pc = "py_match" /\ Reads
          /\ Goes(h, IF face = Null THEN "failed"
                     ELSE IF face = job[h].sample THEN "matched" ELSE "refused")
      BY <1>9, Zenon DEF PythonMatchFace
    <2>2. face = Null => job[h].target \in clashed \cup stranded
      BY <2>1, Typed, Zenon DEF Fits
    <2>3. CASE face = Null
      BY <1>2, <1>7, <2>1, <2>2, <2>3
    <2>4. CASE face # Null /\ face = job[h].sample
      BY <1>2, <1>7, <1>8, <2>1, <2>4
    <2>5. CASE face # Null /\ face # job[h].sample
      BY <1>1, <1>2, <2>1, <2>5
    <2> QED  BY <2>3, <2>4, <2>5
  <1>10. CASE NestCompareFace(h)
    <2>1. /\ job[h].pc = "nest_match" /\ Reads
          /\ Goes(h, IF FaceMatches(h) THEN "matched" ELSE "refused")
      BY <1>10, Zenon DEF NestCompareFace
    <2>2. CASE FaceMatches(h)
      BY <1>2, <1>7, <1>8, <2>1, <2>2 DEF FaceMatches
    <2>3. CASE ~FaceMatches(h)
      BY <1>1, <1>2, <2>1, <2>3
    <2> QED  BY <2>2, <2>3
  <1> QED  BY <1>3, <1>4, <1>5, <1>6, <1>9, <1>10

\* A registration begins and looks for its samples.
LEMMA JoinsInv ==
  ASSUME ChecksInv, NEW h \in Callers,
         \/ \E u \in Profiles, p \in Persons, gives \in SUBSET {"face", "print"} :
              PythonRegister(h, u, p, gives) \/ NestRegister(h, u, p, gives)
         \/ PythonJoinFace(h) \/ NestJoinFace(h) \/ NestJoinPrint(h)
  PROVE  ChecksInv'
  <1> DEFINE steps == {"refused"} \cup Registering
  <1>1. /\ steps \subseteq Steps /\ steps \cap Comparing = {}
        /\ steps \cap {"revoke_face", "failed", "matched"} = {}
        /\ Registering \subseteq AtWork \ Storing /\ "revoke_face" \notin Registering
    BY DEF Steps, Comparing, Registering, Storing, Answers, AtWork
  <1>2. {"python_join", "python_insert", "join_face", "join_print", "join_create", "refused"} \subseteq steps
    BY DEF Registering
  <1>3. ASSUME NEW u \in Profiles, NEW p \in Persons, NEW gives \in SUBSET {"face", "print"},
               NEW step \in steps, Begin(h, step, u, p, gives)
        PROVE  ChecksInv'
    BY <1>1, <1>3, BeginFits
  <1>4. ASSUME NEW step \in steps, Goes(h, step), Reads, job[h].pc \in Registering
        PROVE  ChecksInv'
    <2>1. /\ step \in Steps /\ step \notin {"revoke_face"} \cup Comparing
          /\ step # "failed" /\ step # "matched"
          /\ job[h].pc \in AtWork \ Storing /\ job[h].pc # "revoke_face"
      BY <1>1, <1>4
    <2> QED  BY <1>4, <2>1, ReadsInv
  <1> HIDE DEF steps
  <1>5. ASSUME NEW u \in Profiles, NEW p \in Persons, NEW gives \in SUBSET {"face", "print"},
               PythonRegister(h, u, p, gives)
        PROVE  ChecksInv'
    BY <1>2, <1>3, <1>5, Zenon DEF PythonRegister
  <1>6. ASSUME NEW u \in Profiles, NEW p \in Persons, NEW gives \in SUBSET {"face", "print"},
               NestRegister(h, u, p, gives)
        PROVE  ChecksInv'
    BY <1>2, <1>3, <1>6, Zenon DEF NestRegister
  <1>7. {"python_join", "join_face", "join_print"} \subseteq Registering
    BY DEF Registering
  <1>8. CASE PythonJoinFace(h)
    <2>1. job[h].pc \in Registering /\ Reads /\ (Goes(h, "refused") \/ Goes(h, "python_insert"))
      BY <1>7, <1>8, Zenon DEF PythonJoinFace
    <2> QED  BY <1>2, <1>4, <2>1
  <1>9. CASE NestJoinFace(h)
    <2>1. /\ job[h].pc \in Registering /\ Reads
          /\ Goes(h, "refused") \/ Goes(h, "join_print") \/ Goes(h, "join_create")
      BY <1>7, <1>9, Zenon DEF NestJoinFace
    <2> QED  BY <1>2, <1>4, <2>1
  <1>10. CASE NestJoinPrint(h)
    <2>1. job[h].pc \in Registering /\ Reads /\ (Goes(h, "refused") \/ Goes(h, "join_create"))
      BY <1>7, <1>10, Zenon DEF NestJoinPrint
    <2> QED  BY <1>2, <1>4, <2>1
  <1> QED  BY <1>5, <1>6, <1>8, <1>9, <1>10

\* The row is created, or its e-mail has an account by now.
LEMMA CreatesInv ==
  ASSUME ChecksInv, NEW h \in Callers, NEW row \in ProfileRows, NEW next \in Jobs,
         Creates(h, row, next), job[h].pc \in Registering,
         UNCHANGED <<cachedFace, handled, revived>>,
         stranded \subseteq stranded', stranded' \subseteq Profiles,
         row.face \in Persons => row.faceRegistered,
         row.faceRegistered => \/ row.face # Null \/ job[h].target \in accounts \cup stranded'
                               \/ Brings(next, job[h].target),
         \/ next.pc = "idle"
         \/ next.pc \in Storing /\ next.target = job[h].target /\ next.sample \in Persons
  PROVE  ChecksInv'
  <1>1. job[h].pc \in AtWork \ Storing /\ job[h].pc # "revoke_face"
    BY DEF Registering, Storing, AtWork, Steps, Answers
  <1>2. job[h].target \in Profiles /\ \A v \in Profiles : ~Brings(job[h], v)
    BY <1>1, Typed, BringsNone, Zenon DEF Fits
  <1>3. CASE job[h].target \in accounts
    <2>1. Goes(h, "refused") /\ UNCHANGED <<accounts, profile, cachedFace, handled, clashed, revived>>
      BY <1>3, Zenon DEF Creates
    <2>2. "refused" \in Steps \ AtWork /\ "refused" \notin {"revoke_face", "failed", "matched"} \cup Comparing
      BY DEF Steps, AtWork, Answers, Comparing
    <2> QED  BY <1>1, <1>2, <2>1, <2>2, GoesInv
  <1>4. CASE job[h].target \notin accounts
    <2>1. accounts' = accounts \cup {job[h].target} /\ Writes(h, job[h].target, row, next)
      BY <1>4, Zenon DEF Creates
    <2>2. /\ handled' \in 0..MaxHandled /\ accounts' \subseteq Profiles
          /\ revived' \subseteq Profiles /\ revived \subseteq revived'
      BY <1>2, <2>1, Typed
    <2> QED  BY <1>2, <1>4, <2>1, <2>2, WritesInv
  <1> QED  BY <1>3, <1>4

LEMMA InsertInv ==
  ASSUME ChecksInv, NEW h \in Callers, PythonInsert(h)
  PROVE  ChecksInv'
  <1> DEFINE stores == job[h].gives
             p == job[h].sample
             print == IF "print" \in stores THEN Encrypt("python", "text", p) ELSE Null
             face == IF "face" \in stores THEN p ELSE Null
             row(sent) == [face |-> face, faceRegistered |-> "face" \in sent,
                           print |-> print, printRegistered |-> "print" \in sent]
  <1>1. PICK sent \in SUBSET {"face", "print"} :
              /\ stores \subseteq sent
              /\ Creates(h, row(sent), IdleJob)
              /\ stranded' = IF "face" \in sent \ stores /\ job[h].target \notin accounts
                             THEN stranded \cup {job[h].target} ELSE stranded
    BY Zenon DEF PythonInsert
  <1>2. job[h].pc = "python_insert" /\ UNCHANGED <<cachedFace, handled, revived>>
    BY Zenon DEF PythonInsert
  <1>3. job[h].pc \in Registering /\ job[h].pc \in AtWork /\ job[h].pc # "revoke_face"
    BY <1>2 DEF Registering, AtWork, Steps, Answers
  <1>4. p \in Persons /\ p # Null /\ job[h].target \in Profiles
    BY <1>3, Typed, Zenon DEF Fits
  <1>5. print \in Templates \cup {Null}
    BY <1>4, Zenon DEF Encrypt, Templates
  <1>6. face \in Persons \cup {Null} /\ (face = Null <=> "face" \notin stores)
    BY <1>4, Zenon
  <1> HIDE DEF face, print
  <1>7. /\ row(sent) \in ProfileRows
        /\ row(sent).face = face /\ row(sent).faceRegistered = ("face" \in sent)
    <2>1. ("face" \in sent) \in BOOLEAN /\ ("print" \in sent) \in BOOLEAN
      BY SMT
    <2> QED  BY <1>5, <1>6, <2>1, Zenon DEF ProfileRows
  <1>8. stranded \subseteq stranded' /\ stranded' \subseteq Profiles
    BY <1>1, <1>4, Typed, Zenon
  <1> DEFINE new == row(sent)
  <1>9. new \in ProfileRows /\ new.face = face /\ new.faceRegistered = ("face" \in sent)
        /\ Creates(h, new, IdleJob)
    BY <1>1, <1>7
  <1> HIDE DEF row, new
  <1>10. new.face \in Persons => new.faceRegistered
    BY <1>1, <1>6, <1>9, ChecksAssumption
  <1>11. new.faceRegistered => new.face # Null \/ job[h].target \in accounts \cup stranded'
    BY <1>1, <1>6, <1>9, Zenon
  <1> QED  BY <1>2, <1>3, <1>8, <1>9, <1>10, <1>11, IdleFits, CreatesInv

LEMMA CreateInv ==
  ASSUME ChecksInv, NEW h \in Callers, NestCreate(h)
  PROVE  ChecksInv'
  <1> DEFINE gives == job[h].gives
             row == [EmptyRow EXCEPT !.faceRegistered = "face" \in gives,
                                     !.printRegistered = "print" \in gives]
             step == IF "print" \in gives THEN "store_print" ELSE "store_face"
             next == [job[h] EXCEPT !.pc = step]
  <1>1. /\ job[h].pc = "join_create" /\ Creates(h, row, next)
        /\ UNCHANGED <<cachedFace, handled, revived, stranded>>
    BY Zenon DEF NestCreate
  <1>2. job[h].pc \in Registering /\ job[h].pc \in AtWork /\ job[h].pc # "revoke_face"
    BY <1>1 DEF Registering, AtWork, Steps, Answers
  <1>3. job[h] \in Jobs /\ job[h].sample \in Persons /\ job[h].target \in Profiles
    BY <1>2, Typed, Zenon DEF Fits
  <1>4. step \in Storing
    BY Zenon DEF Storing
  <1> HIDE DEF step
  <1>5. /\ next \in Jobs /\ next.pc = step /\ next.target = job[h].target
        /\ next.sample = job[h].sample /\ next.gives = gives
    BY <1>3, <1>4, Zenon DEF Jobs
  <1>6. row \in ProfileRows /\ row.face = Null /\ row.faceRegistered = ("face" \in gives)
    <2>1. ("face" \in gives) \in BOOLEAN /\ ("print" \in gives) \in BOOLEAN
      BY SMT
    <2>2. Null \in Persons \cup {Null} /\ Null \in Templates \cup {Null}
      OBVIOUS
    <2> HIDE DEF gives
    <2> QED  BY <2>1, <2>2, Zenon DEF ProfileRows, EmptyRow
  <1> HIDE DEF row, next
  <1>7. row.faceRegistered => Brings(next, job[h].target)
    BY <1>4, <1>5, <1>6, Zenon DEF Brings
  <1>8. row.face \notin Persons /\ stranded \subseteq stranded' /\ stranded' \subseteq Profiles
    BY <1>1, <1>6, ChecksAssumption, Typed
  <1> QED  BY <1>1, <1>2, <1>3, <1>4, <1>5, <1>6, <1>7, <1>8, CreatesInv

\* The samples that a registration brings are stored in the row it has created.
LEMMA StoreGivenInv ==
  ASSUME ChecksInv, NEW h \in Callers, NestStoreGivenPrint(h) \/ NestStoreGivenFace(h)
  PROVE  ChecksInv'
  <1> DEFINE u == job[h].target
             p == job[h].sample
  <1>1. job[h].pc \in Storing /\ UNCHANGED <<accounts, cachedFace, handled, stranded>>
    BY Zenon DEF NestStoreGivenPrint, NestStoreGivenFace, Storing
  <1>2. job[h].pc \in AtWork /\ job[h].pc # "revoke_face"
    BY <1>1 DEF Storing, AtWork, Steps, Answers
  <1>3. job[h] \in Jobs /\ p \in Persons /\ p # Null /\ u \in Profiles /\ profile[u] \in ProfileRows
    BY <1>2, Typed, Zenon DEF Fits
  <1>4. /\ \A v \in Profiles : Brings(job[h], v) => v = u
        /\ handled' \in 0..MaxHandled /\ accounts' \subseteq Profiles
        /\ stranded \subseteq stranded' /\ stranded' \subseteq Profiles
    BY <1>1, Typed, Zenon DEF Brings
  <1>5. CASE NestStoreGivenPrint(h)
    <2> DEFINE t == Encrypt("nest", "image", p)
               row == [profile[u] EXCEPT !.print = t]
               next == IF "face" \in job[h].gives THEN [job[h] EXCEPT !.pc = "store_face"] ELSE IdleJob
    <2>1. Writes(h, u, row, next) /\ revived' = revived
      BY <1>5, Zenon DEF NestStoreGivenPrint
    <2>2. t \in Templates \cup {Null}
      BY <1>3, Zenon DEF Encrypt, Templates
    <2>3. PrintStored(row, u)
      <3> HIDE DEF u, t
      <3> QED  BY <1>3, <2>2, Zenon DEF ProfileRows, PrintStored
    <2>4. CASE "face" \in job[h].gives
      <3> DEFINE storing == [job[h] EXCEPT !.pc = "store_face"]
      <3>1. next = storing
        BY <2>4
      <3>2. /\ storing \in Jobs /\ storing.pc = "store_face" /\ storing.target = u
            /\ storing.sample = p /\ storing.gives = job[h].gives
        BY <1>3, Zenon DEF Jobs, Storing
      <3> HIDE DEF storing, next, row
      <3>3. next \in Jobs /\ next.pc \in Storing /\ next.target = u /\ next.sample \in Persons
            /\ Brings(next, u)
        BY <1>3, <2>4, <3>1, <3>2, Zenon DEF Brings, Storing
      <3>4. row \in ProfileRows /\ row.face = profile[u].face
            /\ revived' \subseteq Profiles /\ revived \subseteq revived'
        BY <2>1, <2>3, Typed DEF PrintStored
      <3> HIDE DEF u, p
      <3> QED  BY <1>1, <1>3, <1>4, <2>1, <3>3, <3>4, WritesInv
    <2>5. CASE "face" \notin job[h].gives
      <3>1. next = IdleJob /\ \A v \in Profiles : ~Brings(job[h], v)
        BY <2>5 DEF Brings
      <3> HIDE DEF next, row
      <3>2. row \in ProfileRows /\ row.face = profile[u].face
            /\ row.faceRegistered = profile[u].faceRegistered
            /\ revived' \subseteq Profiles /\ revived \subseteq revived'
        BY <2>1, <2>3, Typed DEF PrintStored
      <3>3. row.faceRegistered => \/ row.face # Null
                                  \/ u \in clashed \cup stranded'
                                  \/ \E g \in Callers \ {h} : Brings(job[g], u)
        <4> SUFFICES ASSUME row.faceRegistered, row.face = Null, u \notin clashed \cup stranded'
                     PROVE  \E g \in Callers \ {h} : Brings(job[g], u)
          BY Zenon
        <4>1. profile[u].faceRegistered /\ profile[u].face = Null /\ u \notin clashed \cup stranded
          BY <1>1, <3>2
        <4>2. PICK g \in Callers : Brings(job[g], u)
          BY <1>3, <4>1, Typed, Zenon
        <4> QED  BY <1>3, <3>1, <4>2, Zenon
      <3> HIDE DEF u, p
      <3> QED  BY <1>1, <1>3, <1>4, <2>1, <3>1, <3>2, <3>3, IdleFits, WritesInv
    <2> QED  BY <2>4, <2>5
  <1>6. CASE NestStoreGivenFace(h)
    <2> DEFINE row == [profile[u] EXCEPT !.face = p]
    <2>1. /\ Writes(h, u, row, IdleJob)
          /\ revived' = IF profile[u].faceRegistered THEN revived ELSE revived \cup {u}
      BY <1>6, Zenon DEF NestStoreGivenFace
    <2>2. row \in ProfileRows /\ row.face = p /\ row.faceRegistered = profile[u].faceRegistered
      <3>1. p \in Persons \cup {Null}
        BY <1>3
      <3> HIDE DEF u, p
      <3> QED  BY <1>3, <3>1, Zenon DEF ProfileRows
    <2> HIDE DEF row
    <2>3. /\ revived' \subseteq Profiles /\ revived \subseteq revived'
          /\ row.faceRegistered \/ u \in revived'
      BY <1>3, <2>1, <2>2, Typed, SMT
    <2> HIDE DEF u, p
    <2> QED  BY <1>1, <1>3, <1>4, <2>1, <2>2, <2>3, IdleFits, WritesInv
  <1> QED  BY <1>5, <1>6

LEMMA AdministratorInv ==
  ASSUME ChecksInv, NEW h \in Callers, NEW u \in Profiles, NEW p \in Persons,
         RegisterAdministrator(h, u, p)
  PROVE  ChecksInv'
  <1> DEFINE row == [EmptyRow EXCEPT !.face = p, !.faceRegistered = TRUE]
  <1>1. /\ job[h].pc = "idle" /\ handled < MaxHandled /\ handled' = handled + 1
        /\ accounts' = accounts \cup {u} /\ Writes(h, u, row, job[h])
        /\ UNCHANGED <<cachedFace, revived, stranded>>
    BY Zenon DEF RegisterAdministrator
  <1>2. row \in ProfileRows /\ row.face = p /\ row.faceRegistered
    <2>1. p \in Persons \cup {Null} /\ Null \in Templates \cup {Null}
      OBVIOUS
    <2> QED  BY <2>1, Zenon DEF EmptyRow, ProfileRows
  <1> HIDE DEF row
  <1>3. /\ handled' \in 0..MaxHandled /\ accounts' \subseteq Profiles /\ job[h] \in Jobs
        /\ revived' \subseteq Profiles /\ revived \subseteq revived'
        /\ stranded' \subseteq Profiles /\ stranded \subseteq stranded' /\ p # Null
    BY <1>1, HandledMore, Typed
  <1>4. \A v \in Profiles : Brings(job[h], v) => v = u
    BY <1>1, SMT DEF Brings, Storing
  <1> QED  BY <1>1, <1>2, <1>3, <1>4, WritesInv

\* The checks of a print, and the identifications.
LEMMA ComparesInv ==
  ASSUME ChecksInv, NEW h \in Callers, NEW p \in Persons,
         \/ NestIdentify(h, p)
         \/ \E form \in {"image", "text"} : FingerprintLogin(h, form, p)
         \/ \E u \in Profiles : \/ NestVerifyPrint(h, u, p)
                                \/ \E form \in {"image", "text"} : PythonVerifyPrint(h, u, form, p)
  PROVE  ChecksInv'
  <1>1. ASSUME NEW u \in Profiles \cup {Null}, NEW matches \in BOOLEAN, Compared(h, u, p, matches)
        PROVE  ChecksInv'
    BY <1>1, ComparedInv
  <1>2. CASE NestIdentify(h, p)
    BY <1>1, <1>2 DEF NestIdentify
  <1>3. ASSUME NEW form \in {"image", "text"}, FingerprintLogin(h, form, p)
        PROVE  ChecksInv'
    <2>1. \/ Compared(h, Null, p, FALSE)
          \/ \E u \in Profiles : Compared(h, u, p, TRUE)
      BY <1>3, Zenon DEF FingerprintLogin
    <2> QED  BY <1>1, <2>1
  <1>4. \A service, t, form : PrintMatches(service, t, form, p) \in BOOLEAN
    BY Zenon DEF PrintMatches
  <1>5. ASSUME NEW u \in Profiles, NestVerifyPrint(h, u, p)
        PROVE  ChecksInv'
    BY <1>1, <1>4, <1>5 DEF NestVerifyPrint
  <1>6. ASSUME NEW u \in Profiles, NEW form \in {"image", "text"}, PythonVerifyPrint(h, u, form, p)
        PROVE  ChecksInv'
    <2>1. (profile[u].printRegistered /\ PrintMatches("python", profile[u].print, form, p)) \in BOOLEAN
      BY Zenon
    <2> QED  BY <1>1, <1>6, <2>1 DEF PythonVerifyPrint
  <1> QED  BY <1>2, <1>3, <1>5, <1>6

LEMMA AnsweredInv ==
  ASSUME ChecksInv, NEW h \in Callers, Answered(h)
  PROVE  ChecksInv'
  <1>1. /\ job' = [job EXCEPT ![h] = IdleJob] /\ job[h].pc \in Answers
        /\ UNCHANGED <<accounts, profile, clashed, stranded, revived, cachedFace>>
        /\ handled' \in 0..MaxHandled
        /\ clashed \subseteq clashed' /\ clashed' \subseteq Profiles
        /\ stranded \subseteq stranded' /\ stranded' \subseteq Profiles
    BY Typed, Zenon DEF Answered, Reads
  <1>2. \A u \in Profiles : ~Brings(job[h], u)
    <2>1. job[h].pc \notin Storing
      BY <1>1 DEF Answers, Storing
    <2> QED  BY <2>1, BringsNone
  <1>3. Fits(IdleJob, profile, clashed', stranded', revived)
    BY <1>1, IdleFits, Zenon
  <1> QED  BY <1>1, <1>2, <1>3, IdleFits, MovesInv

LEMMA SyncInv ==
  ASSUME ChecksInv, CacheSync
  PROVE  ChecksInv'
  <1> DEFINE face(u) == IF profile[u].faceRegistered /\ profile[u].face # Null
                        THEN profile[u].face ELSE cachedFace[u]
  <1>1. cachedFace' = [u \in Profiles |-> face(u)]
        /\ UNCHANGED <<accounts, profile, job, handled, clashed, revived, stranded>>
    BY Zenon DEF CacheSync
  <1>2. \A u \in Profiles : face(u) \in Persons \cup {Null}
    BY Typed, SMT DEF ProfileRows
  <1> HIDE DEF face
  <1>3. cachedFace' \in [Profiles -> Persons \cup {Null}]
    BY <1>1, <1>2, Zenon
  <1> QED  BY <1>1, <1>3 DEF ChecksInv, ChecksTypeOK, InStep, Brings, Fits

LEMMA InitChecksInv == ChecksInit => ChecksInv
  <1> SUFFICES ASSUME ChecksInit PROVE ChecksInv
    OBVIOUS
  <1> DEFINE enrolled(p) == [EmptyRow EXCEPT !.face = p, !.faceRegistered = TRUE]
  <1>1. EmptyRow \in ProfileRows /\ ~EmptyRow.faceRegistered
    BY SMT DEF EmptyRow, ProfileRows
  <1>2. ASSUME NEW p \in Persons
        PROVE  enrolled(p) \in ProfileRows /\ enrolled(p).face # Null
    <2>1. p \in Persons \cup {Null} /\ p # Null
      BY ChecksAssumption
    <2> QED  BY <1>1, <2>1, Zenon DEF ProfileRows
  <1>3. profile \in [Profiles -> {EmptyRow} \cup {enrolled(p) : p \in Persons}]
        /\ cachedFace \in [Profiles -> Persons \cup {Null}]
        /\ job = [h \in Callers |-> IdleJob] /\ handled = 0 /\ clashed = {} /\ revived = {}
        /\ accounts \subseteq Profiles /\ stranded = {}
    BY Zenon DEF ChecksInit
  <1> HIDE DEF enrolled
  <1>4. \A u \in Profiles : profile[u] = EmptyRow \/ \E p \in Persons : profile[u] = enrolled(p)
    BY <1>3
  <1>5. profile \in [Profiles -> ProfileRows] /\ InStep
    <2>1. \A u \in Profiles : profile[u] \in ProfileRows
      BY <1>1, <1>2, <1>4, Zenon
    <2>2. InStep
      BY <1>1, <1>2, <1>4, Zenon DEF InStep
    <2> QED  BY <1>3, <2>1, <2>2
  <1>6. job \in [Callers -> Jobs] /\ \A h \in Callers : job[h] = IdleJob
    BY <1>3, IdleFits
  <1>7. handled \in 0..MaxHandled /\ clashed \subseteq Profiles /\ revived \subseteq Profiles
        /\ stranded \subseteq Profiles
    BY <1>3, ChecksAssumption
  <1>8. \A h \in Callers : Fits(job[h], profile, clashed, stranded, revived)
    BY <1>6, IdleFits
  <1> QED  BY <1>3, <1>5, <1>6, <1>7, <1>8, Zenon DEF ChecksInv, ChecksTypeOK

LEMMA NextChecksInv == ChecksInv /\ [ChecksNext]_checkVars => ChecksInv'
  <1> SUFFICES ASSUME ChecksInv, [ChecksNext]_checkVars PROVE ChecksInv'
    OBVIOUS
  <1>1. CASE UNCHANGED checkVars
    BY <1>1 DEF checkVars, ChecksInv, ChecksTypeOK, InStep, Brings, Fits
  <1>2. CASE CacheSync
    BY <1>2, SyncInv
  <1>3. ASSUME NEW h \in Callers, NEW u \in Profiles, NEW p \in Persons,
               \/ PythonEnrollFace(h, u, p) \/ PythonVerifyFace(h, u, p) \/ NestEnrollFace(h, u, p)
               \/ NestCheckFace(h, u, p) \/ NestEnrollPrint(h, u, p)
        PROVE  ChecksInv'
    BY <1>3, BeginsInv
  <1>4. ASSUME NEW h \in Callers, NEW p \in Persons,
               \/ NestIdentify(h, p)
               \/ \E form \in {"image", "text"} : FingerprintLogin(h, form, p)
               \/ \E u \in Profiles : \/ NestVerifyPrint(h, u, p)
                                      \/ \E form \in {"image", "text"} : PythonVerifyPrint(h, u, form, p)
        PROVE  ChecksInv'
    BY <1>4, ComparesInv
  <1>5. ASSUME NEW h \in Callers,
               \/ NestStorePrint(h)
               \/ \E u \in Profiles, form \in {"image", "text"}, p \in Persons :
                    PythonEnrollPrint(h, u, form, p)
        PROVE  ChecksInv'
    BY <1>5, EnrollPrintInv
  <1>6. ASSUME NEW h \in Callers,
               NestRevokeFace(h) \/ \E u \in Profiles : PythonRevoke(h, u) \/ NestRevoke(h, u)
        PROVE  ChecksInv'
    BY <1>6, RevokeInv
  <1>7. ASSUME NEW h \in Callers, NEW u \in Profiles, AdaptiveBlend(h, u) PROVE ChecksInv'
    BY <1>7, BlendInv
  <1>8. ASSUME NEW h \in Callers,
               \/ PythonDuplicate(h) \/ PythonMatchFace(h) \/ NestDuplicateFace(h)
               \/ NestDuplicatePrint(h) \/ NestCompareFace(h) \/ Reject(h)
        PROVE  ChecksInv'
    BY <1>8, StepsInv
  <1>9. ASSUME NEW h \in Callers, PythonStoreFace(h) \/ NestStoreFace(h) PROVE ChecksInv'
    BY <1>9, StoreFaceInv
  <1>10. ASSUME NEW h \in Callers, AdaptiveWrite(h) PROVE ChecksInv'
    BY <1>10, AdaptiveWriteInv
  <1>11. ASSUME NEW h \in Callers, Answered(h) PROVE ChecksInv'
    BY <1>11, AnsweredInv
  <1>12. ASSUME NEW h \in Callers,
                \/ \E u \in Profiles, p \in Persons, gives \in SUBSET {"face", "print"} :
                     PythonRegister(h, u, p, gives) \/ NestRegister(h, u, p, gives)
                \/ PythonJoinFace(h) \/ NestJoinFace(h) \/ NestJoinPrint(h)
        PROVE  ChecksInv'
    BY <1>12, JoinsInv
  <1>13. ASSUME NEW h \in Callers, NEW u \in Profiles, NEW p \in Persons,
                RegisterAdministrator(h, u, p)
        PROVE  ChecksInv'
    BY <1>13, AdministratorInv
  <1>14. ASSUME NEW h \in Callers,
                \/ PythonInsert(h) \/ NestCreate(h)
                \/ NestStoreGivenPrint(h) \/ NestStoreGivenFace(h)
         PROVE  ChecksInv'
    BY <1>14, InsertInv, CreateInv, StoreGivenInv
  <1>15. \A u \in accounts : u \in Profiles
    BY Typed
  <1>16. ASSUME NEW h \in Callers, NEW u \in Profiles, NEW p \in Persons,
                NestVerifyPrint(h, u, p)
                \/ \E form \in {"image", "text"} : PythonEnrollPrint(h, u, form, p)
                                                   \/ PythonVerifyPrint(h, u, form, p)
         PROVE  ChecksInv'
    BY <1>4, <1>5, <1>16, Zenon
  <1> QED
    BY <1>1, <1>2, <1>3, <1>4, <1>5, <1>6, <1>7, <1>8, <1>9, <1>10, <1>11, <1>12, <1>13, <1>14,
       <1>15, <1>16, Zenon DEF ChecksNext

LEMMA ChecksInvariance == ChecksSpec => []ChecksInv
  BY InitChecksInv, NextChecksInv, PTL DEF ChecksSpec

\* Type correctness of the rows, the cache and the requests of both services.
THEOREM ChecksTypeCorrect == ChecksSpec => []ChecksTypeOK
  <1>1. ChecksInv => ChecksTypeOK
    BY DEF ChecksInv
  <1> QED  BY <1>1, ChecksInvariance, PTL

\* A face matches for a user only if the row carried the flag and that face at
\* one moment of the check, or an adaptive enrolment or a registration put the
\* embedding back (app.py, verify_face_biometrics; BiometricsService, verifyFace).
THEOREM MatchNeedsProfileThm == ChecksSpec => []MatchNeedsProfile
  <1>1. ChecksInv => MatchNeedsProfile
    BY Zenon DEF ChecksInv, Fits, MatchNeedsProfile
  <1> QED  BY <1>1, ChecksInvariance, PTL

\* A verification fails on a missing embedding only where requests on one user
\* overlapped, or where the registration of the user set the flag and ended
\* without an embedding (app.py, verify_face_biometrics; AuthService, register).
THEOREM CheckErrorHasCauseThm == ChecksSpec => []CheckErrorHasCause
  <1>1. ChecksInv => CheckErrorHasCause
    BY Zenon DEF ChecksInv, Fits, CheckErrorHasCause
  <1> QED  BY <1>1, ChecksInvariance, PTL

-----------------------------------------------------------------------------
(* Sums over finite sets                                                   *)

Pick(s) == CHOOSE x \in s : TRUE

\* g adds up f over every member of D, in the order Pick takes the elements.
Adds(f, g, D) == g = [s \in D |-> IF s = {} THEN 0 ELSE f[Pick(s)] + g[s \ {Pick(s)}]]

\* The subsets of S with at most n elements.
UpTo(n, S) == {s \in SUBSET S : Cardinality(s) <= n}

\* Induction on a finite set, for a set of its subsets.
LEMMA SubsetsInduct ==
  ASSUME NEW S, IsFiniteSet(S), NEW T \in SUBSET (SUBSET S),
         \A s \in SUBSET S : (\A r \in SUBSET s : r # s => r \in T) => s \in T
  PROVE  T = SUBSET S
  <1> SUFFICES ASSUME (SUBSET S) \ T # {} PROVE FALSE
    OBVIOUS
  <1> DEFINE Rest == (SUBSET S) \ T
  <1>1. IsWellFoundedOn(StrictSubsetOrdering(S), SUBSET S)
    <2>1. FiniteSubsetsOf(S) = SUBSET S
      BY FS_FiniteSubsetsOfFinite
    <2>2. IsWellFoundedOn(StrictSubsetOrdering(S), FiniteSubsetsOf(S))
      BY FS_StrictSubsetOrderingWellFounded
    <2> QED  BY <2>1, <2>2, Zenon
  <1>2. Rest \subseteq SUBSET S /\ Rest # {}
    OBVIOUS
  <1> HIDE DEF Rest
  <1>3. \E s \in Rest : \A r \in Rest : ~ (<<r, s>> \in StrictSubsetOrdering(S))
    BY <1>1, <1>2, WFMin
  <1>4. PICK s \in Rest : \A r \in Rest : ~ (<<r, s>> \in StrictSubsetOrdering(S))
    BY <1>3, Zenon
  <1>5. s \in SUBSET S /\ s \notin T
    BY <1>4 DEF Rest
  <1>6. ASSUME NEW r \in SUBSET s, r # s, r \notin T PROVE FALSE
    <2>1. r \in Rest
      BY <1>5, <1>6 DEF Rest
    <2>2. <<r, s>> \in StrictSubsetOrdering(S)
      <3>1. <<r, s>> \in (SUBSET S) \X (SUBSET S) /\ <<r, s>>[1] = r /\ <<r, s>>[2] = s
        BY <1>5
      <3>2. r \subseteq s
        OBVIOUS
      <3> QED  BY <1>6, <3>1, <3>2, Zenon DEF StrictSubsetOrdering
    <2> QED  BY <1>4, <2>1, <2>2, Zenon
  <1> QED  BY <1>5, <1>6, Zenon

LEMMA PickedIsIn == \A s : s # {} => Pick(s) \in s
  BY Zenon DEF Pick

LEMMA AddsExists ==
  ASSUME NEW S, IsFiniteSet(S), NEW f
  PROVE  \E g : Adds(f, g, SUBSET S)
  <1> DEFINE Has(n) == \E g : Adds(f, g, UpTo(n, S))
             T == {s \in SUBSET S : Has(Cardinality(s))}
  <1>1. \A s \in SUBSET S : IsFiniteSet(s) /\ Cardinality(s) \in Nat /\ Cardinality(s) <= Cardinality(S)
    BY FS_Subset, FS_CardinalityType
  <1>2. Has(0)
    <2> DEFINE g == [s \in UpTo(0, S) |-> 0]
    <2>1. \A s \in UpTo(0, S) : s = {}
      BY <1>1, FS_EmptySet DEF UpTo
    <2>2. g = [s \in UpTo(0, S) |-> IF s = {} THEN 0 ELSE f[Pick(s)] + g[s \ {Pick(s)}]]
      BY <2>1
    <2> QED  BY <2>2 DEF Adds
  <1>3. ASSUME NEW n \in Nat, Has(n) PROVE Has(n + 1)
    <2>1. PICK g : Adds(f, g, UpTo(n, S))
      BY <1>3
    <2> DEFINE h == [s \in UpTo(n + 1, S) |->
                       IF s \in UpTo(n, S) THEN g[s] ELSE f[Pick(s)] + g[s \ {Pick(s)}]]
    <2>2. UpTo(n, S) \subseteq UpTo(n + 1, S)
      BY <1>1 DEF UpTo
    <2>3. ASSUME NEW s \in UpTo(n + 1, S), s # {}
          PROVE  s \ {Pick(s)} \in UpTo(n, S)
      <3>1. Pick(s) \in s /\ s \in SUBSET S /\ Cardinality(s) <= n + 1
        BY <2>3, PickedIsIn DEF UpTo
      <3>2. Cardinality(s \ {Pick(s)}) = Cardinality(s) - 1
        BY <1>1, <3>1, FS_RemoveElement
      <3>3. Cardinality(s \ {Pick(s)}) <= n
        BY <1>1, <3>1, <3>2
      <3> QED  BY <3>1, <3>3 DEF UpTo
    <2>4. {} \in UpTo(n, S)
      BY FS_EmptySet DEF UpTo
    <2>5. \A s \in UpTo(n, S) : g[s] = IF s = {} THEN 0 ELSE f[Pick(s)] + g[s \ {Pick(s)}]
      BY <2>1 DEF Adds
    <2>6. \A s \in UpTo(n, S) : h[s] = g[s]
      BY <2>2
    <2>7. ASSUME NEW s \in UpTo(n + 1, S)
          PROVE  h[s] = IF s = {} THEN 0 ELSE f[Pick(s)] + h[s \ {Pick(s)}]
      <3>1. CASE s = {}
        BY <2>4, <2>5, <2>6, <3>1
      <3>2. CASE s # {}
        <4>1. h[s \ {Pick(s)}] = g[s \ {Pick(s)}]
          BY <2>3, <2>6, <3>2
        <4>2. h[s] = f[Pick(s)] + g[s \ {Pick(s)}]
          BY <2>5, <2>6, <3>2
        <4> QED  BY <3>2, <4>1, <4>2
      <3> QED  BY <3>1, <3>2
    <2>8. h = [s \in UpTo(n + 1, S) |-> h[s]]
      OBVIOUS
    <2> HIDE DEF h
    <2>9. h = [s \in UpTo(n + 1, S) |-> IF s = {} THEN 0 ELSE f[Pick(s)] + h[s \ {Pick(s)}]]
      BY <2>7, <2>8, Zenon
    <2> QED  BY <2>9 DEF Adds
  <1>4. ASSUME NEW s \in SUBSET S, \A r \in SUBSET s : r # s => r \in T
        PROVE  s \in T
    <2> SUFFICES Has(Cardinality(s))
      OBVIOUS
    <2> HIDE DEF Has
    <2>1. CASE s = {}
      BY <1>2, <2>1, FS_EmptySet
    <2>2. CASE s # {}
      <3>1. Pick(s) \in s
        BY <2>2, PickedIsIn
      <3>2. s \ {Pick(s)} \in T
        BY <1>4, <3>1
      <3>3. Cardinality(s \ {Pick(s)}) = Cardinality(s) - 1
        BY <1>1, <3>1, FS_RemoveElement
      <3>4. Has(Cardinality(s) - 1)
        BY <3>2, <3>3
      <3>5. Cardinality(s \ {Pick(s)}) \in Nat /\ Cardinality(s) \in Nat
        BY <1>1
      <3>6. Cardinality(s) - 1 \in Nat /\ (Cardinality(s) - 1) + 1 = Cardinality(s)
        BY <3>3, <3>5
      <3>7. Has((Cardinality(s) - 1) + 1)
        BY <1>3, <3>4, <3>6
      <3> QED  BY <3>6, <3>7
    <2> QED  BY <2>1, <2>2
  <1>5. T = SUBSET S
    <2>1. T \in SUBSET (SUBSET S)
      OBVIOUS
    <2> HIDE DEF T
    <2> QED  BY <1>4, <2>1, SubsetsInduct, Zenon
  <1>6. Has(Cardinality(S))
    <2>1. S \in T
      BY <1>5
    <2> QED  BY <2>1, Zenon
  <1>7. UpTo(Cardinality(S), S) = SUBSET S
    BY <1>1 DEF UpTo
  <1> QED  BY <1>6, <1>7

\* What SumFunction computes: the sum over the empty set is 0, and any element
\* may be taken out of a sum.
LEMMA SumTakesOut ==
  ASSUME NEW S, IsFiniteSet(S), NEW f \in [S -> Int]
  PROVE  \E sum \in [SUBSET S -> Int] :
           /\ sum[{}] = 0
           /\ \A s \in SUBSET S : \A x \in s : sum[s] = f[x] + sum[s \ {x}]
           /\ SumFunction(f) = sum[S]
  <1> DEFINE sum == CHOOSE g : Adds(f, g, SUBSET S)
  <1>1. Adds(f, sum, SUBSET S)
    BY AddsExists, Zenon
  <1>2. SumFunction(f) = sum[S]
    BY Zenon DEF SumFunction, SumFunctionOnSet, FoldFunctionOnSet, MapThenFoldSet, Adds, Pick
  <1> HIDE DEF sum
  <1>3. \A s \in SUBSET S : sum[s] = IF s = {} THEN 0 ELSE f[Pick(s)] + sum[s \ {Pick(s)}]
    BY <1>1 DEF Adds
  <1>4. sum[{}] = 0
    BY <1>3
  <1>5. \A s \in SUBSET S : sum[s] \in Int
    <2> DEFINE T == {s \in SUBSET S : sum[s] \in Int}
    <2>1. ASSUME NEW s \in SUBSET S, \A r \in SUBSET s : r # s => r \in T
          PROVE  s \in T
      <3>1. CASE s = {}
        BY <1>4, <3>1
      <3>2. CASE s # {}
        <4>1. Pick(s) \in s
          BY <3>2, PickedIsIn
        <4>2. s \ {Pick(s)} \in T
          BY <2>1, <4>1
        <4>3. sum[s \ {Pick(s)}] \in Int /\ f[Pick(s)] \in Int
          BY <4>1, <4>2
        <4> QED  BY <1>3, <3>2, <4>3
      <3> QED  BY <3>1, <3>2
    <2> HIDE DEF T
    <2>2. T = SUBSET S
      <3>1. T \in SUBSET (SUBSET S)
        BY DEF T
      <3> QED  BY <2>1, <3>1, SubsetsInduct, Zenon
    <2> QED  BY <2>2 DEF T
  <1>6. sum \in [SUBSET S -> Int]
    <2>1. sum = [s \in SUBSET S |-> sum[s]]
      BY <1>1 DEF Adds
    <2> QED  BY <1>5, <2>1
  <1>7. \A s \in SUBSET S : \A x \in s : sum[s] = f[x] + sum[s \ {x}]
    <2> DEFINE T == {s \in SUBSET S : \A x \in s : sum[s] = f[x] + sum[s \ {x}]}
    <2>1. ASSUME NEW s \in SUBSET S, \A r \in SUBSET s : r # s => r \in T
          PROVE  s \in T
      <3> SUFFICES ASSUME NEW x \in s PROVE sum[s] = f[x] + sum[s \ {x}]
        OBVIOUS
      <3>1. /\ Pick(s) \in s
            /\ sum[s] = f[Pick(s)] + sum[s \ {Pick(s)}]
        BY <1>3, PickedIsIn
      <3>2. CASE x = Pick(s)
        BY <3>1, <3>2
      <3>3. CASE x # Pick(s)
        <4> DEFINE rest == (s \ {x}) \ {Pick(s)}
        <4>1. s \ {x} \in T /\ s \ {Pick(s)} \in T
          BY <2>1, <3>1
        <4>2. (s \ {Pick(s)}) \ {x} = rest /\ rest \in SUBSET S
          BY <3>1
        <4>3. sum[s \ {Pick(s)}] = f[x] + sum[(s \ {Pick(s)}) \ {x}]
          BY <3>1, <3>3, <4>1
        <4>4. sum[s \ {x}] = f[Pick(s)] + sum[rest]
          BY <3>1, <3>3, <4>1
        <4>5. f[x] \in Int /\ f[Pick(s)] \in Int /\ sum[rest] \in Int
          BY <1>5, <3>1, <4>2
        <4>6. sum[s \ {Pick(s)}] = f[x] + sum[rest]
          BY <4>2, <4>3
        <4> HIDE DEF rest
        <4> QED  BY <3>1, <4>4, <4>5, <4>6
      <3> QED  BY <3>2, <3>3
    <2> HIDE DEF T
    <2>2. T = SUBSET S
      <3>1. T \in SUBSET (SUBSET S)
        BY DEF T
      <3> QED  BY <2>1, <3>1, SubsetsInduct, Zenon
    <2> QED  BY <2>2 DEF T
  <1> QED  BY <1>2, <1>4, <1>6, <1>7

\* A sum of naturals is natural, and grows with its summands.
LEMMA SumGrows ==
  ASSUME NEW S, IsFiniteSet(S), NEW f \in [S -> Nat], NEW g \in [S -> Nat],
         \A x \in S : f[x] <= g[x]
  PROVE  SumFunction(f) \in Nat /\ SumFunction(g) \in Nat /\ SumFunction(f) <= SumFunction(g)
  <1>0. f \in [S -> Int] /\ g \in [S -> Int]
    OBVIOUS
  <1>1. PICK low \in [SUBSET S -> Int] :
           /\ low[{}] = 0
           /\ \A s \in SUBSET S : \A x \in s : low[s] = f[x] + low[s \ {x}]
           /\ SumFunction(f) = low[S]
    BY <1>0, SumTakesOut
  <1>2. PICK high \in [SUBSET S -> Int] :
           /\ high[{}] = 0
           /\ \A s \in SUBSET S : \A x \in s : high[s] = g[x] + high[s \ {x}]
           /\ SumFunction(g) = high[S]
    BY <1>0, SumTakesOut
  <1> DEFINE T == {s \in SUBSET S : 0 <= low[s] /\ low[s] <= high[s]}
  <1>3. ASSUME NEW s \in SUBSET S, \A r \in SUBSET s : r # s => r \in T
        PROVE  s \in T
    <2>1. CASE s = {}
      BY <1>1, <1>2, <2>1
    <2>2. CASE s # {}
      <3>1. PICK x \in s : TRUE
        BY <2>2
      <3>2. s \ {x} \in T
        BY <1>3, <3>1
      <3>3. f[x] \in Nat /\ g[x] \in Nat /\ f[x] <= g[x] /\ s \ {x} \in SUBSET S
        BY <3>1
      <3>4. low[s] = f[x] + low[s \ {x}] /\ high[s] = g[x] + high[s \ {x}]
        BY <1>1, <1>2, <3>1
      <3>5. low[s \ {x}] \in Int /\ high[s \ {x}] \in Int
        BY <1>1, <1>2, <3>3
      <3>6. 0 <= low[s \ {x}] /\ low[s \ {x}] <= high[s \ {x}]
        BY <3>2
      <3>7. 0 <= low[s] /\ low[s] <= high[s]
        BY <3>3, <3>4, <3>5, <3>6
      <3> QED  BY <3>7
    <2> QED  BY <2>1, <2>2
  <1> HIDE DEF T
  <1>4. T = SUBSET S
    <2>1. T \in SUBSET (SUBSET S)
      BY DEF T
    <2> QED  BY <1>3, <2>1, SubsetsInduct, Zenon
  <1>5. S \in T
    BY <1>4
  <1>6. low[S] \in Int /\ high[S] \in Int /\ 0 <= low[S] /\ low[S] <= high[S]
    BY <1>5 DEF T
  <1> QED  BY <1>1, <1>2, <1>6

-----------------------------------------------------------------------------
(* The verdicts on a frame                                                 *)

LiveSigns == {"texture", "specular", "skin"}
SpoofSigns == {"moire", "pixel", "corneal", "depth", "chroma"}

\* A frame has been judged by one of the three analyses, or not yet; the scores
\* explain the verdict.
CaptureInv ==
    \/ seen = NoFrame
    \/ seen \in [LiveSigns -> Percent] /\ verdict = IF IsLive(seen) THEN "live" ELSE "not_live"
    \/ seen \in [SpoofSigns -> Percent] /\ verdict = AttackType(seen)
    \/ seen \in [Equipment -> Percent]

\* Passive liveness weighs texture as much as the two others together.
LEMMA LiveComposite ==
  ASSUME NEW score \in [LiveSigns -> Percent]
  PROVE  Composite(score, TextureWeight)
           = 50 * score["texture"] + 25 * score["specular"] + 25 * score["skin"]
<1> DEFINE f == [s \in DOMAIN TextureWeight |-> score[s] * TextureWeight[s]]
<1>1. DOMAIN TextureWeight = LiveSigns
  BY DEF TextureWeight, LiveSigns
<1>2. \A s \in LiveSigns : score[s] \in Int
  BY DEF Percent
<1>3. /\ f["texture"] = score["texture"] * 50 /\ f["specular"] = score["specular"] * 25
      /\ f["skin"] = score["skin"] * 25
  BY DEF TextureWeight
<1>4. f \in [LiveSigns -> Int]
  BY <1>1, <1>2 DEF TextureWeight, LiveSigns
<1>5. Composite(score, TextureWeight) = SumFunction(f)
  BY DEF Composite
<1> HIDE DEF f
<1>6. SumFunction(f) = f["texture"] + f["specular"] + f["skin"]
  <2>1. IsFiniteSet(LiveSigns)
    <3>1. IsFiniteSet({"texture"}) /\ IsFiniteSet({"specular"}) /\ IsFiniteSet({"skin"})
      BY FS_Singleton
    <3>2. IsFiniteSet({"texture"} \cup {"specular"})
      BY <3>1, FS_Union
    <3>3. IsFiniteSet(({"texture"} \cup {"specular"}) \cup {"skin"})
      BY <3>1, <3>2, FS_Union
    <3> QED  BY <3>3 DEF LiveSigns
  <2>2. PICK sum \in [SUBSET LiveSigns -> Int] :
          /\ sum[{}] = 0
          /\ \A s \in SUBSET LiveSigns : \A x \in s : sum[s] = f[x] + sum[s \ {x}]
          /\ SumFunction(f) = sum[LiveSigns]
    BY <1>4, <2>1, SumTakesOut
  <2>3. sum[{"texture", "specular", "skin"}] = f["texture"] + sum[{"specular", "skin"}]
    <3>1. {"texture", "specular", "skin"} \in SUBSET LiveSigns /\ "texture" \in {"texture", "specular", "skin"} /\ {"texture", "specular", "skin"} \ {"texture"} = {"specular", "skin"}
      BY DEF LiveSigns
    <3> QED  BY <2>2, <3>1, Zenon
  <2>4. sum[{"specular", "skin"}] = f["specular"] + sum[{"skin"}]
    <3>1. {"specular", "skin"} \in SUBSET LiveSigns /\ "specular" \in {"specular", "skin"} /\ {"specular", "skin"} \ {"specular"} = {"skin"}
      BY DEF LiveSigns
    <3> QED  BY <2>2, <3>1, Zenon
  <2>5. sum[{"skin"}] = f["skin"] + sum[{}]
    <3>1. {"skin"} \in SUBSET LiveSigns /\ "skin" \in {"skin"} /\ {"skin"} \ {"skin"} = {}
      BY DEF LiveSigns
    <3> QED  BY <2>2, <3>1, Zenon
  <2>6. sum[{}] = 0 /\ SumFunction(f) = sum[{"texture", "specular", "skin"}]
    BY <2>2 DEF LiveSigns
  <2>7. f["texture"] \in Int /\ f["specular"] \in Int /\ f["skin"] \in Int
    BY <1>4 DEF LiveSigns
  <2> QED  BY <2>3, <2>4, <2>5, <2>6, <2>7
<1> QED  BY <1>2, <1>3, <1>5, <1>6 DEF LiveSigns

LEMMA SpoofComposite ==
  ASSUME NEW score \in [SpoofSigns -> Percent]
  PROVE  Composite(score, SpoofWeight)
           = 25 * score["moire"] + 15 * score["pixel"] + 25 * score["corneal"]
               + 20 * score["depth"] + 15 * score["chroma"]
<1> DEFINE f == [s \in DOMAIN SpoofWeight |-> score[s] * SpoofWeight[s]]
<1>1. DOMAIN SpoofWeight = SpoofSigns
  BY DEF SpoofWeight, SpoofSigns
<1>2. \A s \in SpoofSigns : score[s] \in Int
  BY DEF Percent
<1>3. /\ f["moire"] = score["moire"] * 25 /\ f["pixel"] = score["pixel"] * 15
      /\ f["corneal"] = score["corneal"] * 25 /\ f["depth"] = score["depth"] * 20
      /\ f["chroma"] = score["chroma"] * 15
  BY DEF SpoofWeight
<1>4. f \in [SpoofSigns -> Int]
  BY <1>1, <1>2 DEF SpoofWeight, SpoofSigns
<1>5. Composite(score, SpoofWeight) = SumFunction(f)
  BY DEF Composite
<1> HIDE DEF f
<1>6. SumFunction(f) = f["moire"] + f["pixel"] + f["corneal"] + f["depth"] + f["chroma"]
  <2>1. IsFiniteSet(SpoofSigns)
    <3>1. IsFiniteSet({"moire"}) /\ IsFiniteSet({"pixel"}) /\ IsFiniteSet({"corneal"}) /\ IsFiniteSet({"depth"}) /\ IsFiniteSet({"chroma"})
      BY FS_Singleton
    <3>2. IsFiniteSet({"moire"} \cup {"pixel"})
      BY <3>1, FS_Union
    <3>3. IsFiniteSet(({"moire"} \cup {"pixel"}) \cup {"corneal"})
      BY <3>1, <3>2, FS_Union
    <3>4. IsFiniteSet((({"moire"} \cup {"pixel"}) \cup {"corneal"}) \cup {"depth"})
      BY <3>1, <3>3, FS_Union
    <3>5. IsFiniteSet(((({"moire"} \cup {"pixel"}) \cup {"corneal"}) \cup {"depth"}) \cup {"chroma"})
      BY <3>1, <3>4, FS_Union
    <3> QED  BY <3>5 DEF SpoofSigns
  <2>2. PICK sum \in [SUBSET SpoofSigns -> Int] :
          /\ sum[{}] = 0
          /\ \A s \in SUBSET SpoofSigns : \A x \in s : sum[s] = f[x] + sum[s \ {x}]
          /\ SumFunction(f) = sum[SpoofSigns]
    BY <1>4, <2>1, SumTakesOut
  <2>3. sum[{"moire", "pixel", "corneal", "depth", "chroma"}] = f["moire"] + sum[{"pixel", "corneal", "depth", "chroma"}]
    <3>1. {"moire", "pixel", "corneal", "depth", "chroma"} \in SUBSET SpoofSigns /\ "moire" \in {"moire", "pixel", "corneal", "depth", "chroma"} /\ {"moire", "pixel", "corneal", "depth", "chroma"} \ {"moire"} = {"pixel", "corneal", "depth", "chroma"}
      BY DEF SpoofSigns
    <3> QED  BY <2>2, <3>1, Zenon
  <2>4. sum[{"pixel", "corneal", "depth", "chroma"}] = f["pixel"] + sum[{"corneal", "depth", "chroma"}]
    <3>1. {"pixel", "corneal", "depth", "chroma"} \in SUBSET SpoofSigns /\ "pixel" \in {"pixel", "corneal", "depth", "chroma"} /\ {"pixel", "corneal", "depth", "chroma"} \ {"pixel"} = {"corneal", "depth", "chroma"}
      BY DEF SpoofSigns
    <3> QED  BY <2>2, <3>1, Zenon
  <2>5. sum[{"corneal", "depth", "chroma"}] = f["corneal"] + sum[{"depth", "chroma"}]
    <3>1. {"corneal", "depth", "chroma"} \in SUBSET SpoofSigns /\ "corneal" \in {"corneal", "depth", "chroma"} /\ {"corneal", "depth", "chroma"} \ {"corneal"} = {"depth", "chroma"}
      BY DEF SpoofSigns
    <3> QED  BY <2>2, <3>1, Zenon
  <2>6. sum[{"depth", "chroma"}] = f["depth"] + sum[{"chroma"}]
    <3>1. {"depth", "chroma"} \in SUBSET SpoofSigns /\ "depth" \in {"depth", "chroma"} /\ {"depth", "chroma"} \ {"depth"} = {"chroma"}
      BY DEF SpoofSigns
    <3> QED  BY <2>2, <3>1, Zenon
  <2>7. sum[{"chroma"}] = f["chroma"] + sum[{}]
    <3>1. {"chroma"} \in SUBSET SpoofSigns /\ "chroma" \in {"chroma"} /\ {"chroma"} \ {"chroma"} = {}
      BY DEF SpoofSigns
    <3> QED  BY <2>2, <3>1, Zenon
  <2>8. sum[{}] = 0 /\ SumFunction(f) = sum[{"moire", "pixel", "corneal", "depth", "chroma"}]
    BY <2>2 DEF SpoofSigns
  <2>9. f["moire"] \in Int /\ f["pixel"] \in Int /\ f["corneal"] \in Int /\ f["depth"] \in Int /\ f["chroma"] \in Int
    BY <1>4 DEF SpoofSigns
  <2> QED  BY <2>3, <2>4, <2>5, <2>6, <2>7, <2>8, <2>9
<1> QED  BY <1>2, <1>3, <1>5, <1>6 DEF SpoofSigns

-----------------------------------------------------------------------------
LEMMA ClippedType == \A n \in Int : Clipped(n) \in Percent
BY DEF Clipped, Percent

LEMMA PassiveLivenessKeeps == PassiveLiveness => CaptureInv'
<1> SUFFICES ASSUME PassiveLiveness PROVE CaptureInv'
  OBVIOUS
<1>1. PICK variance \in {-1, 0, 100, 400, 500, 900}, bright \in {-1, 0, 4, 5, 80, 140, 200},
           skin \in {[ratio |-> -1, spread |-> 0], [ratio |-> 5, spread |-> 60]}
                      \cup {[ratio |-> 40, spread |-> s] : s \in {0, 15, 60}} :
             seen' = [texture |-> TextureScore(variance), specular |-> SpecularScore(bright),
                      skin |-> SkinScore(skin)]
  BY Zenon DEF PassiveLiveness
<1>2. TextureScore(variance) \in Percent
  BY ClippedType DEF TextureScore, Percent
<1>3. SpecularScore(bright) \in Percent
  BY DEF SpecularScore, Percent, Clipped
<1>4. SkinScore(skin) \in Percent
  <2>1. skin.ratio \in {-1, 5, 40} /\ skin.spread \in {0, 15, 60}
    OBVIOUS
  <2> QED  BY <2>1 DEF SkinScore, Percent, Clipped
<1>5. seen' \in [LiveSigns -> Percent]
  BY <1>1, <1>2, <1>3, <1>4 DEF LiveSigns
<1>6. verdict' = IF IsLive(seen') THEN "live" ELSE "not_live"
  BY DEF PassiveLiveness
<1> QED  BY <1>5, <1>6 DEF CaptureInv

LEMMA AntispoofKeepsCapture == Antispoof => CaptureInv'
<1> SUFFICES ASSUME Antispoof PROVE CaptureInv'
  OBVIOUS
<1>1. PICK peaks \in {-1, 0, 19, 31}, corr \in {-1, 50, 65, 81}, bright \in {-1, 1, 2, 70, 100},
           std \in {-1, 7, 12, 16, 26},
           d \in [rg : {-1, 10, 20, 41}, rb : {1, 20}] :
             seen' = [moire |-> MoireScore(peaks), pixel |-> PixelGridScore(corr),
                      corneal |-> CornealScore(bright), depth |-> DepthScore(std),
                      chroma |-> ChromaScore(d)]
  BY DEF Antispoof
<1>2. MoireScore(peaks) \in Percent
  BY DEF MoireScore, OrNeutral, Percent
<1>3. PixelGridScore(corr) \in Percent
  BY DEF PixelGridScore, OrNeutral, Percent, Clipped
<1>4. CornealScore(bright) \in Percent
  BY DEF CornealScore, OrNeutral, Percent, Clipped
<1>5. DepthScore(std) \in Percent
  BY DEF DepthScore, OrNeutral, Percent
<1>6. ChromaScore(d) \in Percent
  <2>1. d.rg \in {-1, 10, 20, 41} /\ d.rb \in {1, 20}
    OBVIOUS
  <2> QED  BY <2>1 DEF ChromaScore, OrNeutral, Percent, Clipped
<1>7. seen' \in [SpoofSigns -> Percent]
  BY <1>1, <1>2, <1>3, <1>4, <1>5, <1>6 DEF SpoofSigns
<1>8. verdict' = AttackType(seen')
  BY DEF Antispoof
<1> QED  BY <1>7, <1>8 DEF CaptureInv

LEMMA CheckPPEKeeps == CheckPPE => CaptureInv'
<1> SUFFICES ASSUME CheckPPE PROVE CaptureInv'
  OBVIOUS
<1>1. PICK helmet \in {0, 2, 3, 15}, vest \in {0, 4, 5, 25}, skin \in {0, 11, 12, 50} :
        seen' = [HELMET |-> helmet, VEST |-> vest, MASK |-> skin]
  BY Zenon DEF CheckPPE
<1>2. helmet \in Percent /\ vest \in Percent /\ skin \in Percent
  BY DEF Percent
<1>3. seen' \in [Equipment -> Percent]
  BY <1>1, <1>2 DEF Equipment
<1> QED  BY <1>3 DEF CaptureInv

LEMMA CaptureInvariant == CaptureSpec => []CaptureInv
<1>1. CaptureInit => CaptureInv
  BY DEF CaptureInit, CaptureInv
<1>2. CaptureInv /\ [CaptureNext]_captureVars => CaptureInv'
  <2>1. CaptureInv /\ UNCHANGED captureVars => CaptureInv'
    BY DEF CaptureInv, captureVars, IsLive, AttackType, Composite
  <2> QED  BY <2>1, PassiveLivenessKeeps, AntispoofKeepsCapture, CheckPPEKeeps DEF CaptureNext
<1> QED  BY <1>1, <1>2, PTL DEF CaptureSpec

LEMMA CaptureInvIsTyped == CaptureInv => CaptureTypeOK
BY DEF CaptureInv, CaptureTypeOK, NoFrame

\* Variables of the verdicts have their types.
THEOREM CaptureTypeCorrect == CaptureSpec => []CaptureTypeOK
<1> QED  BY CaptureInvIsTyped, CaptureInvariant, PTL

\* Whatever the scores of a frame, one analysis that disagrees with all others does
\* not decide the verdict, but for the texture that passive liveness weighs most
\* (face_auth.py, check_liveness_texture; antispoof.py, analyze_antispoof).
THEOREM NoSignalAloneHolds == CaptureSpec => []NoSignalAlone
<1>1. CaptureInv => NoSignalAlone
  <2> SUFFICES ASSUME CaptureInv, NEW s \in DOMAIN seen \ Equipment
               PROVE  /\ Others(s, 100) => verdict \in {"live", "LIVE"}
                      /\ Others(s, 0) /\ s # "texture" => verdict \notin {"live", "LIVE"}
    BY DEF NoSignalAlone
  <2>1. CASE seen = NoFrame
    BY <2>1 DEF NoFrame
  <2>2. CASE seen \in [LiveSigns -> Percent] /\ verdict = IF IsLive(seen) THEN "live" ELSE "not_live"
    <3> DEFINE t == seen["texture"]
               p == seen["specular"]
               k == seen["skin"]
    <3>1. t \in Percent /\ p \in Percent /\ k \in Percent
      BY <2>2 DEF LiveSigns
    <3>2. Composite(seen, TextureWeight) = 50 * t + 25 * p + 25 * k
      BY <2>2, LiveComposite
    <3>3. s \in LiveSigns /\ DOMAIN seen = LiveSigns
      BY <2>2
    <3>4. ASSUME NEW n, Others(s, n)
          PROVE  /\ s = "texture" => p = n /\ k = n
                 /\ s = "specular" => t = n /\ k = n
                 /\ s = "skin" => t = n /\ p = n
      BY <3>3, <3>4 DEF Others, LiveSigns
    <3>5. IsLive(seen) <=> 50 * t + 25 * p + 25 * k >= 4000
      BY <3>2 DEF IsLive
    <3> HIDE DEF t, p, k
    <3>6. Others(s, 100) => 50 * t + 25 * p + 25 * k >= 4000
      BY <3>1, <3>3, <3>4 DEF LiveSigns, Percent
    <3>7. Others(s, 0) /\ s # "texture" => ~ (50 * t + 25 * p + 25 * k >= 4000)
      BY <3>1, <3>3, <3>4 DEF LiveSigns, Percent
    <3> QED  BY <2>2, <3>5, <3>6, <3>7
  <2>3. CASE seen \in [SpoofSigns -> Percent] /\ verdict = AttackType(seen)
    <3> DEFINE m == seen["moire"]
               p == seen["pixel"]
               c == seen["corneal"]
               d == seen["depth"]
               h == seen["chroma"]
               total == 25 * m + 15 * p + 25 * c + 20 * d + 15 * h
    <3>1. m \in Percent /\ p \in Percent /\ c \in Percent /\ d \in Percent /\ h \in Percent
      BY <2>3 DEF SpoofSigns
    <3>2. Composite(seen, SpoofWeight) = total
      BY <2>3, SpoofComposite
    <3>3. s \in SpoofSigns /\ DOMAIN seen = SpoofSigns
      BY <2>3
    <3>4. ASSUME NEW n, Others(s, n)
          PROVE  /\ s = "moire" => p = n /\ c = n /\ d = n /\ h = n
                 /\ s = "pixel" => m = n /\ c = n /\ d = n /\ h = n
                 /\ s = "corneal" => m = n /\ p = n /\ d = n /\ h = n
                 /\ s = "depth" => m = n /\ p = n /\ c = n /\ h = n
                 /\ s = "chroma" => m = n /\ p = n /\ c = n /\ d = n
      BY <3>3, <3>4 DEF Others, SpoofSigns
    <3>5. (verdict = "LIVE" <=> total >= 5000) /\ verdict # "live"
      <4> HIDE DEF total
      <4>1. Composite(seen, SpoofWeight) >= 50 * 100 <=> total >= 5000
        BY <3>2
      <4>2. AttackType(seen) = "LIVE" <=> Composite(seen, SpoofWeight) >= 50 * 100
        BY DEF AttackType
      <4>3. AttackType(seen) # "live"
        BY DEF AttackType
      <4> QED  BY <2>3, <4>1, <4>2, <4>3
    <3> HIDE DEF m, p, c, d, h
    <3>6. Others(s, 100) => total >= 5000
      BY <3>1, <3>3, <3>4 DEF SpoofSigns, Percent
    <3>7. Others(s, 0) => ~ (total >= 5000)
      BY <3>1, <3>3, <3>4 DEF SpoofSigns, Percent
    <3> QED  BY <3>5, <3>6, <3>7
  <2>4. CASE seen \in [Equipment -> Percent]
    BY <2>4
  <2> QED  BY <2>1, <2>2, <2>3, <2>4 DEF CaptureInv
<1> QED  BY <1>1, CaptureInvariant, PTL

-----------------------------------------------------------------------------
(* Risk score and watchlist                                                *)

\* The stored score is at least what the rows amount to now, a worker has a
\* row of the score as soon as there is one of the log, and the tenant of the
\* row is the one the first charge named.
ScoresCoverTheLog ==
    \A w \in Staff :
      /\ DecayedScore(w, riskLog, hour) <= riskScore[w].score
      /\ ~riskScore[w].exists => RowsOf(w, riskLog) = {}
      /\ first[w] = riskScore[w].tenant

\* A scan that alerted has one worker to charge.
OneIsOwed ==
    \A r \in Requests :
      request[r].pc \in {"charge", "wait"} /\ request[r].event = "WATCHLIST_HIT" =>
        \E w \in Staff : request[r].whom = {w}

EdgeInv ==
    /\ EdgeTypeOK
    /\ ScoresCoverTheLog
    /\ OneIsOwed
    /\ HitsAreCharged

Scores == 0..1200
LogRow == [user : Staff, event : RiskEvents, at : Hours]
EdgeRequest == [pc : {"new", "charge", "wait", "done", "failed"}, event : RiskEvents,
                whom : SUBSET Staff, tenant : BOOLEAN, at : Hours]
ScoreRow == [score : Scores, tenant : BOOLEAN, exists : BOOLEAN]

\* A request whose hit has not been charged.
Uncharged(q) == q.pc \in {"charge", "wait", "failed"} /\ q.event = "WATCHLIST_HIT"
Owed == {r \in Requests : Uncharged(request[r])}
Charging(e, log) == {i \in DOMAIN log : log[i].event = e}

-----------------------------------------------------------------------------
(* Scores                                                                  *)

Decayed(row, time) == Weight[row.event] * (12 - Capped(time - row.at, 12))
Summands(w, log, time) == [i \in RowsOf(w, log) |-> Decayed(log[i], time)]

LEMMA DecayedScoreIsSum ==
  \A w, log, time : DecayedScore(w, log, time) = Capped(SumFunction(Summands(w, log, time)), 1200)
BY DEF DecayedScore, Summands, Decayed

\* What a row adds to the score is a number, and less of it later.
LEMMA DecayedShrinks ==
  ASSUME NEW row \in LogRow, NEW time \in Hours, NEW later \in Hours, time <= later
  PROVE  Decayed(row, later) \in Nat /\ Decayed(row, time) \in Nat
         /\ Decayed(row, later) <= Decayed(row, time)
<1>1. row.at \in Int /\ time \in Int /\ later \in Int
  BY EdgeAssumption DEF LogRow, Hours
<1>2. row.event \in {"WATCHLIST_HIT", "SPOOF_ATTEMPT", "DUPLICATE_IDENTITY", "FAILED_FACE_MATCH"}
  BY DEF LogRow, RiskEvents, Weight
<1>3. Weight[row.event] \in {40, 20, 35, 5}
  BY <1>2 DEF Weight
<1> DEFINE weight == Weight[row.event]
           present == 12 - Capped(time - row.at, 12)
           then == 12 - Capped(later - row.at, 12)
<1>4. present \in Nat /\ then \in Nat /\ then <= present
  BY <1>1 DEF Capped
<1>5. Decayed(row, later) = weight * then /\ Decayed(row, time) = weight * present
  BY DEF Decayed
<1> HIDE DEF present, then, weight
<1>6. weight \in {40, 20, 35, 5}
  BY <1>3 DEF weight
<1> QED
  <2>1. CASE weight = 40  BY <1>4, <1>5, <2>1
  <2>2. CASE weight = 20  BY <1>4, <1>5, <2>2
  <2>3. CASE weight = 35  BY <1>4, <1>5, <2>3
  <2>4. CASE weight = 5   BY <1>4, <1>5, <2>4
  <2> QED  BY <1>6, <2>1, <2>2, <2>3, <2>4

LEMMA RowsAreFinite ==
  ASSUME NEW log \in Seq(LogRow), NEW w
  PROVE  /\ IsFiniteSet(RowsOf(w, log))
         /\ \A i \in RowsOf(w, log) : log[i] \in LogRow
<1>1. DOMAIN log = 1..Len(log) /\ Len(log) \in Nat /\ \A i \in DOMAIN log : log[i] \in LogRow
  OBVIOUS
<1>2. IsFiniteSet(1..Len(log))
  BY <1>1, FS_Interval
<1>3. RowsOf(w, log) \subseteq 1..Len(log)
  BY <1>1 DEF RowsOf
<1>4. IsFiniteSet(RowsOf(w, log))
  BY <1>2, <1>3, FS_Subset
<1> QED  BY <1>1, <1>4 DEF RowsOf

\* A score is one that can be stored, and never rises with the time.
LEMMA ScoreShrinks ==
  ASSUME NEW log \in Seq(LogRow), NEW w, NEW time \in Hours, NEW later \in Hours, time <= later
  PROVE  /\ DecayedScore(w, log, later) \in Scores
         /\ DecayedScore(w, log, time) \in Scores
         /\ DecayedScore(w, log, later) <= DecayedScore(w, log, time)
<1> DEFINE S == RowsOf(w, log)
           f == Summands(w, log, later)
           g == Summands(w, log, time)
<1>1. IsFiniteSet(S) /\ \A i \in S : log[i] \in LogRow
  BY RowsAreFinite
<1>2. \A i \in S : Decayed(log[i], later) \in Nat /\ Decayed(log[i], time) \in Nat
                   /\ Decayed(log[i], later) <= Decayed(log[i], time)
  BY <1>1, DecayedShrinks
<1>3. f \in [S -> Nat] /\ g \in [S -> Nat] /\ \A i \in S : f[i] <= g[i]
  BY <1>2 DEF Summands
<1> DEFINE low == SumFunction(f)
           high == SumFunction(g)
<1> HIDE DEF S, f, g
<1>4. low \in Nat /\ high \in Nat /\ low <= high
  BY <1>1, <1>3, SumGrows
<1>5. /\ DecayedScore(w, log, later) = Capped(low, 1200)
      /\ DecayedScore(w, log, time) = Capped(high, 1200)
  BY DecayedScoreIsSum DEF f, g
<1> HIDE DEF low, high
<1>6. Capped(low, 1200) \in Scores /\ Capped(high, 1200) \in Scores
      /\ Capped(low, 1200) <= Capped(high, 1200)
  BY <1>4 DEF Capped, Scores
<1> QED  BY <1>5, <1>6

LEMMA ScoreType ==
  ASSUME NEW log \in Seq(LogRow), NEW w, NEW time \in Hours
  PROVE  DecayedScore(w, log, time) \in Scores
<1>1. PICK later \in Hours : time <= later
  BY EdgeAssumption DEF Hours
<1> QED  BY <1>1, ScoreShrinks

\* No rows, no score.
LEMMA NoRowsNoScore ==
  ASSUME NEW log \in Seq(LogRow), NEW w, NEW time, RowsOf(w, log) = {}
  PROVE  DecayedScore(w, log, time) = 0
<1> DEFINE f == Summands(w, log, time)
<1>1. f \in [{} -> Int]
  BY DEF Summands
<1>2. IsFiniteSet({})
  BY FS_EmptySet
<1> HIDE DEF f
<1>3. SumFunction(f) = 0
  <2> DEFINE S == {}
  <2>1. f \in [S -> Int] /\ IsFiniteSet(S)
    BY <1>1, <1>2
  <2> HIDE DEF S
  <2>2. PICK sum \in [SUBSET S -> Int] : sum[{}] = 0 /\ SumFunction(f) = sum[S]
    BY <2>1, SumTakesOut
  <2> QED  BY <2>2 DEF S
<1>4. DecayedScore(w, log, time) = Capped(SumFunction(f), 1200)
  BY DecayedScoreIsSum DEF f
<1> QED  BY <1>3, <1>4 DEF Capped

\* A row of another worker changes nothing.
LEMMA OthersRow ==
  ASSUME NEW log \in Seq(LogRow), NEW row \in LogRow, NEW w, row.user # w, NEW time
  PROVE  /\ RowsOf(w, Append(log, row)) = RowsOf(w, log)
         /\ DecayedScore(w, Append(log, row), time) = DecayedScore(w, log, time)
<1> DEFINE long == Append(log, row)
<1>1. /\ DOMAIN log = 1..Len(log) /\ DOMAIN long = 1..(Len(log) + 1) /\ Len(log) \in Nat
      /\ \A i \in DOMAIN log : long[i] = log[i]
      /\ long[Len(log) + 1] = row
  OBVIOUS
<1>2. \A i \in DOMAIN long : i \in DOMAIN log \/ i = Len(log) + 1
  BY <1>1
<1> HIDE DEF long
<1>3. RowsOf(w, long) = RowsOf(w, log)
  BY <1>1, <1>2 DEF RowsOf
<1>4. \A i \in RowsOf(w, log) : long[i] = log[i]
  BY <1>1 DEF RowsOf
<1>5. Summands(w, long, time) = Summands(w, log, time)
  BY <1>3, <1>4 DEF Summands
<1>6. DecayedScore(w, long, time) = DecayedScore(w, log, time)
  BY <1>5, DecayedScoreIsSum
<1> QED  BY <1>3, <1>6 DEF long

LEMMA LevelGrows ==
  ASSUME NEW score \in Int, NEW other \in Int, score <= other
  PROVE  RiskLevel(score) >= HighRisk => RiskLevel(other) >= HighRisk
BY DEF RiskLevel, HighRisk

-----------------------------------------------------------------------------
(* Rows with an event                                                      *)

LEMMA ChargesAfter ==
  ASSUME NEW log \in Seq(LogRow), NEW row \in LogRow, NEW e
  PROVE  LET before == Charging(e, log)
             after == Charging(e, Append(log, row))
         IN /\ IsFiniteSet(before) /\ Cardinality(before) \in Nat
            /\ Cardinality(after) = Cardinality(before) + (IF row.event = e THEN 1 ELSE 0)
<1> DEFINE long == Append(log, row)
           n == Len(log) + 1
<1>1. /\ DOMAIN log = 1..Len(log) /\ DOMAIN long = 1..n /\ Len(log) \in Nat
      /\ \A i \in DOMAIN log : long[i] = log[i]
      /\ long[n] = row
  OBVIOUS
<1>2. \A i \in DOMAIN long : i \in DOMAIN log \/ i = n
  BY <1>1
<1>3. n \notin DOMAIN log /\ n \in DOMAIN long /\ DOMAIN log \subseteq DOMAIN long
  BY <1>1
<1>4. IsFiniteSet(DOMAIN log)
  BY <1>1, FS_Interval
<1> HIDE DEF long, n
<1>5. Charging(e, log) \subseteq DOMAIN log
  BY DEF Charging
<1>6. IsFiniteSet(Charging(e, log)) /\ Cardinality(Charging(e, log)) \in Nat
  BY <1>4, <1>5, FS_Subset, FS_CardinalityType
<1>7. CASE row.event = e
  <2>1. Charging(e, long) = Charging(e, log) \cup {n}
    BY <1>1, <1>2, <1>3, <1>7 DEF Charging
  <2>2. n \notin Charging(e, log)
    BY <1>3, <1>5
  <2>3. Cardinality(Charging(e, long)) = Cardinality(Charging(e, log)) + 1
    BY <1>6, <2>1, <2>2, FS_AddElement
  <2> QED  BY <1>6, <1>7, <2>3 DEF long
<1>8. CASE row.event # e
  <2>1. Charging(e, long) = Charging(e, log)
    BY <1>1, <1>2, <1>3, <1>8 DEF Charging
  <2> QED  BY <1>6, <1>8, <2>1 DEF long
<1> QED  BY <1>7, <1>8

-----------------------------------------------------------------------------
(* Types                                                                   *)

LEMMA EdgeShapes ==
  /\ RiskEvents = {"WATCHLIST_HIT", "SPOOF_ATTEMPT", "DUPLICATE_IDENTITY", "FAILED_FACE_MATCH"}
  /\ FirstHour \in Hours
  /\ NewRequest \in EdgeRequest
  /\ NoRow \in ScoreRow
<1>1. RiskEvents = {"WATCHLIST_HIT", "SPOOF_ATTEMPT", "DUPLICATE_IDENTITY", "FAILED_FACE_MATCH"}
  BY DEF RiskEvents, Weight
<1>2. FirstHour \in Hours
  BY EdgeAssumption DEF Hours
<1>3. NewRequest \in EdgeRequest
  BY <1>1, <1>2 DEF NewRequest, EdgeRequest
<1>4. NoRow \in ScoreRow
  BY DEF NoRow, ScoreRow, Scores
<1> QED  BY <1>1, <1>2, <1>3, <1>4

LEMMA ScoreRowFields ==
  \A row \in ScoreRow : row.score \in Scores /\ row.tenant \in BOOLEAN /\ row.exists \in BOOLEAN
BY Zenon DEF ScoreRow

\* The invariant's type part, with the sets of the lemmas.
LEMMA EdgeTypes ==
  EdgeTypeOK <=> /\ hour \in Hours
                 /\ copies \in [People -> 0..MaxCopies]
                 /\ hits \in Nat
                 /\ riskLog \in Seq(LogRow)
                 /\ riskScore \in [Staff -> ScoreRow]
                 /\ entered \in [Staff -> [count : Nat, total : Nat]]
                 /\ request \in [Requests -> EdgeRequest]
                 /\ first \in [Staff -> BOOLEAN]
BY DEF EdgeTypeOK, LogRow, ScoreRow, Scores, EdgeRequest

LEMMA OwingType ==
  ASSUME NEW e \in RiskEvents, NEW W \in SUBSET Staff, NEW t \in BOOLEAN
  PROVE  /\ Owing(e, W, t) \in EdgeRequest
         /\ Owing(e, W, t).pc = "charge" /\ Owing(e, W, t).event = e /\ Owing(e, W, t).whom = W
BY EdgeShapes DEF Owing, NewRequest, EdgeRequest

\* The entries about one person alone leave no room when there are MaxCopies.
LEMMA RoomForCopy ==
  ASSUME EdgeTypeOK, NEW p \in People
  PROVE  /\ Cardinality(Entries) \in Nat /\ copies[p] \in Nat
         /\ copies[p] <= Cardinality(Entries)
<1>1. copies[p] \in 0..MaxCopies /\ MaxCopies \in Nat /\ copies[p] \in Nat
  BY EdgeAssumption DEF EdgeTypeOK
<1>2. IsFiniteSet(Entries)
  <2>1. IsFiniteSet(Staff)
    BY EdgeAssumption
  <2>2. IsFiniteSet(People)
    BY <2>1, FS_AddElement DEF People
  <2>3. IsFiniteSet(1..MaxCopies)
    BY <1>1, FS_Interval
  <2>4. IsFiniteSet(People \X (1..MaxCopies))
    BY <2>2, <2>3, FS_Product
  <2>5. Entries \subseteq People \X (1..MaxCopies)
    BY DEF Entries
  <2> QED  BY <2>4, <2>5, FS_Subset
<1> DEFINE own == {p} \X (1..copies[p])
<1>3. own \subseteq Entries
  BY <1>1 DEF Entries
<1>4. Cardinality(own) = copies[p]
  <2>1. IsFiniteSet({p}) /\ Cardinality({p}) = 1
    BY FS_Singleton
  <2>2. IsFiniteSet(1..copies[p]) /\ Cardinality(1..copies[p]) = copies[p]
    <3> DEFINE c == copies[p]
    <3>1. c \in Nat
      BY <1>1
    <3> HIDE DEF c
    <3>2. IsFiniteSet(1..c) /\ Cardinality(1..c) = IF 1 > c THEN 0 ELSE c - 1 + 1
      BY <3>1, FS_Interval
    <3>3. Cardinality(1..c) = c
      BY <3>1, <3>2
    <3> QED  BY <3>2, <3>3 DEF c
  <2> DEFINE A == {p}
             B == 1..copies[p]
  <2> HIDE DEF A, B
  <2>3. Cardinality(A \X B) = Cardinality(A) * Cardinality(B)
    BY <2>1, <2>2, FS_Product DEF A, B
  <2>4. Cardinality(own) = 1 * copies[p]
    BY <2>1, <2>2, <2>3, Zenon DEF A, B
  <2> QED  BY <1>1, <2>4
<1>5. Cardinality(own) <= Cardinality(Entries)
  BY <1>2, <1>3, FS_Subset
<1> QED  BY <1>1, <1>2, <1>4, <1>5, FS_CardinalityType

-----------------------------------------------------------------------------
(* Steps that leave the log alone                                          *)

\* A request that takes a step changes the number of the uncharged by itself.
LEMMA OwedAfter ==
  ASSUME NEW r \in Requests, NEW q, request \in [Requests -> EdgeRequest],
         request' = [request EXCEPT ![r] = q]
  PROVE  /\ Cardinality(Owed) \in Nat
         /\ Uncharged(q) = Uncharged(request[r]) => Cardinality(Owed') = Cardinality(Owed)
         /\ Uncharged(q) /\ ~Uncharged(request[r]) => Cardinality(Owed') = Cardinality(Owed) + 1
         /\ ~Uncharged(q) /\ Uncharged(request[r]) => Cardinality(Owed') + 1 = Cardinality(Owed)
<1>1. request'[r] = q /\ \A s \in Requests : s # r => request'[s] = request[s]
  OBVIOUS
<1>2. IsFiniteSet(Owed) /\ Cardinality(Owed) \in Nat
  <2>1. IsFiniteSet(Requests) /\ Owed \subseteq Requests
    BY EdgeAssumption DEF Owed
  <2> QED  BY <2>1, FS_Subset, FS_CardinalityType
<1>3. ASSUME Uncharged(q) = Uncharged(request[r])
      PROVE  Cardinality(Owed') = Cardinality(Owed)
  <2>1. Owed' = Owed
    BY <1>1, <1>3 DEF Owed, Uncharged
  <2> QED  BY <2>1
<1>4. ASSUME Uncharged(q), ~Uncharged(request[r])
      PROVE  Cardinality(Owed') = Cardinality(Owed) + 1
  <2>1. Owed' = Owed \cup {r} /\ r \notin Owed
    BY <1>1, <1>4 DEF Owed, Uncharged
  <2> QED  BY <1>2, <2>1, FS_AddElement
<1>5. ASSUME ~Uncharged(q), Uncharged(request[r])
      PROVE  Cardinality(Owed') + 1 = Cardinality(Owed)
  <2>1. Owed' = Owed \ {r} /\ r \in Owed
    BY <1>1, <1>5 DEF Owed, Uncharged
  <2>2. Cardinality(Owed') = Cardinality(Owed) - 1
    BY <1>2, <2>1, FS_RemoveElement
  <2> QED  BY <1>2, <2>2
<1> QED  BY <1>2, <1>3, <1>4, <1>5

LEMMA HitsAreOwed == HitsAreCharged <=> hits = Charges("WATCHLIST_HIT") + Cardinality(Owed)
BY DEF HitsAreCharged, Owed, Uncharged

LEMMA ChargesAreCounted ==
  ASSUME riskLog \in Seq(LogRow)
  PROVE  Charges("WATCHLIST_HIT") = Cardinality(Charging("WATCHLIST_HIT", riskLog))
         /\ Charges("WATCHLIST_HIT") \in Nat
<1>1. IsFiniteSet(DOMAIN riskLog)
  BY FS_Interval
<1>2. Charging("WATCHLIST_HIT", riskLog) \subseteq DOMAIN riskLog
  BY DEF Charging
<1> QED  BY <1>1, <1>2, FS_Subset, FS_CardinalityType DEF Charges, Charging

\* A step of one request that writes neither log nor scores.
LEMMA RequestSteps ==
  ASSUME EdgeInv, NEW r \in Requests, NEW q \in EdgeRequest,
         request' = [request EXCEPT ![r] = q],
         UNCHANGED <<hour, copies, riskLog, riskScore, entered, first>>,
         q.pc \in {"charge", "wait"} /\ q.event = "WATCHLIST_HIT" => \E w \in Staff : q.whom = {w},
         Uncharged(request[r]) => Uncharged(q),
         hits' = hits + (IF Uncharged(q) /\ ~Uncharged(request[r]) THEN 1 ELSE 0)
  PROVE  EdgeInv'
<1>1. EdgeTypeOK /\ ScoresCoverTheLog /\ OneIsOwed /\ HitsAreCharged
  BY DEF EdgeInv
<1>2. request \in [Requests -> EdgeRequest] /\ riskLog \in Seq(LogRow) /\ hits \in Nat
  BY <1>1, EdgeTypes
<1>3. request' \in [Requests -> EdgeRequest]
  BY <1>2
<1>4. hits' \in Nat
  BY <1>2
<1>5. EdgeTypeOK'
  BY <1>1, <1>3, <1>4, EdgeTypes DEF EdgeTypeOK, EdgeRequest
<1>6. ScoresCoverTheLog'
  BY <1>1 DEF ScoresCoverTheLog, RowsOf, DecayedScore
<1>7. OneIsOwed'
  BY <1>1, <1>2 DEF OneIsOwed
<1>8. HitsAreCharged'
  <2> SUFFICES hits' = Charges("WATCHLIST_HIT")' + Cardinality(Owed')
    BY DEF HitsAreCharged, Owed, Uncharged
  <2>1. Charges("WATCHLIST_HIT")' = Charges("WATCHLIST_HIT") /\ Charges("WATCHLIST_HIT") \in Nat
    BY <1>2, ChargesAreCounted DEF Charges
  <2>2. hits = Charges("WATCHLIST_HIT") + Cardinality(Owed)
    BY <1>1, HitsAreOwed
  <2>3. /\ Cardinality(Owed) \in Nat
        /\ Uncharged(q) = Uncharged(request[r]) => Cardinality(Owed') = Cardinality(Owed)
        /\ Uncharged(q) /\ ~Uncharged(request[r]) => Cardinality(Owed') = Cardinality(Owed) + 1
    BY <1>2, OwedAfter
  <2>4. CASE Uncharged(q) /\ ~Uncharged(request[r])
    BY <1>2, <2>1, <2>2, <2>3, <2>4
  <2>5. CASE ~(Uncharged(q) /\ ~Uncharged(request[r]))
    <3>1. Uncharged(q) = Uncharged(request[r])
      BY <2>5 DEF Uncharged
    <3>2. hits' = hits
      BY <1>2, <2>5
    <3> QED  BY <2>1, <2>2, <2>3, <3>1, <3>2
  <2> QED  BY <2>4, <2>5
<1> QED  BY <1>5, <1>6, <1>7, <1>8 DEF EdgeInv

LEMMA InitEdgeInv == EdgeInit => EdgeInv
<1> SUFFICES ASSUME EdgeInit PROVE EdgeInv
  OBVIOUS
<1>1. /\ hits = 0 /\ riskLog = <<>> /\ riskLog \in Seq(LogRow)
      /\ request = [r \in Requests |-> NewRequest] /\ riskScore = [w \in Staff |-> NoRow]
      /\ first = [w \in Staff |-> FALSE] /\ hour = FirstHour
  BY DEF EdgeInit
<1>2. EdgeTypeOK
  <2>1. copies \in [People -> 0..MaxCopies]
    BY EdgeAssumption DEF EdgeInit
  <2>2. entered \in [Staff -> [count : Nat, total : Nat]]
    BY DEF EdgeInit, PastEntries
  <2> QED  BY <1>1, <2>1, <2>2, EdgeShapes, EdgeTypes
<1>3. ScoresCoverTheLog
  <2> SUFFICES ASSUME NEW w \in Staff
               PROVE  /\ DecayedScore(w, riskLog, hour) <= riskScore[w].score
                      /\ ~riskScore[w].exists => RowsOf(w, riskLog) = {}
                      /\ first[w] = riskScore[w].tenant
    BY DEF ScoresCoverTheLog
  <2>1. RowsOf(w, riskLog) = {}
    BY <1>1 DEF RowsOf
  <2>2. DecayedScore(w, riskLog, hour) = 0
    BY <1>1, <2>1, NoRowsNoScore
  <2>3. riskScore[w] = NoRow /\ first[w] = FALSE
    BY <1>1
  <2>4. riskScore[w].score = 0 /\ riskScore[w].tenant = FALSE
    BY <2>3 DEF NoRow
  <2>5. DecayedScore(w, riskLog, hour) <= riskScore[w].score
    BY <2>2, <2>4
  <2> QED  BY <2>1, <2>3, <2>4, <2>5
<1>4. OneIsOwed
  BY <1>1 DEF OneIsOwed, NewRequest
<1>5. HitsAreCharged
  <2>1. Owed = {} /\ Charging("WATCHLIST_HIT", riskLog) = {}
    BY <1>1 DEF Owed, Uncharged, NewRequest, Charging
  <2>2. Cardinality(Owed) = 0 /\ Cardinality(Charging("WATCHLIST_HIT", riskLog)) = 0
    BY <2>1, FS_EmptySet
  <2>3. Charges("WATCHLIST_HIT") = 0
    BY <1>1, <2>2, ChargesAreCounted
  <2> QED  BY <1>1, <2>2, <2>3, HitsAreOwed
<1> QED  BY <1>2, <1>3, <1>4, <1>5 DEF EdgeInv

\* Time passes: what the rows amount to shrinks, and the stored scores stay.
LEMMA ElapseKeeps == EdgeInv /\ Elapse => EdgeInv'
<1> SUFFICES ASSUME EdgeInv, Elapse PROVE EdgeInv'
  OBVIOUS
<1>1. /\ EdgeTypeOK /\ ScoresCoverTheLog /\ OneIsOwed /\ HitsAreCharged
      /\ UNCHANGED <<copies, hits, riskLog, riskScore, entered, request, first>>
  BY DEF EdgeInv, Elapse
<1>2. hour \in Hours /\ hour' \in Hours /\ hour <= hour' /\ riskLog \in Seq(LogRow)
      /\ riskScore \in [Staff -> ScoreRow]
  <2>1. hour \in Hours /\ riskLog \in Seq(LogRow) /\ riskScore \in [Staff -> ScoreRow]
    BY <1>1, EdgeTypes
  <2> QED  BY <2>1, EdgeAssumption DEF Elapse, Hours
<1>3. EdgeTypeOK'
  BY <1>1, <1>2, EdgeTypes DEF EdgeTypeOK
<1>4. ScoresCoverTheLog'
  <2> SUFFICES ASSUME NEW w \in Staff
               PROVE  /\ DecayedScore(w, riskLog, hour') <= riskScore[w].score
                      /\ ~riskScore[w].exists => RowsOf(w, riskLog) = {}
                      /\ first[w] = riskScore[w].tenant
    BY <1>1 DEF ScoresCoverTheLog, DecayedScore, RowsOf
  <2>1. /\ DecayedScore(w, riskLog, hour) <= riskScore[w].score
        /\ ~riskScore[w].exists => RowsOf(w, riskLog) = {}
        /\ first[w] = riskScore[w].tenant
    BY <1>1 DEF ScoresCoverTheLog
  <2>2. /\ DecayedScore(w, riskLog, hour') \in Scores
        /\ DecayedScore(w, riskLog, hour) \in Scores
        /\ DecayedScore(w, riskLog, hour') <= DecayedScore(w, riskLog, hour)
    BY <1>2, ScoreShrinks
  <2>3. riskScore[w].score \in Scores
    BY <1>2, ScoreRowFields
  <2>4. DecayedScore(w, riskLog, hour) <= riskScore[w].score
    BY <2>1
  <2>5. DecayedScore(w, riskLog, hour') <= riskScore[w].score
    <3> DEFINE present == DecayedScore(w, riskLog, hour)
               later == DecayedScore(w, riskLog, hour')
               stored == riskScore[w].score
    <3>1. present \in Scores /\ later \in Scores /\ stored \in Scores /\ later <= present /\ present <= stored
      BY <2>2, <2>3, <2>4, Zenon
    <3> HIDE DEF present, later, stored
    <3>2. later <= stored
      BY <3>1 DEF Scores
    <3> QED  BY <3>2 DEF later, stored
  <2> QED  BY <2>1, <2>5, Zenon
<1>5. OneIsOwed' /\ HitsAreCharged'
  BY <1>1 DEF OneIsOwed, HitsAreCharged, Charges
<1> QED  BY <1>3, <1>4, <1>5 DEF EdgeInv

\* The watchlist and the entries of the journey: nothing but their own table.
LEMMA OtherTables ==
  ASSUME EdgeInv, UNCHANGED <<hour, hits, riskLog, riskScore, request, first>>,
         copies' \in [People -> 0..MaxCopies], entered' \in [Staff -> [count : Nat, total : Nat]]
  PROVE  EdgeInv'
<1>1. EdgeTypeOK'
  BY EdgeTypes DEF EdgeInv, EdgeTypeOK
<1>0. /\ ScoresCoverTheLog
      /\ hour' = hour /\ riskLog' = riskLog /\ riskScore' = riskScore /\ first' = first
  BY DEF EdgeInv
<1>2. ScoresCoverTheLog'
  <2> SUFFICES ASSUME NEW w \in Staff
               PROVE  /\ DecayedScore(w, riskLog', hour') <= riskScore'[w].score
                      /\ ~riskScore'[w].exists => RowsOf(w, riskLog') = {}
                      /\ first'[w] = riskScore'[w].tenant
    BY DEF ScoresCoverTheLog
  <2> QED  BY <1>0 DEF ScoresCoverTheLog
<1>3. OneIsOwed' /\ HitsAreCharged'
  BY DEF EdgeInv, OneIsOwed, HitsAreCharged, Charges
<1> QED  BY <1>1, <1>2, <1>3 DEF EdgeInv

LEMMA AddToWatchlistKeeps == ASSUME NEW p \in People, EdgeInv, AddToWatchlist(p) PROVE EdgeInv'
<1>1. EdgeTypeOK /\ copies \in [People -> 0..MaxCopies] /\ MaxCopies \in Nat
      /\ entered \in [Staff -> [count : Nat, total : Nat]]
  BY EdgeAssumption DEF EdgeInv, EdgeTypeOK
<1>2. copies[p] + 1 \in 0..MaxCopies
  BY <1>1, RoomForCopy DEF AddToWatchlist
<1>3. copies' \in [People -> 0..MaxCopies]
  BY <1>1, <1>2 DEF AddToWatchlist
<1> QED  BY <1>1, <1>3, OtherTables DEF AddToWatchlist

LEMMA SyncWatchlistKeeps == ASSUME NEW W \in SUBSET Staff, EdgeInv, SyncWatchlist(W) PROVE EdgeInv'
<1>1. EdgeTypeOK /\ copies \in [People -> 0..MaxCopies] /\ MaxCopies \in Nat
      /\ entered \in [Staff -> [count : Nat, total : Nat]]
  BY EdgeAssumption DEF EdgeInv, EdgeTypeOK
<1>2. ASSUME NEW p \in People, p \in W
      PROVE  copies[p] + 1 \in 0..MaxCopies
  <2>1. IsFiniteSet(W)
    BY EdgeAssumption, FS_Subset
  <2>2. Cardinality(W) \in Nat /\ Cardinality(W) # 0
    BY <1>2, <2>1, FS_CardinalityType, FS_EmptySet
  <2>3. Cardinality(Entries) + Cardinality(W) <= MaxCopies
    BY DEF SyncWatchlist
  <2>4. Cardinality(Entries) \in Nat /\ copies[p] \in Nat /\ copies[p] <= Cardinality(Entries)
    BY <1>1, RoomForCopy
  <2> QED  BY <1>1, <2>2, <2>3, <2>4
<1>3. copies' \in [People -> 0..MaxCopies]
  BY <1>1, <1>2 DEF SyncWatchlist
<1> QED  BY <1>1, <1>3, OtherTables DEF SyncWatchlist

LEMMA EntryExpiresKeeps == ASSUME NEW p \in People, EdgeInv, EntryExpires(p) PROVE EdgeInv'
<1>1. copies \in [People -> 0..MaxCopies] /\ MaxCopies \in Nat
      /\ entered \in [Staff -> [count : Nat, total : Nat]]
  BY EdgeAssumption DEF EdgeInv, EdgeTypeOK
<1>2. copies' \in [People -> 0..MaxCopies]
  BY <1>1 DEF EntryExpires
<1> QED  BY <1>1, <1>2, OtherTables DEF EntryExpires

LEMMA RecordEntryKeeps == ASSUME NEW w \in Staff, EdgeInv, RecordEntry(w) PROVE EdgeInv'
<1>1. copies \in [People -> 0..MaxCopies] /\ hour \in Nat
      /\ entered \in [Staff -> [count : Nat, total : Nat]]
  BY EdgeAssumption DEF EdgeInv, EdgeTypeOK, Hours
<1>2. hour % 24 \in Nat
  BY <1>1
<1>3. entered' \in [Staff -> [count : Nat, total : Nat]]
  <2>1. [count |-> entered[w].count + 1, total |-> entered[w].total + (hour % 24)]
          \in [count : Nat, total : Nat]
    BY <1>1, <1>2
  <2> QED  BY <1>1, <2>1 DEF RecordEntry
<1> QED  BY <1>1, <1>3, OtherTables DEF RecordEntry

\* Requests that find something to charge: one more alert for one more hit.
LEMMA OwingSteps ==
  ASSUME EdgeInv, NEW r \in Requests, request[r].pc = "new", NEW e \in RiskEvents,
         NEW W \in SUBSET Staff, NEW t \in BOOLEAN,
         request' = [request EXCEPT ![r] = Owing(e, W, t)],
         UNCHANGED <<hour, copies, riskLog, riskScore, entered, first>>,
         e = "WATCHLIST_HIT" => \E w \in Staff : W = {w},
         hits' = hits + (IF e = "WATCHLIST_HIT" THEN 1 ELSE 0)
  PROVE  EdgeInv'
<1> DEFINE q == Owing(e, W, t)
<1>1. q \in EdgeRequest /\ q.pc = "charge" /\ q.event = e /\ q.whom = W
  BY OwingType
<1> HIDE DEF q
<1>2. ~Uncharged(request[r]) /\ (Uncharged(q) <=> e = "WATCHLIST_HIT")
  BY <1>1 DEF Uncharged
<1>3. hits' = hits + (IF Uncharged(q) /\ ~Uncharged(request[r]) THEN 1 ELSE 0)
  BY <1>2
<1>4. request' = [request EXCEPT ![r] = q]
  BY DEF q
<1> QED  BY <1>1, <1>2, <1>3, <1>4, RequestSteps

LEMMA ScanWatchlistKeeps ==
  ASSUME NEW r \in Requests, NEW p \in People, NEW c \in Staff, NEW t \in BOOLEAN,
         EdgeInv, ScanWatchlist(r, p, c, t)
  PROVE  EdgeInv'
<1>1. \E w \in Staff : Charged(p, c) = {w}
  BY DEF Charged
<1>2. Charged(p, c) \in SUBSET Staff /\ "WATCHLIST_HIT" \in RiskEvents
  BY <1>1, EdgeShapes
<1> QED  BY <1>1, <1>2, OwingSteps DEF ScanWatchlist, Hit

LEMMA TrustScoreKeeps ==
  ASSUME NEW r \in Requests, NEW w \in Staff, NEW t \in BOOLEAN,
         EdgeInv, TrustScoreEndpoint(r, w, t)
  PROVE  EdgeInv'
<1>1. hits \in Nat /\ {w} \in SUBSET Staff /\ "FAILED_FACE_MATCH" \in RiskEvents
  BY EdgeShapes DEF EdgeInv, EdgeTypeOK
<1>2. /\ request[r].pc = "new"
      /\ request' = [request EXCEPT ![r] = Owing("FAILED_FACE_MATCH", {w}, t)]
      /\ UNCHANGED <<hour, copies, hits, riskLog, riskScore, entered, first>>
  BY DEF TrustScoreEndpoint
<1>3. hits' = hits + (IF "FAILED_FACE_MATCH" = "WATCHLIST_HIT" THEN 1 ELSE 0)
  BY <1>1, <1>2
<1> QED  BY <1>1, <1>2, <1>3, OwingSteps

LEMMA AntispoofKeeps ==
  ASSUME NEW r \in Requests, NEW c \in Staff, EdgeInv, AntispoofAnalyze(r, c)
  PROVE  EdgeInv'
<1>1. hits \in Nat /\ {c} \in SUBSET Staff /\ "SPOOF_ATTEMPT" \in RiskEvents
  BY EdgeShapes DEF EdgeInv, EdgeTypeOK
<1>2. /\ request[r].pc = "new"
      /\ request' = [request EXCEPT ![r] = Owing("SPOOF_ATTEMPT", {c}, FALSE)]
      /\ UNCHANGED <<hour, copies, hits, riskLog, riskScore, entered, first>>
  BY DEF AntispoofAnalyze
<1>3. hits' = hits + (IF "SPOOF_ATTEMPT" = "WATCHLIST_HIT" THEN 1 ELSE 0)
  BY <1>1, <1>2
<1> QED  BY <1>1, <1>2, <1>3, OwingSteps

LEMMA GhostWorkerKeeps ==
  ASSUME NEW r \in Requests, NEW m \in SUBSET Staff, EdgeInv, GhostWorkerCheck(r, m)
  PROVE  EdgeInv'
<1>1. hits \in Nat /\ "DUPLICATE_IDENTITY" \in RiskEvents
  BY EdgeShapes DEF EdgeInv, EdgeTypeOK
<1>2. /\ request[r].pc = "new"
      /\ request' = [request EXCEPT ![r] = Owing("DUPLICATE_IDENTITY", m, TRUE)]
      /\ UNCHANGED <<hour, copies, hits, riskLog, riskScore, entered, first>>
  BY DEF GhostWorkerCheck
<1>3. hits' = hits + (IF "DUPLICATE_IDENTITY" = "WATCHLIST_HIT" THEN 1 ELSE 0)
  BY <1>1, <1>2
<1> QED  BY <1>1, <1>2, <1>3, OwingSteps

LEMMA StampKeeps == ASSUME NEW r \in Requests, EdgeInv, Stamp(r) PROVE EdgeInv'
<1> DEFINE q == [request[r] EXCEPT !.pc = "wait", !.at = hour]
<1>1. request \in [Requests -> EdgeRequest] /\ hour \in Hours /\ hits \in Nat
  BY EdgeTypes DEF EdgeInv
<1>2. q \in EdgeRequest
  BY <1>1, Zenon DEF EdgeRequest
<1>3. q.pc = "wait" /\ q.event = request[r].event /\ q.whom = request[r].whom
      /\ request[r].pc = "charge"
  BY <1>1 DEF EdgeRequest, Stamp
<1>4. request' = [request EXCEPT ![r] = q]
  BY <1>1 DEF Stamp
<1> HIDE DEF q
<1>5. Uncharged(q) <=> Uncharged(request[r])
  BY <1>3 DEF Uncharged
<1>6. q.pc \in {"charge", "wait"} /\ q.event = "WATCHLIST_HIT" => \E w \in Staff : q.whom = {w}
  BY <1>3 DEF EdgeInv, OneIsOwed
<1>7. hits' = hits + (IF Uncharged(q) /\ ~Uncharged(request[r]) THEN 1 ELSE 0)
  BY <1>1, <1>5 DEF Stamp
<1> QED  BY <1>2, <1>4, <1>5, <1>6, <1>7, RequestSteps DEF Stamp

LEMMA ChargeFailsKeeps == ASSUME NEW r \in Requests, EdgeInv, ChargeFails(r) PROVE EdgeInv'
<1> DEFINE q == [NewRequest EXCEPT !.pc = "failed", !.event = request[r].event]
<1>1. request \in [Requests -> EdgeRequest] /\ hits \in Nat
  BY EdgeTypes DEF EdgeInv
<1>2. q \in EdgeRequest /\ q.pc = "failed" /\ q.event = request[r].event
  BY <1>1, EdgeShapes DEF EdgeRequest
<1>3. request' = [request EXCEPT ![r] = q]
  BY DEF ChargeFails
<1> HIDE DEF q
<1>4. Uncharged(q) <=> Uncharged(request[r])
  BY <1>2 DEF Uncharged, ChargeFails
<1>5. hits' = hits + (IF Uncharged(q) /\ ~Uncharged(request[r]) THEN 1 ELSE 0)
  BY <1>1, <1>4 DEF ChargeFails
<1> QED  BY <1>2, <1>3, <1>4, <1>5, RequestSteps DEF ChargeFails

\* A charge: the row counts in full, so that the score stored with it is what
\* the rows of its worker amount to; nobody else's rows or score change, and
\* an alert that waited is charged.
LEMMA ChargeKeeps == ASSUME NEW r \in Requests, EdgeInv, Charge(r) PROVE EdgeInv'
<1> DEFINE h == request[r]
           Entry(w) == [user |-> w, event |-> h.event, at |-> h.at]
           Rest(w) == IF h.whom = {w} THEN [NewRequest EXCEPT !.pc = "done"]
                      ELSE [h EXCEPT !.pc = "charge", !.whom = @ \ {w}]
<1>1. /\ EdgeTypeOK /\ ScoresCoverTheLog /\ OneIsOwed /\ HitsAreCharged
      /\ hour' = hour /\ copies' = copies /\ hits' = hits /\ entered' = entered
      /\ h.pc = "wait"
  BY DEF EdgeInv, Charge
<1>2. PICK w \in h.whom :
        /\ riskLog' = Append(riskLog, Entry(w))
        /\ riskScore' = [riskScore EXCEPT ![w] = Upserted(@, Recomputed(w, riskLog'), h.tenant)]
        /\ first' = [first EXCEPT ![w] = IF riskScore[w].exists THEN @ ELSE h.tenant]
        /\ request' = [request EXCEPT ![r] = Rest(w)]
  BY Zenon DEF Charge
<1>3. /\ request \in [Requests -> EdgeRequest] /\ h \in EdgeRequest
      /\ riskLog \in Seq(LogRow) /\ hour \in Hours /\ hits \in Nat
      /\ riskScore \in [Staff -> ScoreRow] /\ first \in [Staff -> BOOLEAN]
      /\ entered \in [Staff -> [count : Nat, total : Nat]]
      /\ copies \in [People -> 0..MaxCopies]
  BY <1>1, EdgeTypes
<1>4. /\ h.event \in RiskEvents /\ h.at \in Hours /\ h.whom \in SUBSET Staff /\ h.tenant \in BOOLEAN
      /\ w \in Staff
  BY <1>2, <1>3, Zenon DEF EdgeRequest
<1> DEFINE row == Entry(w)
           log == Append(riskLog, row)
           stored == DecayedScore(w, log, hour)
           q == Rest(w)
<1>5. row \in LogRow /\ row.user = w /\ row.event = h.event
  BY <1>4 DEF LogRow
<1>6. q \in EdgeRequest /\ (q.pc = "done" \/ (q.pc = "charge" /\ q.event = h.event /\ h.whom # {w}))
  <2>1. CASE h.whom = {w}
    BY <2>1, EdgeShapes DEF EdgeRequest
  <2>2. CASE h.whom # {w}
    <3>1. h.whom \ {w} \in SUBSET Staff
      BY <1>4
    <3>2. [h EXCEPT !.pc = "charge", !.whom = @ \ {w}] \in EdgeRequest
      BY <1>3, <3>1 DEF EdgeRequest
    <3>3. q = [h EXCEPT !.pc = "charge", !.whom = @ \ {w}]
      BY <2>2
    <3>4. q.pc = "charge" /\ q.event = h.event
      BY <1>3, <3>3 DEF EdgeRequest
    <3> QED  BY <2>2, <3>2, <3>3, <3>4
  <2> QED  BY <2>1, <2>2
<1> HIDE DEF q
<1>7. riskLog' = log /\ request' = [request EXCEPT ![r] = q] /\ log \in Seq(LogRow)
  BY <1>2, <1>3, <1>5 DEF q
<1> HIDE DEF row
<1>8. stored \in Scores
  BY <1>3, <1>7, ScoreType
<1> DEFINE upserted == [score |-> stored, exists |-> TRUE,
                        tenant |-> IF riskScore[w].exists THEN riskScore[w].tenant ELSE h.tenant]
<1>9. riskScore' = [riskScore EXCEPT ![w] = upserted]
  BY <1>2, <1>7, Zenon DEF Upserted, Recomputed
<1> HIDE DEF log, stored
<1>10. upserted \in ScoreRow
  <2>1. riskScore[w].tenant \in BOOLEAN
    BY <1>3, <1>4, ScoreRowFields
  <2>2. (IF riskScore[w].exists THEN riskScore[w].tenant ELSE h.tenant) \in BOOLEAN
    BY <1>4, <2>1
  <2> DEFINE t == IF riskScore[w].exists THEN riskScore[w].tenant ELSE h.tenant
  <2>3. t \in BOOLEAN
    BY <2>2
  <2> HIDE DEF t
  <2>4. [score |-> stored, exists |-> TRUE, tenant |-> t] \in ScoreRow
    BY <1>8, <2>3 DEF ScoreRow
  <2> QED  BY <2>4 DEF t
<1>11. upserted.score = stored /\ upserted.exists
       /\ upserted.tenant = IF riskScore[w].exists THEN riskScore[w].tenant ELSE h.tenant
  OBVIOUS
<1> HIDE DEF upserted
<1>12. EdgeTypeOK'
  <2>1. riskScore' \in [Staff -> ScoreRow]
    BY <1>3, <1>9, <1>10, Zenon
  <2>2. request' \in [Requests -> EdgeRequest]
    BY <1>3, <1>6, <1>7, Zenon
  <2>3. first' \in [Staff -> BOOLEAN]
    <3>1. (IF riskScore[w].exists THEN first[w] ELSE h.tenant) \in BOOLEAN
      BY <1>3, <1>4
    <3> QED  BY <1>2, <1>3, <3>1, Zenon
  <2> QED  BY <1>1, <1>3, <1>7, <2>1, <2>2, <2>3, EdgeTypes DEF EdgeTypeOK, LogRow, ScoreRow, Scores, EdgeRequest
<1>13. ScoresCoverTheLog'
  <2> SUFFICES ASSUME NEW v \in Staff
               PROVE  /\ DecayedScore(v, log, hour) <= riskScore'[v].score
                      /\ ~riskScore'[v].exists => RowsOf(v, log) = {}
                      /\ first'[v] = riskScore'[v].tenant
    BY <1>1, <1>7 DEF ScoresCoverTheLog
  <2>1. CASE v = w
    <3>1. riskScore'[v] = upserted
      BY <1>3, <1>9, <2>1
    <3>2. DecayedScore(v, log, hour) <= riskScore'[v].score
      BY <1>8, <1>11, <2>1, <3>1 DEF stored, Scores
    <3>3. first[w] = riskScore[w].tenant
      BY <1>1, <1>4 DEF ScoresCoverTheLog
    <3>4. first'[v] = IF riskScore[w].exists THEN first[w] ELSE h.tenant
      BY <1>2, <1>3, <2>1
    <3>5. first'[v] = riskScore'[v].tenant
      BY <1>11, <3>1, <3>3, <3>4
    <3> QED  BY <1>11, <3>1, <3>2, <3>5
  <2>2. CASE v # w
    <3>1. riskScore'[v] = riskScore[v] /\ first'[v] = first[v]
      BY <1>2, <1>3, <1>9, <2>2
    <3>2. /\ RowsOf(v, log) = RowsOf(v, riskLog)
          /\ DecayedScore(v, log, hour) = DecayedScore(v, riskLog, hour)
      BY <1>3, <1>5, <2>2, OthersRow DEF log
    <3> QED  BY <1>1, <3>1, <3>2 DEF ScoresCoverTheLog
  <2> QED  BY <2>1, <2>2
<1>14. OneIsOwed'
  <2> SUFFICES ASSUME NEW s \in Requests, request'[s].pc \in {"charge", "wait"},
                      request'[s].event = "WATCHLIST_HIT"
               PROVE  \E v \in Staff : request'[s].whom = {v}
    BY DEF OneIsOwed
  <2>1. s # r
    <3> SUFFICES ASSUME s = r PROVE FALSE
      OBVIOUS
    <3>1. q.pc = "charge" /\ h.event = "WATCHLIST_HIT" /\ h.whom # {w}
      BY <1>3, <1>6, <1>7
    <3>2. \E v \in Staff : h.whom = {v}
      BY <1>1, <3>1 DEF OneIsOwed
    <3> QED  BY <1>2, <3>1, <3>2
  <2> QED  BY <1>1, <1>3, <1>7, <2>1 DEF OneIsOwed
<1>15. HitsAreCharged'
  <2> DEFINE n == Cardinality(Owed)
             c == Charges("WATCHLIST_HIT")
  <2>1. hits = c + n /\ c \in Nat /\ n \in Nat
    BY <1>1, <1>3, <1>6, <1>7, HitsAreOwed, ChargesAreCounted, OwedAfter
  <2>2. Charges("WATCHLIST_HIT")' = c + (IF h.event = "WATCHLIST_HIT" THEN 1 ELSE 0)
    <3>1. c = Cardinality(Charging("WATCHLIST_HIT", riskLog))
      BY <1>3, ChargesAreCounted
    <3>2. Charges("WATCHLIST_HIT")' = Cardinality(Charging("WATCHLIST_HIT", log))
      BY <1>7 DEF Charges, Charging
    <3> HIDE DEF c
    <3> QED  BY <1>3, <1>5, <3>1, <3>2, ChargesAfter DEF log
  <2>3. Cardinality(Owed') + (IF h.event = "WATCHLIST_HIT" THEN 1 ELSE 0) = n
    <3>1. Uncharged(h) <=> h.event = "WATCHLIST_HIT"
      BY <1>1 DEF Uncharged
    <3>2. ~Uncharged(q)
      <4> SUFFICES ASSUME q.pc = "charge", q.event = "WATCHLIST_HIT" PROVE FALSE
        BY <1>6 DEF Uncharged
      <4>1. h.event = "WATCHLIST_HIT" /\ h.whom # {w}
        BY <1>6
      <4>2. \E v \in Staff : h.whom = {v}
        BY <1>1, <4>1 DEF OneIsOwed
      <4> QED  BY <1>2, <4>1, <4>2
    <3>3. /\ Uncharged(q) = Uncharged(request[r]) => Cardinality(Owed') = n
          /\ ~Uncharged(q) /\ Uncharged(request[r]) => Cardinality(Owed') + 1 = n
      BY <1>3, <1>6, <1>7, OwedAfter
    <3>4. CASE h.event = "WATCHLIST_HIT"
      BY <3>1, <3>2, <3>3, <3>4
    <3>5. CASE h.event # "WATCHLIST_HIT"
      <4>1. Uncharged(q) = Uncharged(request[r])
        BY <3>1, <3>2, <3>5 DEF Uncharged
      <4> HIDE DEF n
      <4> QED  BY <2>1, <3>3, <3>5, <4>1
    <3> QED  BY <3>4, <3>5
  <2> HIDE DEF n, c
  <2>4. Cardinality(Owed') \in Int
    <3>1. IsFiniteSet(Requests) /\ Owed' \subseteq Requests
      BY EdgeAssumption DEF Owed
    <3> QED  BY <3>1, FS_Subset, FS_CardinalityType
  <2>5. hits' = Charges("WATCHLIST_HIT")' + Cardinality(Owed')
    BY <1>1, <2>1, <2>2, <2>3, <2>4
  <2> QED  BY <2>5 DEF HitsAreCharged, Owed, Uncharged
<1> QED  BY <1>12, <1>13, <1>14, <1>15 DEF EdgeInv

-----------------------------------------------------------------------------
LEMMA EdgeStep == EdgeInv /\ [EdgeNext]_edgeVars => EdgeInv'
<1> SUFFICES ASSUME EdgeInv, [EdgeNext]_edgeVars PROVE EdgeInv'
  OBVIOUS
<1>1. CASE UNCHANGED edgeVars
  <2>1. UNCHANGED <<hour, hits, riskLog, riskScore, request, first>>
        /\ copies' = copies /\ entered' = entered
    BY <1>1 DEF edgeVars
  <2>2. copies \in [People -> 0..MaxCopies] /\ entered \in [Staff -> [count : Nat, total : Nat]]
    BY EdgeTypes DEF EdgeInv
  <2> QED  BY <2>1, <2>2, OtherTables
<1>2. CASE EdgeNext
  BY <1>2, ElapseKeeps, AddToWatchlistKeeps, SyncWatchlistKeeps, EntryExpiresKeeps, RecordEntryKeeps,
     ScanWatchlistKeeps, TrustScoreKeeps, AntispoofKeeps, GhostWorkerKeeps, StampKeeps, ChargeKeeps,
     ChargeFailsKeeps DEF EdgeNext
<1> QED  BY <1>1, <1>2

LEMMA EdgeInvariant == EdgeSpec => []EdgeInv
<1>1. EdgeInv /\ [EdgeNext]_edgeVars => EdgeInv'
  BY EdgeStep
<1> QED  BY InitEdgeInv, <1>1, PTL DEF EdgeSpec

\* For any log of events the list of high-risk workers holds everybody whose score
\* is at HIGH when it is asked: the level stored at the last event is never below
\* what the events have decayed to since (risk_engine.py, get_high_risk_workers).
THEOREM HighRiskListIsCompleteHolds == EdgeSpec => []HighRiskListIsComplete
<1>1. EdgeInv => HighRiskListIsComplete
  <2> SUFFICES ASSUME EdgeInv, NEW w \in Staff,
                      RiskLevel(DecayedScore(w, riskLog, hour)) >= HighRisk
               PROVE  w \in HighRiskList /\ (first[w] => w \in HighRiskListOfTenant)
    BY DEF HighRiskListIsComplete
  <2> DEFINE present == DecayedScore(w, riskLog, hour)
             stored == riskScore[w].score
  <2>1. /\ present <= stored
        /\ ~riskScore[w].exists => RowsOf(w, riskLog) = {}
        /\ first[w] = riskScore[w].tenant
    BY DEF EdgeInv, ScoresCoverTheLog
  <2>2. hour \in Hours /\ riskLog \in Seq(LogRow) /\ riskScore \in [Staff -> ScoreRow]
    BY EdgeTypes DEF EdgeInv
  <2>4. present \in Scores
    BY <2>2, ScoreType
  <2>5. stored \in Scores
    BY <2>2, ScoreRowFields
  <2>6. riskScore[w].exists
    <3> SUFFICES ASSUME RowsOf(w, riskLog) = {} PROVE FALSE
      BY <2>1
    <3>1. present = 0
      BY <2>2, NoRowsNoScore
    <3>2. RiskLevel(0) < HighRisk
      BY DEF RiskLevel, HighRisk
    <3>3. RiskLevel(0) >= HighRisk
      BY <3>1
    <3> QED  BY <3>2, <3>3 DEF RiskLevel, HighRisk
  <2> HIDE DEF present, stored
  <2>7. RiskLevel(stored) >= HighRisk
    <3>1. present \in Int /\ stored \in Int /\ present <= stored
      BY <2>1, <2>4, <2>5 DEF Scores
    <3>2. RiskLevel(present) >= HighRisk
      BY DEF present
    <3> QED  BY <3>1, <3>2, LevelGrows
  <2>8. w \in HighRiskList
    BY <2>6, <2>7 DEF HighRiskList, stored
  <2> QED  BY <2>1, <2>8 DEF HighRiskListOfTenant
<1> QED  BY <1>1, EdgeInvariant, PTL

\* However many requests and copies of entries there are, a scan that alerted has
\* charged exactly one worker, or the second transaction failed
\* (watchlist_scan_endpoint).
THEOREM HitsAreChargedHolds == EdgeSpec => []HitsAreCharged
<1>1. EdgeInv => HitsAreCharged
  BY DEF EdgeInv
<1> QED  BY <1>1, EdgeInvariant, PTL

\* Variables of the watchlist and of the risk score have their types.
THEOREM EdgeTypeCorrect == EdgeSpec => []EdgeTypeOK
<1>1. EdgeInv => EdgeTypeOK
  BY DEF EdgeInv
<1> QED  BY <1>1, EdgeInvariant, PTL

-----------------------------------------------------------------------------
(* Behaviour                                                               *)

\* A summand more, and the sum is no less.
LEMMA SumWithOneMore ==
  ASSUME NEW S, IsFiniteSet(S), NEW x, x \notin S, NEW f \in [S -> Nat],
         NEW g \in [S \cup {x} -> Nat], \A i \in S : g[i] = f[i]
  PROVE  SumFunction(f) \in Nat /\ SumFunction(g) \in Nat /\ SumFunction(f) <= SumFunction(g)
<1> DEFINE R == S \cup {x}
<1>1. IsFiniteSet(R) /\ f \in [S -> Int] /\ g \in [R -> Int] /\ g[x] \in Nat
  BY FS_AddElement
<1>2. PICK low \in [SUBSET S -> Int] :
         /\ low[{}] = 0
         /\ \A s \in SUBSET S : \A i \in s : low[s] = f[i] + low[s \ {i}]
         /\ SumFunction(f) = low[S]
  BY <1>1, SumTakesOut
<1>3. PICK high \in [SUBSET R -> Int] :
         /\ high[{}] = 0
         /\ \A s \in SUBSET R : \A i \in s : high[s] = g[i] + high[s \ {i}]
         /\ SumFunction(g) = high[R]
  <2> HIDE DEF R
  <2> QED  BY <1>1, SumTakesOut
<1> DEFINE T == {s \in SUBSET S : low[s] = high[s]}
<1>4. ASSUME NEW s \in SUBSET S, \A r \in SUBSET s : r # s => r \in T
      PROVE  s \in T
  <2>1. CASE s = {}
    BY <1>2, <1>3, <2>1
  <2>2. CASE s # {}
    <3>1. PICK i \in s : TRUE
      BY <2>2
    <3>2. s \ {i} \in T
      BY <1>4, <3>1
    <3>3. low[s] = f[i] + low[s \ {i}]
      BY <1>2, <3>1
    <3>4. high[s] = g[i] + high[s \ {i}] /\ s \in SUBSET R
      BY <1>3, <3>1
    <3>5. g[i] = f[i]
      BY <3>1
    <3>6. low[s] = high[s]
      BY <3>2, <3>3, <3>4, <3>5
    <3> QED  BY <3>6
  <2> QED  BY <2>1, <2>2
<1> HIDE DEF T
<1>5. T = SUBSET S
  <2>1. T \in SUBSET (SUBSET S)
    BY DEF T
  <2> QED  BY <1>4, <2>1, SubsetsInduct, Zenon
<1>6. low[S] = high[S] /\ low[S] \in Int
  <2>1. S \in T
    BY <1>5
  <2> QED  BY <1>2, <2>1 DEF T
<1>7. high[R] = g[x] + high[S]
  <2>1. x \in R /\ R \in SUBSET R /\ R \ {x} = S
    OBVIOUS
  <2> HIDE DEF R
  <2> QED  BY <1>3, <2>1
<1>8. SumFunction(f) \in Nat
  <2>1. \A i \in S : f[i] <= f[i]
    OBVIOUS
  <2> QED  BY <2>1, SumGrows
<1> HIDE DEF R
<1> QED  BY <1>1, <1>2, <1>3, <1>6, <1>7, <1>8

WeightsOf(w, log) == [i \in RowsOf(w, log) |-> Weight[log[i].event]]

\* A row of the log takes nothing off what anybody has been charged.
LEMMA ChargesWeigh ==
  ASSUME NEW log \in Seq(LogRow), NEW row \in LogRow, NEW w
  PROVE  LET before == SumFunction(WeightsOf(w, log))
             after == SumFunction(WeightsOf(w, Append(log, row)))
         IN before \in Nat /\ after \in Nat /\ before <= after
<1> DEFINE long == Append(log, row)
           n == Len(log) + 1
           f == WeightsOf(w, log)
           g == WeightsOf(w, long)
<1>1. /\ DOMAIN log = 1..Len(log) /\ DOMAIN long = 1..n /\ Len(log) \in Nat
      /\ \A i \in DOMAIN log : long[i] = log[i]
      /\ long[n] = row /\ long \in Seq(LogRow)
  OBVIOUS
<1>2. \A i \in DOMAIN long : i \in DOMAIN log \/ i = n
  BY <1>1
<1>3. n \notin DOMAIN log /\ n \in DOMAIN long /\ DOMAIN log \subseteq DOMAIN long
  BY <1>1
<1> HIDE DEF long, n
<1>4. \A r \in LogRow : Weight[r.event] \in Nat
  <2> SUFFICES ASSUME NEW r \in LogRow PROVE Weight[r.event] \in Nat
    OBVIOUS
  <2>1. r.event \in {"WATCHLIST_HIT", "SPOOF_ATTEMPT", "DUPLICATE_IDENTITY", "FAILED_FACE_MATCH"}
    BY EdgeShapes DEF LogRow
  <2> QED  BY <2>1 DEF Weight
<1>5. /\ IsFiniteSet(RowsOf(w, log)) /\ \A i \in RowsOf(w, log) : log[i] \in LogRow
      /\ \A i \in RowsOf(w, long) : long[i] \in LogRow
  BY <1>1, RowsAreFinite
<1>6. f \in [RowsOf(w, log) -> Nat] /\ g \in [RowsOf(w, long) -> Nat]
  BY <1>4, <1>5 DEF WeightsOf
<1>7. \A i \in RowsOf(w, log) : i \in RowsOf(w, long) /\ g[i] = f[i] /\ i # n
  BY <1>1, <1>3 DEF RowsOf, WeightsOf
<1> HIDE DEF f, g
<1>8. CASE row.user = w
  <2>1. RowsOf(w, long) = RowsOf(w, log) \cup {n}
    BY <1>1, <1>2, <1>3, <1>8 DEF RowsOf
  <2>2. g \in [RowsOf(w, log) \cup {n} -> Nat] /\ n \notin RowsOf(w, log)
    BY <1>6, <1>7, <2>1
  <2>3. SumFunction(f) \in Nat /\ SumFunction(g) \in Nat /\ SumFunction(f) <= SumFunction(g)
    BY <1>5, <1>6, <1>7, <2>2, SumWithOneMore
  <2> QED  BY <2>3 DEF f, g, long
<1>9. CASE row.user # w
  <2>1. RowsOf(w, long) = RowsOf(w, log)
    BY <1>9, OthersRow DEF long
  <2>2. SumFunction(f) \in Nat /\ SumFunction(g) \in Nat /\ SumFunction(f) <= SumFunction(g)
    <3>1. g \in [RowsOf(w, log) -> Nat] /\ \A i \in RowsOf(w, log) : f[i] <= g[i]
      BY <1>6, <1>7, <2>1
    <3> QED  BY <1>5, <1>6, <3>1, SumGrows
  <2> QED  BY <2>2 DEF f, g, long
<1> QED  BY <1>8, <1>9

\* The behaviour score falls with the weights charged, and the gate with it.
LEMMA PenaltyGrows ==
  ASSUME NEW a \in Nat, NEW b \in Nat, a <= b
  PROVE  Penalty(a) \in Nat /\ Penalty(b) \in Nat /\ Penalty(a) <= Penalty(b)
BY DEF Penalty

LEMMA GateGrows ==
  ASSUME NEW s \in Samples, NEW a \in Int, NEW b \in Int, a <= b
  PROVE  GateFor(s, a) <= GateFor(s, b)
<1>1. s.face \in Int /\ s.liveness \in Int /\ s.gps \in Int /\ s.device \in Int
  BY DEF Samples
<1> DEFINE rest == 40 * s.face + 25 * s.liveness + 15 * s.gps + 10 * s.device
<1>2. /\ TrustScore(s.face, s.liveness, s.gps, s.device, a) = rest + 10 * a
      /\ TrustScore(s.face, s.liveness, s.gps, s.device, b) = rest + 10 * b
  BY DEF TrustScore
<1>3. rest \in Int
  BY <1>1
<1> HIDE DEF rest
<1>4. Gate(rest + 10 * a) <= Gate(rest + 10 * b)
  BY <1>3 DEF Gate
<1> QED  BY <1>2, <1>4 DEF GateFor

\* What of the behaviour score is not the charges.
Habits(w, time, of) ==
    LET n == of[w].count
        gap == (time % 24) * n - of[w].total
        unusual == n > 0 /\ (gap > 6 * n \/ -gap > 6 * n)
    IN 75 + (IF n >= 5 THEN 10 ELSE IF n >= 2 THEN 5 ELSE 0) - (IF unusual THEN 15 ELSE 0)

\* The behaviour score at a time, of the entries and the rows of the log.
Behaviour(w, time, of, log) ==
    LET risk == SumFunction([i \in RowsOf(w, log) |-> Weight[log[i].event]])
        n == of[w].count
        gap == (time % 24) * n - of[w].total
        unusual == n > 0 /\ (gap > 6 * n \/ -gap > 6 * n)
    IN 75 + (IF n >= 5 THEN 10 ELSE IF n >= 2 THEN 5 ELSE 0)
          - Penalty(risk) - (IF unusual THEN 15 ELSE 0)

LEMMA BehaviourIs ==
  ASSUME NEW w, NEW time, NEW of, NEW log
  PROVE  /\ Habits(w, time, of) \in Int
         /\ Behaviour(w, time, of, log) = Habits(w, time, of) - Penalty(SumFunction(WeightsOf(w, log)))
<1> DEFINE risk == SumFunction(WeightsOf(w, log))
           n == of[w].count
           gap == (time % 24) * n - of[w].total
           unusual == n > 0 /\ (gap > 6 * n \/ -gap > 6 * n)
           more == IF n >= 5 THEN 10 ELSE IF n >= 2 THEN 5 ELSE 0
           less == Penalty(risk)
           odd == IF unusual THEN 15 ELSE 0
<1>1. Behaviour(w, time, of, log) = 75 + more - less - odd /\ Habits(w, time, of) = 75 + more - odd
  BY DEF Behaviour, Habits, WeightsOf
<1> HIDE DEF risk, gap, n, unusual
<1>2. more \in {0, 5, 10} /\ less \in {0, 10, 20} /\ odd \in {0, 15}
  BY DEF Penalty
<1> HIDE DEF more, less, odd
<1>3. 75 + more - odd \in Int /\ 75 + more - less - odd = (75 + more - odd) - less
  BY <1>2
<1> QED  BY <1>1, <1>3 DEF less, risk

\* Only a charge writes the log, and nothing else that behaviour reads.
LEMMA LogStep ==
  ASSUME EdgeInv, EdgeNext, riskLog' # riskLog
  PROVE  UNCHANGED <<hour, entered>> /\ \E row \in LogRow : riskLog' = Append(riskLog, row)
<1>1. PICK r \in Requests : Charge(r)
  BY Zenon DEF EdgeNext, Elapse, SyncWatchlist, RecordEntry, AddToWatchlist, EntryExpires, ScanWatchlist,
     TrustScoreEndpoint, AntispoofAnalyze, GhostWorkerCheck, Stamp, ChargeFails
<1>2. request[r] \in EdgeRequest
  BY EdgeTypes DEF EdgeInv
<1>3. PICK w \in request[r].whom :
         riskLog' = Append(riskLog, [user |-> w, event |-> request[r].event, at |-> request[r].at])
  BY <1>1, Zenon DEF Charge
<1>4. [user |-> w, event |-> request[r].event, at |-> request[r].at] \in LogRow
  BY <1>2, Zenon DEF EdgeRequest, LogRow
<1> QED  BY <1>1, <1>3, <1>4, Zenon DEF Charge

\* However the charges of any number of requests interleave, none of them improves
\* the gate decision of any sample (trust_engine.py, compute_behaviour_score;
\* risk_engine.py, update_risk_score).
THEOREM ChargesNeverHelpHolds == EdgeSpec => ChargesNeverHelp
<1>1. ASSUME EdgeInv, EdgeNext, riskLog' # riskLog, NEW w \in Staff
      PROVE  LET before == BehaviourScore(w)
                 after == BehaviourScore(w)'
             IN \A s \in Samples : GateFor(s, after) <= GateFor(s, before)
  <2> DEFINE charged == SumFunction(WeightsOf(w, riskLog))
             later == SumFunction(WeightsOf(w, riskLog'))
             habits == Habits(w, hour, entered)
  <2>1. PICK row \in LogRow : riskLog' = Append(riskLog, row)
    BY <1>1, LogStep
  <2>2. hour' = hour /\ entered' = entered
    BY <1>1, LogStep
  <2>3. riskLog \in Seq(LogRow)
    BY <1>1, EdgeTypes DEF EdgeInv
  <2>4. charged \in Nat /\ later \in Nat /\ charged <= later
    BY <2>1, <2>3, ChargesWeigh
  <2>5. habits \in Int /\ BehaviourScore(w) = habits - Penalty(charged)
    <3>1. BehaviourScore(w) = Behaviour(w, hour, entered, riskLog)
      BY DEF BehaviourScore, Behaviour
    <3> QED  BY <3>1, BehaviourIs
  <2>6. BehaviourScore(w)' = habits - Penalty(later)
    <3>1. BehaviourScore(w)' = Behaviour(w, hour', entered', riskLog')
      BY DEF BehaviourScore, Behaviour
    <3> QED  BY <2>2, <3>1, BehaviourIs
  <2> HIDE DEF charged, later, habits
  <2>7. Penalty(charged) \in Nat /\ Penalty(later) \in Nat /\ Penalty(charged) <= Penalty(later)
    BY <2>4, PenaltyGrows
  <2>8. /\ BehaviourScore(w)' \in Int /\ BehaviourScore(w) \in Int
        /\ BehaviourScore(w)' <= BehaviourScore(w)
    BY <2>5, <2>6, <2>7
  <2> QED  BY <2>8, GateGrows
<1>2. EdgeInv /\ [EdgeNext]_edgeVars =>
        [riskLog' # riskLog =>
           \A w \in Staff : LET before == BehaviourScore(w)
                                after == BehaviourScore(w)'
                            IN \A s \in Samples : GateFor(s, after) <= GateFor(s, before)]_edgeVars
  <2>1. UNCHANGED edgeVars => riskLog' = riskLog
    BY DEF edgeVars
  <2> QED  BY <1>1, <2>1
<1> QED  BY <1>2, EdgeInvariant, PTL DEF EdgeSpec, ChargesNeverHelp

-----------------------------------------------------------------------------
(* Journey, presence and health of a site                                  *)

\* A row that is in the table or about to be inserted.
Held(row) ==
    \/ \E i \in DOMAIN journey : journey[i] = row
    \/ \E r \in Recorders : recording[r] = row

\* The passages of w that have their row, or will have.
Passages(w) == {row \in Row : row.who = w /\ row.kind # "OTHER" /\ Held(row)}

\* The last passage of a worker is the latest of the rows.
PassageIsLast ==
    \A w \in Crew :
      /\ passage[w].at <= tick
      /\ passage[w].at < 0 => passage[w].kind = "EXIT"
      /\ w \notin unrecorded =>
           /\ \A row \in Passages(w) :
                row.at <= passage[w].at /\ (row.at = passage[w].at => row.kind = passage[w].kind)
           /\ passage[w].at >= 0 =>
                \E row \in Passages(w) : row.at = passage[w].at /\ row.kind = passage[w].kind

\* Who is inside has entered today, or was inside when the day began.
NightsAreInside ==
    \A w \in Crew :
      Inside(w) => DayOf(passage[w].at) = DayOf(tick) \/ <<w, DayOf(tick)>> \in nights

\* Who left has entered before on the same day, or was inside when it began.
ExitsFollowEntries ==
    \A w \in Crew : w \notin unrecorded =>
      \A out \in Passages(w) : out.kind = "EXIT" =>
        \/ <<w, DayOf(out.at)>> \in nights
        \/ \E entry \in Passages(w) :
             entry.kind = "ENTRY" /\ entry.at < out.at /\ DayOf(entry.at) = DayOf(out.at)

\* The bound counts every call to record.
RecordsAreCounted ==
    /\ Begun <= MaxEvents
    /\ unrecorded = {} \/ \E w \in Crew : unrecorded = {w}

\* An entry of the day has a trust above 1.
Exceeds(day) == \E i \in Logged("ENTRY", day) : journey[i].trust > Full

\* The figures that were read first keep their scale.
FiguresKeepTheirScale ==
    question # Absent => /\ question.ppe <= Full
                         /\ question.trust <= Full \/ Exceeds(question.day)
                         /\ question.attendance <= Full \/ question.present > question.expected

SiteInv ==
    /\ SiteTypeOK
    /\ RecordsAreCounted
    /\ PassageIsLast
    /\ NightsAreInside
    /\ ExitsFollowEntries
    /\ FiguresKeepTheirScale

-----------------------------------------------------------------------------
(* Days and rates                                                          *)

LEMMA TimesGrows == ASSUME NEW a \in Nat, NEW b \in Nat, NEW c \in Nat, a <= b PROVE a * c <= b * c
  OBVIOUS

LEMMA DivisionFacts ==
  ASSUME NEW t \in Nat, NEW d \in Nat \ {0}
  PROVE  t \div d \in Nat /\ t % d \in 0..(d - 1) /\ t = (t \div d) * d + (t % d)
  OBVIOUS

LEMMA DivisionGrows ==
  ASSUME NEW t \in Nat, NEW u \in Nat, t <= u, NEW d \in Nat \ {0}
  PROVE  t \div d <= u \div d
<1> DEFINE q == t \div d
           p == u \div d
<1>1. q \in Nat /\ p \in Nat /\ q * d <= t /\ u < p * d + d
  BY DivisionFacts
<1> HIDE DEF q, p
<1>2. ASSUME p < q PROVE FALSE
  <2>1. (p + 1) * d <= q * d
    BY <1>1, <1>2, TimesGrows
  <2>2. (p + 1) * d = p * d + d
    BY <1>1
  <2> QED  BY <1>1, <2>1, <2>2
<1> QED  BY <1>1, <1>2 DEF q, p

\* Days of stamps: in order, numbered from 0, and a day begins at its first tick.
LEMMA DaysInOrder ==
  ASSUME NEW t \in Nat, NEW u \in Nat, t <= u
  PROVE  DayOf(t) \in Nat /\ DayOf(u) \in Nat /\ DayOf(t) <= DayOf(u)
<1>1. DayTicks \in Nat \ {0}
  BY SiteAssumption
<1> QED  BY <1>1, DivisionGrows, DivisionFacts DEF DayOf

LEMMA DayBegins ==
  ASSUME NEW t \in Nat, NEW day \in Nat
  PROVE  t >= day * DayTicks <=> DayOf(t) >= day
<1> DEFINE d == DayTicks
           q == t \div d
<1>0. d \in Nat \ {0}
  BY SiteAssumption
<1>1. q \in Nat /\ q * d <= t /\ t < q * d + d /\ DayOf(t) = q
  BY <1>0, DivisionFacts DEF DayOf
<1> HIDE DEF d, q
<1>2. ASSUME q >= day PROVE t >= day * d
  <2>1. day * d <= q * d
    BY <1>0, <1>1, <1>2, TimesGrows
  <2>2. day * d \in Nat /\ q * d \in Nat
    BY <1>0, <1>1
  <2> QED  BY <1>1, <2>1, <2>2
<1>3. ASSUME ~ (q >= day) PROVE ~ (t >= day * d)
  <2>1. q + 1 <= day
    BY <1>1, <1>3
  <2>2. (q + 1) * d <= day * d
    BY <1>0, <1>1, <2>1, TimesGrows
  <2>3. (q + 1) * d = q * d + d
    BY <1>0, <1>1
  <2>4. day * d \in Nat /\ q * d \in Nat
    BY <1>0, <1>1
  <2> QED  BY <1>0, <1>1, <2>2, <2>3, <2>4
<1> QED  BY <1>1, <1>2, <1>3 DEF d

\* Whatever precedes a stamp on its day is not in the last second of the day.
LEMMA NotInLastSecond ==
  ASSUME NEW t \in Nat, NEW u \in Nat, t < u, DayOf(t) = DayOf(u)
  PROVE  InDay(t, DayOf(t))
<1> DEFINE d == DayTicks
           q == t \div d
           r == t % d
           s == u % d
<1>0. d \in Nat \ {0}
  BY SiteAssumption
<1>1. q \in Nat /\ r \in 0..(d - 1) /\ s \in 0..(d - 1) /\ t = q * d + r /\ u = q * d + s
  <2>1. u \div d = q
    BY DEF DayOf
  <2> QED  BY <1>0, <2>1, DivisionFacts
<1> HIDE DEF q, r, s, d
<1>2. r < s
  <2>1. q * d \in Nat
    BY <1>0, <1>1
  <2> QED  BY <1>0, <1>1, <2>1
<1>3. r # d - 1
  BY <1>0, <1>1, <1>2
<1> QED  BY <1>3 DEF InDay, r, d

\* A part of a whole has a rate of at most 1.
LEMMA RateScale ==
  ASSUME NEW part \in Nat, NEW whole \in Nat \ {0}
  PROVE  Rate(part, whole) \in Nat /\ (part <= whole => Rate(part, whole) <= Full)
<1> DEFINE half == whole \div 2
           n == part * Full + half
           q == n \div whole
<1>1. half \in Nat /\ 2 * half <= whole
  OBVIOUS
<1>2. n \in Nat
  BY <1>1 DEF Full
<1>3. Rate(part, whole) = q
  BY DEF Rate
<1>4. n = part * 10000 + half
  BY DEF Full
<1> HIDE DEF n, half
<1>5. q \in Nat /\ n = q * whole + (n % whole) /\ n % whole \in Nat
  BY <1>2, DivisionFacts
<1> HIDE DEF q
<1>6. ASSUME part <= whole, q > 10000 PROVE FALSE
  <2>1. 10001 * whole <= q * whole
    BY <1>5, <1>6, TimesGrows
  <2>2. q * whole \in Nat
    BY <1>5
  <2> QED  BY <1>1, <1>4, <1>5, <1>6, <2>1, <2>2
<1> QED  BY <1>3, <1>5, <1>6 DEF Full

\* What is summed up over n numbers of at most 1 has a mean of at most 1.
LEMMA SumOfFull ==
  ASSUME NEW S, IsFiniteSet(S)
  PROVE  SumFunction([i \in S |-> Full]) = Full * Cardinality(S)
<1> DEFINE f == [i \in S |-> Full]
<1>1. f \in [S -> Int] /\ \A i \in S : f[i] = Full
  BY DEF Full
<1> HIDE DEF f
<1>2. PICK sum \in [SUBSET S -> Int] :
         /\ sum[{}] = 0
         /\ \A s \in SUBSET S : \A x \in s : sum[s] = f[x] + sum[s \ {x}]
         /\ SumFunction(f) = sum[S]
  BY <1>1, SumTakesOut
<1> DEFINE T == {s \in SUBSET S : sum[s] = 10000 * Cardinality(s)}
<1>3. ASSUME NEW s \in SUBSET S, \A r \in SUBSET s : r # s => r \in T
      PROVE  s \in T
  <2>1. CASE s = {}
    BY <1>2, <2>1, FS_EmptySet
  <2>2. CASE s # {}
    <3>1. PICK x \in s : TRUE
      BY <2>2
    <3>2. s \ {x} \in T
      BY <1>3, <3>1
    <3>3. IsFiniteSet(s) /\ Cardinality(s) \in Nat
      BY FS_Subset, FS_CardinalityType
    <3>4. Cardinality(s \ {x}) = Cardinality(s) - 1
      BY <3>1, <3>3, FS_RemoveElement
    <3>5. sum[s] = 10000 + sum[s \ {x}]
      BY <1>1, <1>2, <3>1 DEF Full
    <3>6. sum[s \ {x}] = 10000 * Cardinality(s \ {x})
      BY <3>2
    <3>7. sum[s] = 10000 * Cardinality(s)
      BY <3>3, <3>4, <3>5, <3>6
    <3> QED  BY <3>7
  <2> QED  BY <2>1, <2>2
<1> HIDE DEF T
<1>4. T = SUBSET S
  <2>1. T \in SUBSET (SUBSET S)
    BY DEF T
  <2> QED  BY <1>3, <2>1, SubsetsInduct, Zenon
<1>5. S \in T
  BY <1>4
<1> QED  BY <1>2, <1>5 DEF T, f, Full

LEMMA MeanScale ==
  ASSUME NEW S, IsFiniteSet(S), NEW f \in [S -> Nat], NEW n \in Nat \ {0}, Cardinality(S) <= n
  PROVE  LET mean == (SumFunction(f) + n \div 2) \div n
         IN mean \in Nat /\ ((\A i \in S : f[i] <= Full) => mean <= Full)
<1> DEFINE half == n \div 2
           sum == SumFunction(f)
           t == sum + half
           mean == t \div n
<1>1. sum \in Nat
  <2>1. \A i \in S : f[i] <= f[i]
    OBVIOUS
  <2> QED  BY <2>1, SumGrows
<1>2. ASSUME \A i \in S : f[i] <= Full PROVE sum <= 10000 * n
  <2> DEFINE g == [i \in S |-> Full]
  <2>1. g \in [S -> Nat] /\ \A i \in S : f[i] <= g[i]
    BY <1>2 DEF Full
  <2>2. SumFunction(g) = 10000 * Cardinality(S) /\ Cardinality(S) \in Nat
    BY SumOfFull, FS_CardinalityType DEF Full
  <2> HIDE DEF g
  <2>3. sum <= SumFunction(g)
    BY <2>1, SumGrows
  <2> HIDE DEF sum
  <2> QED  BY <1>1, <2>2, <2>3
<1>3. half \in Nat /\ 2 * half <= n
  OBVIOUS
<1> HIDE DEF sum, half
<1>4. t \in Nat /\ t = sum + half
  BY <1>1, <1>3
<1> HIDE DEF t
<1>5. mean \in Nat /\ t = mean * n + (t % n) /\ t % n \in Nat
  <2>1. mean \in Nat /\ t % n \in 0..(n - 1) /\ t = mean * n + (t % n)
    BY ONLY <1>4, DivisionFacts, n \in Nat \ {0}
  <2> QED  BY <2>1
<1> HIDE DEF mean
<1>6. ASSUME sum <= 10000 * n, mean > 10000 PROVE FALSE
  <2>1. 10001 * n <= mean * n
    BY <1>5, <1>6, TimesGrows
  <2>2. mean * n \in Nat
    BY <1>5
  <2> QED  BY <1>1, <1>3, <1>4, <1>5, <1>6, <2>1, <2>2
<1>7. mean \in Nat /\ ((\A i \in S : f[i] <= Full) => mean <= Full)
  BY <1>2, <1>5, <1>6 DEF Full
<1> QED  BY <1>7 DEF mean, t, sum, half

-----------------------------------------------------------------------------
(* Types                                                                   *)

LEMMA RowFields ==
  \A row \in Row : /\ row.who \in Crew /\ row.at \in 0..LastTick
                   /\ row.kind \in EventKinds /\ row.trust \in Nat
BY Zenon DEF Row

LEMMA PassageFields ==
  \A p \in Passage : p.kind \in {"ENTRY", "EXIT"} /\ p.at \in -1..LastTick
BY Zenon DEF Passage

LEMMA PassageOf ==
  ASSUME SiteTypeOK, NEW w \in Crew
  PROVE  passage[w].kind \in {"ENTRY", "EXIT"} /\ passage[w].at \in -1..LastTick
<1>1. passage[w] \in Passage
  BY DEF SiteTypeOK
<1> QED  BY <1>1, PassageFields

\* Any set of rows of the table is finite, and so are the workers they name.
LEMMA RowSets ==
  ASSUME journey \in Seq(Row), NEW L \in SUBSET DOMAIN journey
  PROVE  /\ IsFiniteSet(L) /\ Cardinality(L) \in Nat
         /\ Cardinality({journey[i].who : i \in L}) \in Nat
<1>1. IsFiniteSet(DOMAIN journey)
  BY FS_Interval
<1>2. IsFiniteSet(L) /\ Cardinality(L) \in Nat
  BY <1>1, FS_Subset, FS_CardinalityType
<1> DEFINE T == {journey[i].who : i \in L}
           f == [i \in L |-> journey[i].who]
<1>3. f \in Surjection(L, T)
  BY DEF Surjection
<1>4. IsFiniteSet(T)
  BY <1>2, <1>3, FS_Surjection
<1> QED  BY <1>2, <1>4, FS_CardinalityType

LEMMA LoggedRows == \A kind, day : Logged(kind, day) \in SUBSET DOMAIN journey
BY DEF Logged

\* The mean of the trust scores of a day.
LEMMA TrustScale ==
  ASSUME SiteTypeOK, NEW day
  PROVE  AverageTrust(day) \in Nat /\ (AverageTrust(day) <= Full \/ Exceeds(day))
<1> DEFINE scored == {i \in Logged("ENTRY", day) : journey[i].trust > 0}
           n == AtLeastOne(Cardinality(scored))
           f == [i \in scored |-> journey[i].trust]
           mean == (SumFunction(f) + n \div 2) \div n
<1>1. journey \in Seq(Row) /\ scored \in SUBSET DOMAIN journey
  BY LoggedRows DEF SiteTypeOK
<1>2. \A i \in scored : journey[i].trust \in Nat
  BY <1>1, RowFields
<1>3. f \in [scored -> Nat] /\ \A i \in scored : f[i] = journey[i].trust
  BY <1>2
<1>4. (\A i \in scored : journey[i].trust <= Full) \/ Exceeds(day)
  BY <1>2 DEF Exceeds, Full
<1>5. AverageTrust(day) = mean
  BY DEF AverageTrust
<1> HIDE DEF scored, f
<1>6. IsFiniteSet(scored) /\ Cardinality(scored) \in Nat
  BY <1>1, RowSets
<1>7. n \in Nat \ {0} /\ Cardinality(scored) <= n
  BY <1>6 DEF AtLeastOne
<1> HIDE DEF n
<1>8. mean \in Nat /\ ((\A i \in scored : f[i] <= Full) => mean <= Full)
  BY <1>3, <1>6, <1>7, MeanScale
<1> HIDE DEF mean
<1> QED  BY <1>3, <1>4, <1>5, <1>8

\* What a health score reads first.
LEMMA IntelligenceScale ==
  ASSUME SiteTypeOK, NEW day \in Nat, NEW expected \in Nat
  PROVE  LET f == Intelligence(day, expected)
         IN  /\ f \in Figures /\ f.day = day /\ f.ppe <= Full
             /\ f.trust <= Full \/ Exceeds(day)
             /\ f.attendance <= Full \/ f.present > f.expected
<1> DEFINE entries == Logged("ENTRY", day)
           equipped == {i \in entries : journey[i].ppe}
           late == {j \in entries : journey[j].at % DayTicks > 0}
           failing == {i \in DOMAIN journey : InDay(journey[i].at, day) /\ ~journey[i].live}
           present == Cardinality(Present(day))
           some == AtLeastOne(Cardinality(entries))
           absent == IF expected > present THEN expected - present ELSE 0
           attendance == IF expected > 0 THEN Rate(present, expected) ELSE 0
           ppe == Rate(Cardinality(equipped), some)
           trust == AverageTrust(day)
           f == Intelligence(day, expected)
<1>1. journey \in Seq(Row)
  BY DEF SiteTypeOK
<1>2. /\ entries \in SUBSET DOMAIN journey /\ equipped \in SUBSET entries
      /\ equipped \in SUBSET DOMAIN journey
      /\ late \in SUBSET DOMAIN journey /\ failing \in SUBSET DOMAIN journey
  BY LoggedRows
<1>3. /\ IsFiniteSet(entries) /\ Cardinality(entries) \in Nat /\ Cardinality(equipped) \in Nat
      /\ Cardinality(failing) \in Nat
      /\ Cardinality({journey[i].who : i \in late}) \in Nat
      /\ Cardinality({journey[i].who : i \in entries}) \in Nat
  <2> HIDE DEF entries, equipped, late, failing
  <2> QED  BY <1>1, <1>2, RowSets
<1>4. Cardinality(equipped) <= Cardinality(entries)
  <2> HIDE DEF entries, equipped
  <2> QED  BY <1>2, <1>3, FS_Subset
<1>5. present \in Nat /\ Cardinality(Late(day)) \in Nat
  BY <1>3 DEF Present, Late
<1>6. some \in Nat \ {0} /\ Cardinality(equipped) <= some
  <2> DEFINE n == Cardinality(entries)
             m == Cardinality(equipped)
  <2>1. n \in Nat /\ m \in Nat /\ m <= n /\ some = IF n = 0 THEN 1 ELSE n
    BY <1>3, <1>4 DEF AtLeastOne
  <2> HIDE DEF n, m, some
  <2> QED  BY <2>1 DEF m
<1>7. ppe \in Nat /\ ppe <= Full
  <2> HIDE DEF equipped, some
  <2> QED  BY <1>3, <1>6, RateScale
<1>8. trust \in Nat /\ (trust <= Full \/ Exceeds(day))
  BY TrustScale
<1>9. attendance \in Nat /\ (attendance <= Full \/ present > expected)
  <2> HIDE DEF present
  <2>1. CASE expected > 0
    <3>1. expected \in Nat \ {0}
      BY <2>1
    <3>2. Rate(present, expected) \in Nat /\ (present <= expected => Rate(present, expected) <= Full)
      BY <1>5, <3>1, RateScale
    <3> QED  BY <1>5, <2>1, <3>2
  <2>2. CASE ~ (expected > 0)
    BY <2>2 DEF Full
  <2> QED  BY <2>1, <2>2
<1>10. absent \in Nat
  <2> HIDE DEF present
  <2> QED  BY <1>5
<1>11. f = [day |-> day, expected |-> expected, present |-> present, absent |-> absent,
            late |-> Cardinality(Late(day)), attendance |-> attendance, ppe |-> ppe,
            trust |-> trust, failed |-> Cardinality(failing)]
  BY DEF Intelligence
<1> HIDE DEF f, entries, equipped, late, failing, present, some, absent, attendance, ppe, trust
<1>12. f \in Figures
  BY <1>3, <1>5, <1>7, <1>8, <1>9, <1>10, <1>11 DEF Figures
<1>13. f.ppe = ppe /\ f.trust = trust /\ f.attendance = attendance /\ f.present = present
       /\ f.expected = expected /\ f.day = day
  BY <1>11
<1>14. f.ppe <= Full /\ (f.trust <= Full \/ Exceeds(day)) /\ (f.attendance <= Full \/ f.present > f.expected)
  BY <1>7, <1>8, <1>9, <1>13
<1> QED  BY <1>12, <1>13, <1>14 DEF f

\* The score from figures with that scale.
LEMMA ScoreScale ==
  ASSUME SiteTypeOK, NEW figures \in Figures, NEW reported \in Nat,
         figures.ppe <= Full
  PROVE  /\ Score(figures, reported) \in Int /\ Score(figures, reported) >= 0
         /\ figures.attendance <= Full /\ figures.trust <= Full =>
              Score(figures, reported) <= 100 * Full
<1> DEFINE L == Logged("ENTRY", figures.day)
           P == PassedLiveness(figures.day)
           workforce == AtLeastOne(figures.present)
           security == IF reported >= workforce THEN 0 ELSE Full - Rate(reported, workforce)
           a == figures.attendance
           b == figures.ppe
           c == figures.trust
           r == Rate(Cardinality(P), AtLeastOne(Cardinality(L)))
<1>1. a \in Nat /\ b \in Nat /\ c \in Nat /\ figures.present \in Nat
  BY DEF Figures
<1>2. L \in SUBSET DOMAIN journey /\ P \in SUBSET L /\ journey \in Seq(Row)
  BY LoggedRows DEF PassedLiveness, SiteTypeOK
<1> HIDE DEF L, P
<1>3. /\ IsFiniteSet(L) /\ Cardinality(L) \in Nat
      /\ Cardinality(P) \in Nat /\ Cardinality(P) <= Cardinality(L)
  <2>1. IsFiniteSet(L) /\ Cardinality(L) \in Nat
    BY <1>2, RowSets
  <2>2. IsFiniteSet(P) /\ Cardinality(P) <= Cardinality(L)
    BY <1>2, <2>1, FS_Subset
  <2> QED  BY <2>1, <2>2, FS_CardinalityType
<1>4. r \in Nat /\ r <= 10000
  <2> DEFINE n == AtLeastOne(Cardinality(L))
  <2>1. n \in Nat \ {0} /\ Cardinality(P) <= n
    BY <1>3 DEF AtLeastOne
  <2> HIDE DEF n
  <2>2. Rate(Cardinality(P), n) \in Nat /\ Rate(Cardinality(P), n) <= Full
    BY <1>3, <2>1, RateScale
  <2> QED  BY <2>2 DEF n, Full
<1>5. security \in Nat /\ security <= 10000
  <2>1. workforce \in Nat \ {0}
    BY <1>1 DEF AtLeastOne
  <2> HIDE DEF workforce
  <2>2. Rate(reported, workforce) \in Nat
        /\ (reported <= workforce => Rate(reported, workforce) <= Full)
    BY <2>1, RateScale
  <2> QED  BY <2>1, <2>2 DEF Full
<1>6. Score(figures, reported) = a * 30 + b * 25 + c * 20 + security * 15 + r * 10
  BY DEF Score, L, P
<1>7. b <= 10000
  BY DEF Full
<1> HIDE DEF a, b, c, r, security
<1>8. /\ a * 30 + b * 25 + c * 20 + security * 15 + r * 10 \in Int
      /\ a * 30 + b * 25 + c * 20 + security * 15 + r * 10 >= 0
  BY <1>1, <1>4, <1>5
<1>9. a <= 10000 /\ c <= 10000 => a * 30 + b * 25 + c * 20 + security * 15 + r * 10 <= 1000000
  BY <1>1, <1>4, <1>5, <1>7
<1> QED  BY <1>6, <1>8, <1>9 DEF Full, a, c

-----------------------------------------------------------------------------
(* Steps                                                                   *)

Unwritten == {r \in Recorders : recording[r] # Absent}

LEMMA BegunIs == Begun = Len(journey) + Cardinality(Unwritten) + Cardinality(unrecorded)
BY DEF Begun, Unwritten

LEMMA UnwrittenAfter ==
  ASSUME NEW r \in Recorders, NEW row, recording \in [Recorders -> Row \cup {Absent}],
         recording' = [recording EXCEPT ![r] = row]
  PROVE  /\ IsFiniteSet(Unwritten) /\ Cardinality(Unwritten) \in Nat
         /\ recording[r] = Absent /\ row # Absent => Cardinality(Unwritten') = Cardinality(Unwritten) + 1
         /\ recording[r] # Absent /\ row = Absent => Cardinality(Unwritten') + 1 = Cardinality(Unwritten)
<1>1. recording'[r] = row /\ \A s \in Recorders : s # r => recording'[s] = recording[s]
  OBVIOUS
<1>2. IsFiniteSet(Unwritten) /\ Cardinality(Unwritten) \in Nat
  <2>1. IsFiniteSet(Recorders) /\ Unwritten \in SUBSET Recorders
    BY SiteAssumption DEF Unwritten
  <2> QED  BY <2>1, FS_Subset, FS_CardinalityType
<1>3. ASSUME recording[r] = Absent, row # Absent
      PROVE  Cardinality(Unwritten') = Cardinality(Unwritten) + 1
  <2>1. Unwritten' = Unwritten \cup {r} /\ r \notin Unwritten
    BY <1>1, <1>3 DEF Unwritten
  <2> QED  BY <1>2, <2>1, FS_AddElement
<1>4. ASSUME recording[r] # Absent, row = Absent
      PROVE  Cardinality(Unwritten') + 1 = Cardinality(Unwritten)
  <2>1. Unwritten' = Unwritten \ {r} /\ r \in Unwritten
    BY <1>1, <1>4 DEF Unwritten
  <2>2. Cardinality(Unwritten') = Cardinality(Unwritten) - 1
    BY <1>2, <2>1, FS_RemoveElement
  <2> QED  BY <1>2, <2>2
<1> QED  BY <1>2, <1>3, <1>4

LEMMA LostIsCounted == ASSUME RecordsAreCounted PROVE Cardinality(unrecorded) \in Nat
<1>1. CASE unrecorded = {}
  BY <1>1, FS_EmptySet
<1>2. CASE \E w \in Crew : unrecorded = {w}
  <2>1. PICK w \in Crew : unrecorded = {w}
    BY <1>2
  <2>2. Cardinality({w}) = 1
    BY FS_Singleton
  <2> QED  BY <2>1, <2>2
<1> QED  BY <1>1, <1>2 DEF RecordsAreCounted

\* Nothing is said of the passages but through the rows that are held.
LEMMA PassagesOf ==
  \A w, row : row \in Passages(w) <=> row \in Row /\ row.who = w /\ row.kind # "OTHER" /\ Held(row)
BY DEF Passages

\* Steps that concern neither rows nor passages.
LEMMA OtherSiteSteps ==
  ASSUME SiteInv, UNCHANGED <<journey, recording, passage, unrecorded, tick, nights>>,
         question' \in Figures \cup {Absent}, FiguresKeepTheirScale'
  PROVE  SiteInv'
<1>1. SiteTypeOK'
  BY DEF SiteInv, SiteTypeOK
<1>2. RecordsAreCounted' /\ NightsAreInside'
  BY DEF SiteInv, RecordsAreCounted, Begun, NightsAreInside, Inside
<1>3. \A w : Passages(w)' = Passages(w)
  BY DEF Passages, Held
<1>4. PassageIsLast' /\ ExitsFollowEntries'
  <2>1. PassageIsLast /\ ExitsFollowEntries
    BY DEF SiteInv
  <2> QED  BY <1>3, <2>1 DEF PassageIsLast, ExitsFollowEntries
<1> QED  BY <1>1, <1>2, <1>4 DEF SiteInv

LEMMA AskHealthKeeps == ASSUME SiteInv, AskHealth PROVE SiteInv'
<1>1. SiteTypeOK /\ tick \in Nat
  BY SiteAssumption DEF SiteInv, SiteTypeOK
<1>2. DayOf(tick) \in Nat
  BY <1>1, DaysInOrder
<1>3. PICK expected \in Expectations : question' = Intelligence(DayOf(tick), expected)
  BY DEF AskHealth
<1>4. expected \in Nat
  BY SiteAssumption
<1>5. \A day : Exceeds(day)' <=> Exceeds(day)
  BY DEF AskHealth, Exceeds, Logged
<1>6. /\ question' \in Figures /\ question'.day = DayOf(tick) /\ question'.ppe <= Full
      /\ question'.trust <= Full \/ Exceeds(DayOf(tick))
      /\ question'.attendance <= Full \/ question'.present > question'.expected
  BY <1>1, <1>2, <1>3, <1>4, IntelligenceScale
<1>7. FiguresKeepTheirScale'
  BY <1>5, <1>6 DEF FiguresKeepTheirScale
<1> QED  BY <1>6, <1>7, OtherSiteSteps DEF AskHealth

LEMMA AnswerHealthKeeps == ASSUME SiteInv, AnswerHealth PROVE SiteInv'
<1>1. question' \in Figures \cup {Absent} /\ FiguresKeepTheirScale'
  BY DEF AnswerHealth, FiguresKeepTheirScale
<1> QED  BY <1>1, OtherSiteSteps DEF AnswerHealth

\* A day begins with a night for everybody inside.
LEMMA ClockMovesKeeps == ASSUME SiteInv, ClockMoves PROVE SiteInv'
<1>1. /\ SiteTypeOK /\ RecordsAreCounted /\ PassageIsLast /\ NightsAreInside /\ ExitsFollowEntries
      /\ FiguresKeepTheirScale
      /\ tick' = tick + 1 /\ tick < LastTick
      /\ journey' = journey /\ recording' = recording /\ question' = question
      /\ passage' = passage /\ unrecorded' = unrecorded
  BY DEF SiteInv, ClockMoves
<1>2. tick \in 0..LastTick /\ LastTick \in Nat /\ tick \in Nat /\ tick' \in Nat /\ tick' \in 0..LastTick
      /\ nights \subseteq Crew \X Nat
  BY <1>1, SiteAssumption DEF SiteTypeOK
<1>3. nights \subseteq nights' /\ nights' \subseteq Crew \X Nat
  <2>1. DayOf(tick') \in Nat
    BY <1>2, DaysInOrder
  <2> QED  BY <1>2, <2>1 DEF ClockMoves
<1>4. SiteTypeOK'
  BY <1>1, <1>2, <1>3 DEF SiteTypeOK
<1>5. RecordsAreCounted' /\ FiguresKeepTheirScale'
  BY <1>1 DEF RecordsAreCounted, Begun, FiguresKeepTheirScale, Exceeds, Logged
<1>6. \A w : Passages(w)' = Passages(w)
  BY <1>1 DEF Passages, Held
<1>7. PassageIsLast'
  <2>1. \A w \in Crew : passage'[w].at <= tick'
    <3> SUFFICES ASSUME NEW w \in Crew PROVE passage[w].at <= tick + 1
      BY <1>1
    <3>1. passage[w].at \in -1..LastTick /\ passage[w].at <= tick
      BY <1>1, PassageOf DEF PassageIsLast
    <3> QED  BY <1>2, <3>1
  <2> QED  BY <1>1, <1>6, <2>1 DEF PassageIsLast
<1>8. NightsAreInside'
  <2> SUFFICES ASSUME NEW w \in Crew, passage[w].kind = "ENTRY"
               PROVE  DayOf(passage[w].at) = DayOf(tick') \/ <<w, DayOf(tick')>> \in nights'
    BY <1>1 DEF NightsAreInside, Inside, DayOf
  <2>1. CASE DayOf(tick') = DayOf(tick)
    BY <1>1, <1>3, <2>1 DEF NightsAreInside, Inside
  <2>2. CASE DayOf(tick') # DayOf(tick)
    <3>1. w \in {v \in Crew : Inside(v)}
      BY DEF Inside
    <3>2. nights' = nights \cup {<<v, DayOf(tick')>> : v \in {u \in Crew : Inside(u)}}
      BY <2>2 DEF ClockMoves
    <3> QED  BY <3>1, <3>2
  <2> QED  BY <2>1, <2>2
<1>9. ExitsFollowEntries'
  BY <1>1, <1>3, <1>6 DEF ExitsFollowEntries
<1> QED  BY <1>4, <1>5, <1>7, <1>8, <1>9 DEF SiteInv

\* The row goes from the call to the table.
LEMMA InsertKeeps == ASSUME NEW r \in Recorders, SiteInv, Insert(r) PROVE SiteInv'
<1> DEFINE row == recording[r]
<1>1. /\ SiteTypeOK /\ RecordsAreCounted /\ PassageIsLast /\ NightsAreInside /\ ExitsFollowEntries
      /\ FiguresKeepTheirScale
      /\ row # Absent /\ journey' = Append(journey, row)
      /\ recording' = [recording EXCEPT ![r] = Absent]
      /\ tick' = tick /\ question' = question /\ nights' = nights
      /\ passage' = passage /\ unrecorded' = unrecorded
  BY DEF SiteInv, Insert
<1>2. recording \in [Recorders -> Row \cup {Absent}] /\ row \in Row /\ journey \in Seq(Row)
      /\ Len(journey) \in Nat /\ MaxEvents \in Nat
  BY <1>1, SiteAssumption DEF SiteTypeOK
<1> HIDE DEF row
<1>3. /\ journey' \in Seq(Row) /\ Len(journey') = Len(journey) + 1
      /\ recording' \in [Recorders -> Row \cup {Absent}]
      /\ recording'[r] = Absent /\ \A s \in Recorders : s # r => recording'[s] = recording[s]
      /\ DOMAIN journey = 1..Len(journey) /\ DOMAIN journey' = 1..(Len(journey) + 1)
      /\ \A i \in DOMAIN journey : journey'[i] = journey[i]
      /\ journey'[Len(journey) + 1] = row
  BY <1>1, <1>2
<1>4. Begun' = Begun /\ Len(journey') <= MaxEvents
  <2> DEFINE n == Len(journey)
             c == Cardinality(Unwritten)
             u == Cardinality(unrecorded)
             n1 == Len(journey')
             c1 == Cardinality(Unwritten')
  <2>1. c \in Nat /\ c1 + 1 = c
    BY <1>1, <1>2, UnwrittenAfter DEF row
  <2>2. u \in Nat
    BY <1>1, LostIsCounted
  <2>3. n \in Nat /\ n1 = n + 1 /\ n + c + u <= MaxEvents
    BY <1>1, <1>2, <1>3, BegunIs DEF RecordsAreCounted
  <2>4. c1 \in Nat
    <3>1. IsFiniteSet(Recorders) /\ Unwritten' \in SUBSET Recorders
      BY SiteAssumption DEF Unwritten
    <3> QED  BY <3>1, FS_Subset, FS_CardinalityType
  <2>5. Begun = n + c + u /\ Begun' = n1 + c1 + u
    BY <1>1, BegunIs DEF Begun, Unwritten
  <2> HIDE DEF n, c, u, n1, c1
  <2>6. n1 <= MaxEvents /\ n1 + c1 + u = n + c + u
    BY <1>2, <2>1, <2>2, <2>3, <2>4
  <2> QED  BY <2>5, <2>6 DEF n1
<1>5. SiteTypeOK'
  BY <1>1, <1>3, <1>4 DEF SiteTypeOK
<1>6. RecordsAreCounted' /\ FiguresKeepTheirScale'
  <2>1. ASSUME NEW day, Exceeds(day) PROVE Exceeds(day)'
    <3>1. PICK i \in Logged("ENTRY", day) : journey[i].trust > Full
      BY <2>1 DEF Exceeds
    <3>2. i \in DOMAIN journey' /\ journey'[i] = journey[i]
      BY <1>2, <1>3, <3>1 DEF Logged
    <3> QED  BY <3>1, <3>2 DEF Exceeds, Logged
  <2>2. FiguresKeepTheirScale'
    BY <1>1, <2>1 DEF FiguresKeepTheirScale
  <2> QED  BY <1>1, <1>4, <2>2 DEF RecordsAreCounted
<1>7. \A x \in Row : Held(x)' <=> Held(x)
  <2> SUFFICES ASSUME NEW x \in Row PROVE Held(x)' <=> Held(x)
    OBVIOUS
  <2>0. x # Absent
    BY SiteAssumption
  <2>1. ASSUME Held(x)' PROVE Held(x)
    <3>1. CASE \E i \in DOMAIN journey' : journey'[i] = x
      <4>1. PICK i \in 1..(Len(journey) + 1) : journey'[i] = x
        BY <1>3, <3>1
      <4>2. CASE i = Len(journey) + 1
        BY <1>3, <4>1, <4>2 DEF Held, row
      <4>3. CASE i # Len(journey) + 1
        <5>1. i \in DOMAIN journey
          BY <1>2, <1>3, <4>3
        <5> QED  BY <1>3, <4>1, <5>1 DEF Held
      <4> QED  BY <4>2, <4>3
    <3>2. CASE \E s \in Recorders : recording'[s] = x
      BY <1>3, <2>0, <3>2 DEF Held
    <3> QED  BY <2>1, <3>1, <3>2 DEF Held
  <2>2. ASSUME Held(x) PROVE Held(x)'
    <3>1. CASE \E i \in DOMAIN journey : journey[i] = x
      <4>1. PICK i \in DOMAIN journey : journey[i] = x
        BY <3>1
      <4>2. i \in DOMAIN journey' /\ journey'[i] = x
        BY <1>2, <1>3, <4>1
      <4> QED  BY <4>2 DEF Held
    <3>2. CASE \E s \in Recorders : recording[s] = x
      <4>1. PICK s \in Recorders : recording[s] = x
        BY <3>2
      <4>2. CASE s = r
        <5>1. Len(journey) + 1 \in DOMAIN journey' /\ journey'[Len(journey) + 1] = x
          BY <1>2, <1>3, <4>1, <4>2 DEF row
        <5> QED  BY <5>1 DEF Held
      <4>3. CASE s # r
        <5>1. recording'[s] = x
          BY <1>3, <4>1, <4>3
        <5> QED  BY <5>1 DEF Held
      <4> QED  BY <4>2, <4>3
    <3> QED  BY <2>2, <3>1, <3>2 DEF Held
  <2> QED  BY <2>1, <2>2
<1>8. \A w : Passages(w)' = Passages(w)
  BY <1>7 DEF Passages
<1>9. PassageIsLast' /\ ExitsFollowEntries' /\ NightsAreInside'
  BY <1>1, <1>8 DEF PassageIsLast, ExitsFollowEntries, NightsAreInside, Inside
<1> QED  BY <1>5, <1>6, <1>9 DEF SiteInv

\* The row is lost, and nothing more is said of the worker.
LEMMA InsertFailsKeeps == ASSUME NEW r \in Recorders, SiteInv, InsertFails(r) PROVE SiteInv'
<1> DEFINE row == recording[r]
           lost == row.who
<1>1. /\ SiteTypeOK /\ RecordsAreCounted /\ PassageIsLast /\ NightsAreInside /\ ExitsFollowEntries
      /\ FiguresKeepTheirScale
      /\ row # Absent /\ unrecorded = {} /\ unrecorded' = {lost}
      /\ recording' = [recording EXCEPT ![r] = Absent]
      /\ tick' = tick /\ question' = question /\ nights' = nights
      /\ passage' = passage /\ journey' = journey
  BY DEF SiteInv, InsertFails
<1>2. recording \in [Recorders -> Row \cup {Absent}] /\ row \in Row
  BY <1>1 DEF SiteTypeOK
<1>3. lost \in Crew
  BY <1>2, RowFields
<1> HIDE DEF row
<1>4. /\ recording' \in [Recorders -> Row \cup {Absent}]
      /\ recording'[r] = Absent /\ \A s \in Recorders : s # r => recording'[s] = recording[s]
  BY <1>1, <1>2
<1> HIDE DEF lost
<1>5. SiteTypeOK'
  BY <1>1, <1>3, <1>4 DEF SiteTypeOK
<1>6. RecordsAreCounted'
  <2> DEFINE c == Cardinality(Unwritten)
             c1 == Cardinality(Unwritten')
             n == Len(journey)
  <2>1. c \in Nat /\ c1 + 1 = c
    BY <1>1, <1>2, UnwrittenAfter DEF row
  <2>2. Cardinality(unrecorded) = 0 /\ Cardinality(unrecorded') = 1
    BY <1>1, FS_EmptySet, FS_Singleton
  <2>3. n + c + 0 <= MaxEvents /\ n \in Nat
    BY <1>1, <2>2, BegunIs DEF RecordsAreCounted, SiteTypeOK
  <2>4. c1 \in Nat
    <3>1. IsFiniteSet(Recorders) /\ Unwritten' \in SUBSET Recorders
      BY SiteAssumption DEF Unwritten
    <3> QED  BY <3>1, FS_Subset, FS_CardinalityType
  <2>5. Begun' = n + c1 + 1
    BY <1>1, <2>2 DEF Begun, Unwritten
  <2>6. MaxEvents \in Nat
    BY SiteAssumption
  <2> HIDE DEF n, c, c1
  <2>7. n + c1 + 1 <= MaxEvents
    BY <2>1, <2>3, <2>4, <2>6
  <2> QED  BY <1>1, <1>3, <2>5, <2>7 DEF RecordsAreCounted
<1>7. \A x \in Row : /\ Held(x)' => Held(x)
                     /\ Held(x) /\ x.who # lost => Held(x)'
  <2> SUFFICES ASSUME NEW x \in Row PROVE (Held(x)' => Held(x)) /\ (Held(x) /\ x.who # lost => Held(x)')
    OBVIOUS
  <2>1. x # Absent
    BY SiteAssumption
  <2>2. Held(x)' => Held(x)
    BY <1>1, <1>4, <2>1 DEF Held
  <2>3. ASSUME Held(x), x.who # lost PROVE Held(x)'
    BY <1>1, <1>4, <2>3 DEF Held, lost, row
  <2> QED  BY <2>2, <2>3
<1>8. \A w : w # lost => Passages(w)' = Passages(w)
  BY <1>7 DEF Passages
<1>9. PassageIsLast'
  BY <1>1, <1>8 DEF PassageIsLast
<1>10. ExitsFollowEntries'
  BY <1>1, <1>8 DEF ExitsFollowEntries
<1>11. NightsAreInside' /\ FiguresKeepTheirScale'
  BY <1>1 DEF NightsAreInside, Inside, FiguresKeepTheirScale, Exceeds, Logged
<1> QED  BY <1>5, <1>6, <1>9, <1>10, <1>11 DEF SiteInv

LEMMA InitSiteInv == SiteInit => SiteInv
<1> SUFFICES ASSUME SiteInit PROVE SiteInv
  OBVIOUS
<1>1. /\ journey = <<>> /\ tick = 0 /\ recording = [r \in Recorders |-> Absent]
      /\ question = Absent /\ passage = [w \in Crew |-> [kind |-> "EXIT", at |-> -1]]
      /\ nights = {} /\ unrecorded = {}
  BY DEF SiteInit
<1>2. LastTick \in Nat /\ MaxEvents \in Nat
  BY SiteAssumption
<1>3. [kind |-> "EXIT", at |-> -1] \in Passage
  BY <1>2 DEF Passage
<1>4. SiteTypeOK
  BY <1>1, <1>2, <1>3 DEF SiteTypeOK
<1>5. RecordsAreCounted
  <2>1. Unwritten = {} /\ Cardinality({}) = 0 /\ Len(journey) = 0
    BY <1>1, FS_EmptySet DEF Unwritten
  <2>2. Begun = 0
    BY <1>1, <2>1, BegunIs
  <2> QED  BY <1>1, <1>2, <2>2 DEF RecordsAreCounted
<1>6. \A w : Passages(w) = {}
  <2>1. \A row \in Row : ~ Held(row)
    <3> SUFFICES ASSUME NEW row \in Row PROVE ~ Held(row)
      OBVIOUS
    <3>1. row # Absent
      BY SiteAssumption
    <3>2. DOMAIN journey = {}
      BY <1>1
    <3> QED  BY <1>1, <3>1, <3>2 DEF Held
  <2> QED  BY <2>1 DEF Passages
<1>7. \A w \in Crew : passage[w].kind = "EXIT" /\ passage[w].at = -1
  BY <1>1
<1>8. PassageIsLast
  BY <1>1, <1>6, <1>7 DEF PassageIsLast
<1>9. NightsAreInside /\ ExitsFollowEntries /\ FiguresKeepTheirScale
  BY <1>1, <1>6, <1>7 DEF NightsAreInside, Inside, ExitsFollowEntries, FiguresKeepTheirScale
<1> QED  BY <1>4, <1>5, <1>8, <1>9 DEF SiteInv

\* A call takes its stamp: the row is held from here on, and it is the latest.
LEMMA RecordJourneyEventKeeps ==
  ASSUME SiteInv, NEW r \in Recorders, NEW w \in Crew, NEW kind \in EventKinds,
         NEW fine \in BOOLEAN, NEW trust \in Nat, RecordJourneyEvent(r, w, kind, fine, trust)
  PROVE  SiteInv'
<1> DEFINE row == [who |-> w, kind |-> kind, at |-> tick, live |-> fine, ppe |-> fine,
                   trust |-> trust]
<1>1. /\ SiteTypeOK /\ RecordsAreCounted /\ PassageIsLast /\ NightsAreInside /\ ExitsFollowEntries
      /\ FiguresKeepTheirScale
      /\ recording[r] = Absent /\ Begun < MaxEvents /\ MayPass(w, kind)
      /\ recording' = [recording EXCEPT ![r] = row]
      /\ tick' = tick /\ question' = question /\ nights' = nights
      /\ unrecorded' = unrecorded /\ journey' = journey
  BY DEF SiteInv, RecordJourneyEvent
<1>2. /\ recording \in [Recorders -> Row \cup {Absent}] /\ journey \in Seq(Row)
      /\ tick \in 0..LastTick /\ LastTick \in Nat /\ MaxEvents \in Nat /\ tick \in Nat
      /\ Len(journey) \in Nat
  BY <1>1, SiteAssumption DEF SiteTypeOK
<1>3. row \in Row
  BY <1>2, Zenon DEF Row
<1>4. row.who = w /\ row.kind = kind /\ row.at = tick /\ row # Absent
  BY <1>3, SiteAssumption
<1> HIDE DEF row
<1>5. /\ recording' \in [Recorders -> Row \cup {Absent}]
      /\ recording'[r] = row /\ \A s \in Recorders : s # r => recording'[s] = recording[s]
  BY <1>1, <1>2, <1>3
<1>6. \A v : passage'[v] = IF v \in Crew /\ v = w /\ kind # "OTHER"
                           THEN [kind |-> kind, at |-> tick] ELSE passage[v]
  <2>1. passage \in [Crew -> Passage]
    BY <1>1 DEF SiteTypeOK
  <2> QED  BY <1>1, <2>1 DEF RecordJourneyEvent
<1>7. passage' \in [Crew -> Passage]
  <2>1. passage \in [Crew -> Passage]
    BY <1>1 DEF SiteTypeOK
  <2>2. CASE kind = "OTHER"
    BY <2>1, <2>2 DEF RecordJourneyEvent
  <2>3. CASE kind # "OTHER"
    <3>1. [kind |-> kind, at |-> tick] \in Passage
      BY <1>2, <2>3 DEF Passage, EventKinds
    <3>2. passage' = [passage EXCEPT ![w] = [kind |-> kind, at |-> tick]]
      BY <2>3 DEF RecordJourneyEvent
    <3> QED  BY <2>1, <3>1, <3>2
  <2> QED  BY <2>2, <2>3
<1>8. SiteTypeOK'
  BY <1>1, <1>5, <1>7 DEF SiteTypeOK
<1>9. RecordsAreCounted'
  <2> DEFINE n == Len(journey)
             c == Cardinality(Unwritten)
             u == Cardinality(unrecorded)
             c1 == Cardinality(Unwritten')
  <2>1. c \in Nat /\ c1 = c + 1
    BY <1>1, <1>2, <1>4, UnwrittenAfter
  <2>2. n \in Nat /\ u \in Nat /\ n + c + u < MaxEvents
    BY <1>1, <1>2, BegunIs, LostIsCounted
  <2>3. Begun' = n + c1 + u
    BY <1>1 DEF Begun, Unwritten
  <2> HIDE DEF n, c, u, c1
  <2>4. n + c1 + u <= MaxEvents
    BY <1>2, <2>1, <2>2
  <2> QED  BY <1>1, <2>3, <2>4 DEF RecordsAreCounted
<1>10. \A x \in Row : Held(x)' <=> Held(x) \/ x = row
  <2> SUFFICES ASSUME NEW x \in Row PROVE Held(x)' <=> Held(x) \/ x = row
    OBVIOUS
  <2>1. x # Absent
    BY SiteAssumption
  <2> QED  BY <1>1, <1>5, <2>1 DEF Held
<1>11. \A v, x : x \in Passages(v)' <=>
                   x \in Passages(v) \/ (x = row /\ v = w /\ kind # "OTHER")
  BY <1>3, <1>4, <1>10 DEF Passages
<1>12. ASSUME kind # "OTHER"
       PROVE  /\ passage'[w].kind = kind /\ passage'[w].at = tick
              /\ passage[w].at \in -1..LastTick /\ passage[w].at < tick
              /\ kind = "EXIT" => Inside(w)
  BY <1>1, <1>6, <1>12, PassageOf DEF MayPass
<1>13. PassageIsLast'
  <2> SUFFICES ASSUME NEW v \in Crew
      PROVE  /\ passage'[v].at <= tick
             /\ passage'[v].at < 0 => passage'[v].kind = "EXIT"
             /\ v \notin unrecorded =>
                  /\ \A x \in Passages(v)' :
                       x.at <= passage'[v].at /\ (x.at = passage'[v].at => x.kind = passage'[v].kind)
                  /\ passage'[v].at >= 0 =>
                       \E x \in Passages(v)' : x.at = passage'[v].at /\ x.kind = passage'[v].kind
    BY <1>1 DEF PassageIsLast
  <2>1. CASE v = w /\ kind # "OTHER"
    <3>1. passage'[v].at = tick /\ passage'[v].kind = kind /\ passage[w].at < tick
          /\ passage[w].at \in Int
      BY <1>12, <2>1
    <3>2. row \in Passages(v)'
      BY <1>11, <2>1
    <3>3. ASSUME NEW x \in Passages(v)', v \notin unrecorded
          PROVE  x.at <= tick /\ (x.at = tick => x.kind = kind)
      <4>1. CASE x = row
        BY <1>2, <1>4, <4>1
      <4>2. CASE x \in Passages(w)
        <5>1. x.at <= passage[w].at /\ x.at \in 0..LastTick
          BY <1>1, <2>1, <3>3, <4>2, RowFields DEF PassageIsLast, Passages
        <5> QED  BY <1>2, <3>1, <5>1
      <4> QED  BY <1>11, <2>1, <3>3, <4>1, <4>2
    <3> QED  BY <1>2, <1>4, <3>1, <3>2, <3>3
  <2>2. CASE ~ (v = w /\ kind # "OTHER")
    <3>1. passage'[v] = passage[v]
      BY <1>6, <2>2
    <3>2. \A x : x \in Passages(v)' <=> x \in Passages(v)
      BY <1>11, <2>2
    <3> QED  BY <1>1, <3>1, <3>2 DEF PassageIsLast
  <2> QED  BY <2>1, <2>2
<1>14. NightsAreInside'
  <2> SUFFICES ASSUME NEW v \in Crew, passage'[v].kind = "ENTRY"
               PROVE  DayOf(passage'[v].at) = DayOf(tick) \/ <<v, DayOf(tick)>> \in nights
    BY <1>1 DEF NightsAreInside, Inside, DayOf
  <2>1. CASE v = w /\ kind # "OTHER"
    BY <1>12, <2>1
  <2>2. CASE ~ (v = w /\ kind # "OTHER")
    BY <1>1, <1>6, <2>2 DEF NightsAreInside, Inside
  <2> QED  BY <2>1, <2>2
<1>15. ExitsFollowEntries'
  <2> SUFFICES ASSUME NEW v \in Crew, v \notin unrecorded, NEW out \in Passages(v)', out.kind = "EXIT"
      PROVE  \/ <<v, DayOf(out.at)>> \in nights
             \/ \E entry \in Passages(v)' :
                  entry.kind = "ENTRY" /\ entry.at < out.at /\ DayOf(entry.at) = DayOf(out.at)
    BY <1>1 DEF ExitsFollowEntries, DayOf
  <2>1. CASE out \in Passages(v)
    BY <1>1, <1>11, <2>1 DEF ExitsFollowEntries
  <2>2. CASE out = row /\ v = w /\ kind # "OTHER"
    <3>1. out.at = tick /\ kind = "EXIT" /\ passage[w].kind = "ENTRY"
      BY <1>4, <1>12, <2>2 DEF Inside
    <3>2. CASE <<w, DayOf(tick)>> \in nights
      BY <2>2, <3>1, <3>2
    <3>3. CASE DayOf(passage[w].at) = DayOf(tick)
      <4>1. passage[w].at >= 0
        BY <1>1, <1>12, <2>2, <3>1 DEF PassageIsLast
      <4>2. PICK entry \in Passages(w) : entry.at = passage[w].at /\ entry.kind = passage[w].kind
        BY <1>1, <2>2, <4>1 DEF PassageIsLast
      <4>3. entry \in Passages(v)' /\ entry.kind = "ENTRY" /\ entry.at < out.at
            /\ DayOf(entry.at) = DayOf(out.at)
        BY <1>11, <1>12, <2>2, <3>1, <3>3, <4>2
      <4> QED  BY <4>3
    <3> QED  BY <1>1, <3>1, <3>2, <3>3 DEF NightsAreInside, Inside
  <2> QED  BY <1>11, <2>1, <2>2
<1>16. FiguresKeepTheirScale'
  BY <1>1 DEF FiguresKeepTheirScale, Exceeds, Logged
<1> QED  BY <1>8, <1>9, <1>13, <1>14, <1>15, <1>16 DEF SiteInv

LEMMA SiteStep == SiteInv /\ [SiteNext]_siteVars => SiteInv'
<1> SUFFICES ASSUME SiteInv, [SiteNext]_siteVars PROVE SiteInv'
  OBVIOUS
<1>1. ASSUME NEW r \in Recorders, NEW w \in Crew, NEW event \in Events,
             RecordJourneyEvent(r, w, event[1], event[2], event[3])
      PROVE  SiteInv'
  <2> DEFINE kind == event[1]
             fine == event[2]
             trust == event[3]
  <2>1. kind \in EventKinds /\ fine \in BOOLEAN /\ trust \in Nat
    <3>1. event \in EventKinds \X BOOLEAN \X Nat
      BY SiteAssumption
    <3> QED  BY <3>1, Zenon
  <2>2. RecordJourneyEvent(r, w, kind, fine, trust)
    BY <1>1
  <2> HIDE DEF kind, fine, trust
  <2> QED  BY <2>1, <2>2, RecordJourneyEventKeeps
<1>2. ASSUME NEW r \in Recorders, Insert(r) PROVE SiteInv'
  BY <1>2, InsertKeeps
<1>3. ASSUME NEW r \in Recorders, InsertFails(r) PROVE SiteInv'
  BY <1>3, InsertFailsKeeps
<1>4. CASE AskHealth
  BY <1>4, AskHealthKeeps
<1>5. CASE AnswerHealth
  BY <1>5, AnswerHealthKeeps
<1>6. CASE ClockMoves
  BY <1>6, ClockMovesKeeps
<1>7. CASE UNCHANGED siteVars
  <2>1. question' \in Figures \cup {Absent} /\ FiguresKeepTheirScale'
    BY <1>7 DEF siteVars, SiteInv, SiteTypeOK, FiguresKeepTheirScale, Exceeds, Logged
  <2> QED  BY <1>7, <2>1, OtherSiteSteps DEF siteVars
<1> QED  BY <1>1, <1>2, <1>3, <1>4, <1>5, <1>6, <1>7 DEF SiteNext

\* In every state of the site the rows of a worker whose passages are all
\* recorded tell the last passage, every exit has its entry or its night, and
\* the figures of a question keep their scale (journey_tracker.py).
LEMMA SiteInvariant == SiteSpec => []SiteInv
<1> QED  BY InitSiteInv, SiteStep, PTL DEF SiteSpec

LEMMA SiteInvIsTyped == SiteInv => SiteTypeOK
BY DEF SiteInv

\* Variables of the site have their types.
THEOREM SiteTypeCorrect == SiteSpec => []SiteTypeOK
<1> QED  BY SiteInvIsTyped, SiteInvariant, PTL

\* Whatever is inserted between the two transactions, and whatever the callers
\* report, the health score leaves its scale only upwards, and only if more workers
\* were present than expected or an entry of the day carries a trust above 1
\* (compute_site_health_score).
THEOREM HealthKeepsItsScaleHolds == SiteSpec => []HealthKeepsItsScale
<1>1. SiteInv => HealthKeepsItsScale
  <2> SUFFICES ASSUME SiteInv, question # Absent, NEW reported \in 0..MaxIncidents
               PROVE  /\ Score(question, reported) >= 0
                      /\ Score(question, reported) > 100 * Full =>
                           question.present > question.expected \/ Exceeds(question.day)
    BY DEF HealthKeepsItsScale, Exceeds
  <2>1. SiteTypeOK /\ question \in Figures /\ reported \in Nat
    BY SiteAssumption DEF SiteInv, SiteTypeOK
  <2>2. /\ question.ppe <= Full
        /\ question.trust <= Full \/ Exceeds(question.day)
        /\ question.attendance <= Full \/ question.present > question.expected
    BY DEF SiteInv, FiguresKeepTheirScale
  <2> DEFINE s == Score(question, reported)
  <2>3. /\ s \in Int /\ s >= 0
        /\ question.attendance <= Full /\ question.trust <= Full => s <= 100 * Full
    BY <2>1, <2>2, ScoreScale
  <2> HIDE DEF s
  <2>4. s > 100 * Full => question.present > question.expected \/ Exceeds(question.day)
    BY <2>2, <2>3 DEF Full
  <2> QED  BY <2>3, <2>4 DEF s
<1> QED  BY <1>1, SiteInvariant, PTL

\* A row of a settled worker that is held is in the table.
LEMMA SettledRows ==
  ASSUME SiteInv, NEW w \in Crew, Settled(w), NEW row \in Passages(w)
  PROVE  \E i \in DOMAIN journey : journey[i] = row
<1>1. row \in Row /\ row.who = w /\ Held(row)
  BY DEF Passages
<1>2. row # Absent
  BY <1>1, SiteAssumption
<1> QED  BY <1>1, <1>2 DEF Held, Settled

\* A row of the table is one of the passages of its worker.
LEMMA TableRows ==
  ASSUME SiteInv, NEW i \in DOMAIN journey
  PROVE  /\ journey[i] \in Row /\ journey[i].at \in Nat
         /\ journey[i].kind # "OTHER" => journey[i] \in Passages(journey[i].who)
<1>1. journey[i] \in Row
  BY DEF SiteInv, SiteTypeOK
<1>2. journey[i].at \in 0..LastTick
  BY <1>1, RowFields
<1> QED  BY <1>1, <1>2, SiteAssumption DEF Passages, Held

\* The list of workers on site.
LEMMA OnSiteIsToday ==
  ASSUME SiteInv, NEW w \in Crew, Settled(w)
  PROVE  w \in OnSite(DayOf(tick)) <=> Inside(w) /\ DayOf(passage[w].at) = DayOf(tick)
<1> DEFINE day == DayOf(tick)
<1>1. SiteTypeOK /\ PassageIsLast /\ tick \in Nat /\ w \notin unrecorded
  BY SiteAssumption DEF SiteInv, SiteTypeOK, Settled
<1>2. day \in Nat
  BY <1>1, DaysInOrder
<1>3. passage[w].at \in -1..LastTick /\ LastTick \in Nat /\ passage[w].at <= tick
  BY <1>1, PassageOf, SiteAssumption DEF PassageIsLast
<1>4. ASSUME w \in OnSite(day) PROVE Inside(w) /\ DayOf(passage[w].at) = day
  <2>1. PICK i \in DOMAIN journey :
          /\ journey[i].who = w /\ journey[i].kind = "ENTRY" /\ journey[i].at >= day * DayTicks
          /\ ~ \E j \in DOMAIN journey : /\ journey[j].who = w
                                         /\ journey[j].kind = "EXIT"
                                         /\ journey[j].at >= journey[i].at
    BY <1>4 DEF OnSite
  <2>2. journey[i].at \in Nat /\ journey[i] \in Passages(w)
    BY <2>1, TableRows
  <2>3. journey[i].at <= passage[w].at /\ passage[w].at \in Nat
    BY <1>1, <1>3, <2>2 DEF PassageIsLast
  <2>4. Inside(w)
    <3> SUFFICES ASSUME passage[w].kind # "ENTRY" PROVE FALSE
      BY DEF Inside
    <3>1. passage[w].kind = "EXIT"
      BY <1>1, PassageOf
    <3>2. PICK row \in Passages(w) : row.at = passage[w].at /\ row.kind = passage[w].kind
      BY <1>1, <2>3 DEF PassageIsLast
    <3>3. PICK j \in DOMAIN journey : journey[j] = row
      BY SettledRows
    <3>4. journey[j].who = w /\ journey[j].kind = "EXIT" /\ journey[j].at >= journey[i].at
      BY <2>3, <3>1, <3>2, <3>3 DEF Passages
    <3> QED  BY <2>1, <3>4
  <2>5. DayOf(passage[w].at) = day
    <3>1. DayOf(journey[i].at) >= day
      BY <1>2, <2>1, <2>2, DayBegins
    <3>2. DayOf(journey[i].at) <= DayOf(passage[w].at) /\ DayOf(passage[w].at) <= day
          /\ DayOf(passage[w].at) \in Nat /\ DayOf(journey[i].at) \in Nat
      BY <1>1, <1>3, <2>2, <2>3, DaysInOrder
    <3> HIDE DEF day
    <3> QED  BY <1>2, <3>1, <3>2
  <2> QED  BY <2>4, <2>5
<1>5. ASSUME Inside(w), DayOf(passage[w].at) = day PROVE w \in OnSite(day)
  <2>1. passage[w].at \in Nat
    BY <1>1, <1>3, <1>5 DEF PassageIsLast, Inside
  <2>2. PICK row \in Passages(w) : row.at = passage[w].at /\ row.kind = passage[w].kind
    BY <1>1, <2>1 DEF PassageIsLast
  <2>3. PICK i \in DOMAIN journey : journey[i] = row
    BY SettledRows
  <2>4. journey[i].who = w /\ journey[i].kind = "ENTRY" /\ journey[i].at = passage[w].at
    BY <1>5, <2>2, <2>3 DEF Passages, Inside
  <2>5. journey[i].at >= day * DayTicks
    <3>1. DayOf(passage[w].at) >= day
      BY <1>2, <1>5
    <3> QED  BY <1>2, <2>1, <2>4, <3>1, DayBegins
  <2>6. ASSUME NEW j \in DOMAIN journey, journey[j].who = w, journey[j].kind = "EXIT",
               journey[j].at >= journey[i].at
        PROVE  FALSE
    <3>1. journey[j] \in Passages(w) /\ journey[j].at \in Nat
      BY <2>6, TableRows
    <3>2. journey[j].at <= passage[w].at
          /\ (journey[j].at = passage[w].at => journey[j].kind = passage[w].kind)
      BY <1>1, <3>1 DEF PassageIsLast
    <3> QED  BY <1>5, <2>1, <2>4, <2>6, <3>1, <3>2 DEF Inside
  <2> QED  BY <2>4, <2>5, <2>6 DEF OnSite
<1> QED  BY <1>4, <1>5

\* A stay that ends before it begins is that of a night.
LEMMA NegativeStayIsNight ==
  ASSUME SiteInv, NEW w \in Crew, Settled(w), NEW day \in Nat,
         NEW stay \in Stay(w, day), stay < 0
  PROVE  <<w, day>> \in nights
<1> DEFINE Stamps(kind) == {journey[i].at : i \in {j \in Logged(kind, day) : journey[j].who = w}}
<1>1. PICK came \in Stamps("ENTRY"), last \in Stamps("EXIT") :
        /\ stay = last - came
        /\ \A s \in Stamps("ENTRY") : came <= s
  BY DEF Stay
<1>2. PICK o \in DOMAIN journey :
        journey[o].who = w /\ journey[o].kind = "EXIT" /\ journey[o].at = last /\ DayOf(last) = day
  BY DEF Logged, InDay
<1>3. PICK e \in DOMAIN journey : journey[e].at = came
  BY DEF Logged
<1>4. came \in Nat /\ last \in Nat /\ journey[o] \in Passages(w)
  BY <1>2, <1>3, TableRows
<1>5. SUFFICES ASSUME <<w, day>> \notin nights PROVE FALSE
  OBVIOUS
<1>6. PICK entry \in Passages(w) :
        entry.kind = "ENTRY" /\ entry.at < last /\ DayOf(entry.at) = day
  BY <1>2, <1>4, <1>5 DEF SiteInv, ExitsFollowEntries, Settled
<1>7. PICK i \in DOMAIN journey : journey[i] = entry
  BY SettledRows
<1>8. journey[i].at \in Nat /\ journey[i].at < last /\ DayOf(journey[i].at) = day
      /\ journey[i].who = w /\ journey[i].kind = "ENTRY"
  BY <1>6, <1>7, TableRows DEF Passages
<1>9. InDay(journey[i].at, day)
  BY <1>2, <1>4, <1>8, NotInLastSecond
<1>10. journey[i].at \in Stamps("ENTRY")
  BY <1>8, <1>9 DEF Logged
<1>11. came <= journey[i].at
  BY <1>1, <1>10
<1> HIDE DEF Stamps
<1> QED  BY <1>1, <1>4, <1>8, <1>11

\* Rows inserted out of the order of their stamps are read in that order
\* (get_site_intelligence, get_worker_timeline).
THEOREM PassagesReadInOrderHolds == SiteSpec => []PassagesReadInOrder
<1>1. SiteInv => PassagesReadInOrder
  <2> SUFFICES ASSUME SiteInv, NEW w \in Crew, Settled(w)
      PROVE  /\ w \in OnSite(DayOf(tick)) <=> Inside(w) /\ DayOf(passage[w].at) = DayOf(tick)
             /\ \A day \in 0..DayOf(tick) : (\E stay \in Stay(w, day) : stay < 0) => <<w, day>> \in nights
    BY DEF PassagesReadInOrder
  <2>1. tick \in Nat
    BY SiteAssumption DEF SiteInv, SiteTypeOK
  <2>2. \A day \in 0..DayOf(tick) : day \in Nat
    BY <2>1, DaysInOrder
  <2> QED  BY <2>2, OnSiteIsToday, NegativeStayIsNight
<1> QED  BY <1>1, SiteInvariant, PTL
=============================================================================
