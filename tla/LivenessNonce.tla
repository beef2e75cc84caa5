--------------------------- MODULE LivenessNonce ---------------------------
(***************************************************************************)
(* The liveness nonces of app.py: a Python dict shared by the challenges,  *)
(* which FastAPI runs in pool threads, and the checks, which run on the    *)
(* event loop.  There is no lock; the interpreter may switch threads       *)
(* between any two bytecodes, so every access of the dict is an action.    *)
(* A check does not await between its lookup and its deletion, therefore   *)
(* at most one check is in progress; what follows the deletion looks at    *)
(* the frame only.                                                         *)
(*                                                                         *)
(* Abstractions.  Nonces are numbered in the order they are stored, which  *)
(* is the order a dict is iterated in; a dict that is compacted while an   *)
(* iteration is disturbed may hide keys from it.  Taking the time and      *)
(* storing it is one action.                                               *)
(***************************************************************************)
EXTENDS Naturals, FiniteSets

CONSTANTS Pool,        \* threads of the pool
          TTL,         \* NONCE_TTL_SECONDS
          MaxNonces,   \* bound: nonces ever issued
          MaxTime      \* bound: the clock

ASSUME NonceAssumption == TTL \in Nat /\ MaxNonces \in Nat /\ MaxTime \in Nat

VARIABLES
    now,        \* time.time()
    issued,     \* nonces 1..issued exist
    store,      \* keys of _liveness_nonces
    stamp,      \* stamp[n]: time at which n was stored
    purge,      \* purge[t]: the challenge thread t is serving
    check,      \* the check in progress
    accepted    \* history: accepted[n]: checks that went on with n

nonceVars == <<now, issued, store, stamp, purge, check, accepted>>

Nonces == 1..MaxNonces

\* cutoff: the purge's now; size: of the dict when its iteration began; at:
\* the last key visited; expired: keys still to delete; disturbed (history):
\* another handler has changed the dict meanwhile.
Purges == [pc : {"idle", "scan", "delete", "issue", "error"},
           cutoff : 0..MaxTime, size : 0..MaxNonces, at : 0..MaxNonces,
           expired : SUBSET Nonces, disturbed : BOOLEAN]

Checks == [pc : {"idle", "age", "expire", "consume", "error"},
           nonce : 0..MaxNonces, disturbed : BOOLEAN]

Idle == [pc |-> "idle", cutoff |-> 0, size |-> 0, at |-> 0,
         expired |-> {}, disturbed |-> FALSE]

NoCheck == [pc |-> "idle", nonce |-> 0, disturbed |-> FALSE]

NonceTypeOK ==
    /\ now \in 0..MaxTime
    /\ issued \in 0..MaxNonces
    /\ store \subseteq 1..issued
    /\ stamp \in [Nonces -> 0..MaxTime]
    /\ purge \in [Pool -> Purges]
    /\ check \in Checks
    /\ accepted \in [Nonces -> Nat]

NonceInit ==
    /\ now = 0
    /\ issued = 0
    /\ store = {}
    /\ stamp = [n \in Nonces |-> 0]
    /\ purge = [t \in Pool |-> Idle]
    /\ check = NoCheck
    /\ accepted = [n \in Nonces |-> 0]

-----------------------------------------------------------------------------
(* Faulty variants: what TLC must catch when one replaces the code's rule. *)

Consumed_keepsNonce(n) == store

\* Deletes while it iterates.
Visit_deleting(t) ==
    \E n \in {m \in store : m > purge[t].at} :
      /\ \A k \in store : k > purge[t].at => n <= k
      /\ purge' = [purge EXCEPT ![t].at = n]
      /\ store' = IF purge[t].cutoff - stamp[n] > TTL THEN store \ {n} ELSE store
      /\ UNCHANGED check

-----------------------------------------------------------------------------
Tick ==
    /\ now < MaxTime
    /\ now' = now + 1
    /\ UNCHANGED <<issued, store, stamp, purge, check, accepted>>

Expired(n, time) == time - stamp[n] > TTL

\* Handlers in the middle of theirs see another handler change the dict.
InHandler(p) == p.pc \in {"scan", "delete"}
Disturbed(t, p) == [u \in Pool |-> IF u = t THEN p ELSE
                      [purge[u] EXCEPT !.disturbed = @ \/ InHandler(purge[u])]]
DisturbedCheck == [check EXCEPT !.disturbed = @ \/ check.pc # "idle"]

-----------------------------------------------------------------------------
(* GET /liveness/challenge                                                 *)

\* now = time.time(), and the iteration of the list comprehension begins.
BeginPurge(t) ==
    /\ purge[t].pc = "idle"
    /\ purge' = [purge EXCEPT ![t] = [Idle EXCEPT !.pc = "scan", !.cutoff = now,
                                                  !.size = Cardinality(store)]]
    /\ UNCHANGED <<now, issued, store, stamp, check, accepted>>

Goto(t, step) ==
    /\ purge' = [purge EXCEPT ![t] = [@ EXCEPT !.pc = step, !.size = 0, !.at = 0]]
    /\ UNCHANGED <<store, check>>

Later(t) == {n \in store : n > purge[t].at}

\* The next key in insertion order, kept when expired; keys may be skipped
\* when a deletion and an insertion between two steps left the size as it was.
Visit(t) ==
    \E n \in Later(t) :
      /\ purge[t].disturbed \/ \A k \in Later(t) : n <= k
      /\ purge' = [purge EXCEPT ![t].at = n,
                     ![t].expired = IF Expired(n, purge[t].cutoff) THEN @ \cup {n} ELSE @]
      /\ UNCHANGED <<store, check>>

\* A dict iterator first compares the size with the one it started from:
\* RuntimeError, and the challenge is answered 500.
Scan(t) ==
    /\ purge[t].pc = "scan"
    /\ \/ Cardinality(store) # purge[t].size /\ Goto(t, "error")
       \/ Cardinality(store) = purge[t].size /\ Visit(t)
       \/ /\ Cardinality(store) = purge[t].size
          /\ Later(t) = {} \/ purge[t].disturbed
          /\ Goto(t, "delete")
    /\ UNCHANGED <<now, issued, stamp, accepted>>

\* for k in expired: del -- KeyError when another handler has deleted k.
Delete(t) ==
    /\ purge[t].pc = "delete"
    /\ \/ /\ purge[t].expired = {}
          /\ purge' = [purge EXCEPT ![t] = [Idle EXCEPT !.pc = "issue"]]
          /\ UNCHANGED <<store, check>>
       \/ \E n \in purge[t].expired :
            /\ \A k \in purge[t].expired : n <= k
            /\ n \in store
            /\ store' = store \ {n}
            /\ purge' = Disturbed(t, [purge[t] EXCEPT !.expired = @ \ {n}])
            /\ check' = DisturbedCheck
       \/ \E n \in purge[t].expired :
            /\ \A k \in purge[t].expired : n <= k
            /\ n \notin store
            /\ Goto(t, "error")
    /\ UNCHANGED <<now, issued, stamp, accepted>>

Issue(t) ==
    /\ purge[t].pc = "issue"
    /\ issued < MaxNonces
    /\ issued' = issued + 1
    /\ store' = store \cup {issued + 1}
    /\ stamp' = [stamp EXCEPT ![issued + 1] = now]
    /\ purge' = Disturbed(t, Idle)
    /\ check' = DisturbedCheck
    /\ UNCHANGED <<now, accepted>>

\* 500 after an exception, or 401 after the purge: nothing else changes.
EndChallenge(t) ==
    /\ purge[t].pc \in {"error", "issue"}
    /\ purge' = [purge EXCEPT ![t] = Idle]
    /\ UNCHANGED <<now, issued, store, stamp, check, accepted>>

-----------------------------------------------------------------------------
(* POST /liveness-check                                                    *)

\* get(nonce); an unknown or used nonce is answered 400 and changes nothing.
Lookup(n) ==
    /\ check.pc = "idle"
    /\ n \in store
    /\ check' = [NoCheck EXCEPT !.pc = "age", !.nonce = n]
    /\ UNCHANGED <<now, issued, store, stamp, purge, accepted>>

Age ==
    /\ check.pc = "age"
    /\ check' = [check EXCEPT !.pc = IF Expired(check.nonce, now) THEN "expire" ELSE "consume"]
    /\ UNCHANGED <<now, issued, store, stamp, purge, accepted>>

Consumed(n) == store \ {n}

\* del _liveness_nonces[nonce]: only a check that was in time goes on with
\* the frame.  KeyError when a purge was faster.
Consume ==
    /\ check.pc \in {"expire", "consume"}
    /\ IF check.nonce \in store
       THEN /\ store' = Consumed(check.nonce)
            /\ accepted' = [accepted EXCEPT ![check.nonce] =
                              IF check.pc = "consume" THEN @ + 1 ELSE @]
            /\ purge' = [t \in Pool |-> [purge[t] EXCEPT !.disturbed = @ \/ InHandler(purge[t])]]
            /\ check' = NoCheck
       ELSE /\ check' = [check EXCEPT !.pc = "error"]
            /\ UNCHANGED <<store, accepted, purge>>
    /\ UNCHANGED <<now, issued, stamp>>

EndCheck ==
    /\ check.pc = "error"
    /\ check' = NoCheck
    /\ UNCHANGED <<now, issued, store, stamp, purge, accepted>>

NonceNext ==
    \/ Tick
    \/ \E t \in Pool : BeginPurge(t) \/ Scan(t) \/ Delete(t) \/ Issue(t) \/ EndChallenge(t)
    \/ \E n \in Nonces : Lookup(n)
    \/ Age \/ Consume \/ EndCheck

NonceSpec == NonceInit /\ [][NonceNext]_nonceVars

-----------------------------------------------------------------------------
\* Whatever purges run beside the checks, a nonce lets at most one frame
\* through, and one that was issued and not used is in the dict for the whole of
\* its TTL: the lookup, the age test and the deletion in liveness_check are
\* separate accesses of a dict that other threads change meanwhile.
NonceUsableOnce ==
    \A n \in 1..issued :
      /\ accepted[n] <= 1
      /\ accepted[n] = 0 /\ ~Expired(n, now) => n \in store

\* _purge_expired_nonces and the deletions of liveness_check raise only in a
\* handler during which another handler changed the dict: a client alone
\* never gets a 500.
NonceErrorNeedsOverlap ==
    /\ \A t \in Pool : purge[t].pc = "error" => purge[t].disturbed
    /\ check.pc = "error" => check.disturbed
=============================================================================
