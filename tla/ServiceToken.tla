---------------------------- MODULE ServiceToken ----------------------------
(***************************************************************************)
(* ServiceTokenSource: how the replicas of a service account share one     *)
(* client-credentials token.  The callers of a replica share one acquire   *)
(* in flight; across replicas the cache key and a SET NX EX lock decide    *)
(* who asks the token endpoint.  One step per awaited call, as in          *)
(* BffSession.                                                             *)
(***************************************************************************)
EXTENDS Naturals

CONSTANTS Calls, Replicas, HomeOf,   \* requests and the replica each runs on
          MaxTok,                    \* bound: tokens the endpoint mints
          Faults,                    \* replicas may stop, calls may fail
          Rejects,                   \* the API may come to reject a token
          Cacheable,                 \* token responses carry expires_in
          None

ASSUME ServiceAssumption ==
    /\ HomeOf \in [Calls -> Replicas]
    /\ MaxTok \in Nat
    /\ None \notin 1 .. MaxTok

VARIABLES cache,     \* the token under the cache key, or None
          lock,      \* the lock key is present
          minted,    \* tokens minted so far; the last one is the newest
          stale,     \* tokens within 30 s of their expiry, or past it
          rejected,  \* tokens the API answers with 401
          flight,    \* the acquire in flight on each replica
          met,       \* replicas whose acquire was kept out by the lock there is
          call,      \* what each request is doing
          trouble    \* something has failed, was slow or was rejected

vars == <<cache, lock, minted, stale, rejected, flight, met, call, trouble>>

Tokens == 1 .. MaxTok
NoFlight == [pc |-> "none", tok |-> None, held |-> FALSE, late |-> FALSE]
IdleCall == [pc |-> "idle", tok |-> None, replay |-> FALSE]

\* What an acquire is doing; nothing else is set when there is none.
Acquire == [pc : {"none", "lock", "check", "grant", "store", "unlock", "poll", "peek", "reread"},
            tok : Tokens \cup {None}, held : BOOLEAN, late : BOOLEAN]
FlightsOK ==
    /\ flight \in [Replicas -> Acquire]
    /\ \A r \in Replicas : flight[r].pc = "none" => flight[r] = NoFlight
    /\ \A r \in Replicas : flight[r].pc = "store" => flight[r].tok # None

\* What a request is doing; it holds a token exactly from get to its end.
Request == [pc : {"idle", "read", "wait", "send", "inspect", "drop"},
            tok : Tokens \cup {None}, replay : BOOLEAN]
CallsOK ==
    /\ call \in [Calls -> Request]
    /\ \A c \in Calls : call[c].tok # None <=> call[c].pc \in {"send", "inspect", "drop"}

\* service.ts, CachedToken and the fields of ServiceTokenSource: a caller that
\* goes on has a token, one that is done or waits has none, and only minted
\* tokens age.
TypeOK ==
    /\ cache \in Tokens \cup {None} /\ lock \in BOOLEAN /\ minted \in 0 .. MaxTok
    /\ stale \subseteq 1 .. minted /\ rejected \subseteq Tokens
    /\ met \subseteq Replicas /\ trouble \in BOOLEAN
    /\ FlightsOK /\ CallsOK

Init ==
    /\ cache = None /\ lock = FALSE /\ minted = 0
    /\ stale = {} /\ rejected = {}
    /\ flight = [r \in Replicas |-> NoFlight]
    /\ met = {}
    /\ call = [c \in Calls |-> IdleCall]
    /\ trouble = FALSE

\* readCache finds a token it is willing to hand out.
Hit == cache # None /\ cache \notin stale

-----------------------------------------------------------------------------
(* A request.                                                              *)

Start(c) ==
    /\ call[c].pc = "idle"
    /\ call' = [call EXCEPT ![c].pc = "read"]
    /\ UNCHANGED <<cache, lock, minted, stale, rejected, flight, met, trouble>>

\* get: a hit, or a place in the replica's acquire, started if there is none.
Get(c) ==
    /\ call[c].pc = "read"
    /\ \/ Hit /\ call' = [call EXCEPT ![c].pc = "send", ![c].tok = cache]
              /\ UNCHANGED flight
       \/ /\ ~Hit
          /\ call' = [call EXCEPT ![c].pc = "wait"]
          /\ IF flight[HomeOf[c]] = NoFlight
             THEN flight' = [flight EXCEPT ![HomeOf[c]] = [NoFlight EXCEPT !.pc = "lock"]]
             ELSE UNCHANGED flight
    /\ UNCHANGED <<cache, lock, minted, stale, rejected, met, trouble>>

\* The attempt at the API; a first 401 goes on to invalidate.
Send(c) ==
    /\ call[c].pc = "send"
    /\ IF call[c].tok \in rejected /\ ~call[c].replay
       THEN call' = [call EXCEPT ![c].pc = "inspect"]
       ELSE call' = [call EXCEPT ![c] = IdleCall]
    /\ UNCHANGED <<cache, lock, minted, stale, rejected, flight, met, trouble>>

Again(c) == call' = [call EXCEPT ![c] = [pc |-> "read", tok |-> None, replay |-> TRUE]]

InvalidateGet(c) ==
    /\ call[c].pc = "inspect"
    /\ IF cache = call[c].tok THEN call' = [call EXCEPT ![c].pc = "drop"] ELSE Again(c)
    /\ UNCHANGED <<cache, lock, minted, stale, rejected, flight, met, trouble>>

InvalidateDel(c) ==
    /\ call[c].pc = "drop"
    /\ cache' = None
    /\ Again(c)
    /\ UNCHANGED <<lock, minted, stale, rejected, flight, met, trouble>>

-----------------------------------------------------------------------------
(* An acquire.                                                             *)

\* Mutant: a failed acquire hands its waiters no token instead of rejecting.
SettleUndefined(r, tok) ==
    /\ flight' = [flight EXCEPT ![r] = NoFlight]
    /\ call' = [c \in Calls |->
          IF HomeOf[c] # r \/ call[c].pc # "wait" THEN call[c]
          ELSE [call[c] EXCEPT !.pc = "send", !.tok = tok]]

\* Mutant: a failed acquire is cleared without rejecting the promise.
SettleSilently(r, tok) ==
    /\ flight' = [flight EXCEPT ![r] = NoFlight]
    /\ call' = [c \in Calls |->
          IF HomeOf[c] # r \/ call[c].pc # "wait" \/ tok = None THEN call[c]
          ELSE [call[c] EXCEPT !.pc = "send", !.tok = tok]]

\* The promise settles: the flight is cleared and every waiter goes on.
Settle(r, tok) ==
    /\ flight' = [flight EXCEPT ![r] = NoFlight]
    /\ call' = [c \in Calls |->
          IF HomeOf[c] # r \/ call[c].pc # "wait" THEN call[c]
          ELSE IF tok = None THEN IdleCall
          ELSE [call[c] EXCEPT !.pc = "send", !.tok = tok]]

FlyOn(r, pc, tok) ==
    /\ flight' = [flight EXCEPT ![r].pc = pc, ![r].tok = tok]
    /\ UNCHANGED call

\* fetchAndCache and the double check return to acquire, which unlocks if it
\* holds the lock.
Return(r, tok) == IF flight[r].held THEN FlyOn(r, "unlock", tok) ELSE Settle(r, tok)

AcquireLock(r) ==
    /\ flight[r].pc = "lock"
    /\ \/ ~lock /\ lock' = TRUE
                /\ flight' = [flight EXCEPT ![r].pc = "check", ![r].held = TRUE]
                /\ UNCHANGED met
       \/ lock /\ flight' = [flight EXCEPT ![r].pc = "poll"]
               /\ met' = met \cup {r}
               /\ UNCHANGED lock
    /\ UNCHANGED <<cache, minted, stale, rejected, call, trouble>>

\* Mutant: the holder fetches without a second look at the cache.
DoubleCheckSkipped(r) ==
    /\ flight[r].pc = "check"
    /\ FlyOn(r, "grant", None)
    /\ UNCHANGED <<cache, lock, minted, stale, rejected, met, trouble>>

DoubleCheck(r) ==
    /\ flight[r].pc = "check"
    /\ IF Hit THEN FlyOn(r, "unlock", cache) ELSE FlyOn(r, "grant", None)
    /\ UNCHANGED <<cache, lock, minted, stale, rejected, met, trouble>>

Grant(r) ==
    /\ flight[r].pc = "grant" /\ minted < MaxTok
    /\ minted' = minted + 1
    /\ IF Cacheable THEN FlyOn(r, "store", minted + 1) ELSE Return(r, minted + 1)
    /\ UNCHANGED <<cache, lock, stale, rejected, met, trouble>>

GrantFails(r) ==
    /\ flight[r].pc = "grant" /\ (Faults \/ minted = MaxTok)
    /\ Return(r, None)
    /\ trouble' = TRUE
    /\ UNCHANGED <<cache, lock, minted, stale, rejected, met>>

Store(r) ==
    /\ flight[r].pc = "store"
    /\ cache' = flight[r].tok
    /\ Return(r, flight[r].tok)
    /\ UNCHANGED <<lock, minted, stale, rejected, met, trouble>>

\* del in the finally; every flight that met this lock now waits on nobody.
Unlock(r) ==
    /\ flight[r].pc = "unlock"
    /\ lock' = FALSE /\ met' = {}
    /\ Settle(r, flight[r].tok)
    /\ UNCHANGED <<cache, minted, stale, rejected, trouble>>

PollCache(r) ==
    /\ flight[r].pc = "poll"
    /\ IF Hit THEN Settle(r, cache) ELSE FlyOn(r, "peek", None)
    /\ UNCHANGED <<cache, lock, minted, stale, rejected, met, trouble>>

\* The lock is still there: poll again, or past the deadline fetch without it.
PollLock(r) ==
    /\ flight[r].pc = "peek"
    /\ \/ ~lock /\ FlyOn(r, "reread", None)
       \/ lock /\ ~flight[r].late /\ FlyOn(r, "poll", None)
       \/ lock /\ flight[r].late /\ FlyOn(r, "grant", None)
    /\ UNCHANGED <<cache, lock, minted, stale, rejected, met, trouble>>

\* The lock has lapsed: one last look, then fetch without it.
Reread(r) ==
    /\ flight[r].pc = "reread"
    /\ IF Hit THEN Settle(r, cache) ELSE FlyOn(r, "grant", None)
    /\ UNCHANGED <<cache, lock, minted, stale, rejected, met, trouble>>

-----------------------------------------------------------------------------
(* Failures and time.                                                      *)

InFlight(r) == flight[r].pc # "none"

\* A replica stops, with its acquire and its requests.
Crash(r) ==
    /\ Faults
    /\ flight' = [flight EXCEPT ![r] = NoFlight]
    /\ call' = [c \in Calls |-> IF HomeOf[c] = r THEN IdleCall ELSE call[c]]
    /\ trouble' = TRUE
    /\ UNCHANGED <<cache, lock, minted, stale, rejected, met>>

\* A store command of an acquire throws; under the lock the finally still
\* sends its del, and when that throws the lock stays.
StoreFault(r) ==
    /\ Faults
    /\ \/ /\ flight[r].held /\ flight[r].pc \in {"check", "store"}
          /\ FlyOn(r, "unlock", None)
       \/ /\ ~flight[r].held \/ flight[r].pc = "unlock"
          /\ flight[r].pc \notin {"none", "grant"}
          /\ Settle(r, None)
    /\ trouble' = TRUE
    /\ UNCHANGED <<cache, lock, minted, stale, rejected, met>>

\* A request fails on its own: a store command or the API call throws.
CallFault(c) ==
    /\ Faults /\ call[c].pc \in {"read", "send", "inspect", "drop"}
    /\ call' = [call EXCEPT ![c] = IdleCall]
    /\ UNCHANGED <<cache, lock, minted, stale, rejected, flight, met, trouble>>

\* Mutant: the lock key is set without EX.
LockNeverExpires == FALSE /\ UNCHANGED vars

\* The lock reaches its TTL: its holder stopped, or is slow.
LockExpires ==
    /\ lock
    /\ lock' = FALSE /\ met' = {}
    /\ trouble' = TRUE
    /\ UNCHANGED <<cache, minted, stale, rejected, flight, call>>

\* LOCK_TTL_SECONDS of polling pass, by when the lock that was met has lapsed.
DeadlinePasses(r) ==
    /\ flight[r].pc \in {"poll", "peek"} /\ r \notin met /\ ~flight[r].late
    /\ flight' = [flight EXCEPT ![r].late = TRUE]
    /\ trouble' = TRUE
    /\ UNCHANGED <<cache, lock, minted, stale, rejected, met, call>>

\* A token comes within EXPIRY_SKEW_MS of its expiry.  Tokens live much longer
\* than an acquire takes: one that does not is trouble.
Ages(t) ==
    /\ t \in 1 .. minted \ stale
    /\ stale' = stale \cup {t}
    /\ trouble' = (trouble \/ \E r \in Replicas : InFlight(r))
    /\ UNCHANGED <<cache, lock, minted, rejected, flight, met, call>>

CacheExpires ==
    /\ cache \in stale
    /\ cache' = None
    /\ UNCHANGED <<lock, minted, stale, rejected, flight, met, call, trouble>>

\* The API stops accepting a token: revoked, rotated or expired.
Reject(t) ==
    /\ Rejects /\ t \in 1 .. minted \ rejected
    /\ rejected' = rejected \cup {t}
    /\ trouble' = TRUE
    /\ UNCHANGED <<cache, lock, minted, stale, flight, met, call>>

-----------------------------------------------------------------------------
CallStep(c) == Get(c) \/ Send(c) \/ InvalidateGet(c) \/ InvalidateDel(c)

FlightStep(r) ==
    \/ AcquireLock(r) \/ DoubleCheck(r) \/ Grant(r) \/ GrantFails(r) \/ Store(r) \/ Unlock(r)
    \/ PollCache(r) \/ PollLock(r) \/ Reread(r)

Environment ==
    \/ \E r \in Replicas : Crash(r) \/ StoreFault(r) \/ DeadlinePasses(r)
    \/ \E c \in Calls : CallFault(c)
    \/ \E t \in Tokens : Ages(t) \/ Reject(t)
    \/ LockExpires \/ CacheExpires

Next ==
    \/ \E c \in Calls : Start(c) \/ CallStep(c)
    \/ \E r \in Replicas : FlightStep(r)
    \/ Environment

Spec == Init /\ [][Next]_vars

\* Awaited calls return or throw, and the clocks run.
Fairness ==
    /\ \A c \in Calls : WF_vars(CallStep(c))
    /\ \A r \in Replicas : WF_vars(FlightStep(r)) /\ WF_vars(DeadlinePasses(r))
    /\ WF_vars(LockExpires)

FairSpec == Spec /\ Fairness

-----------------------------------------------------------------------------
(* Properties.                                                             *)

\* A request that waits has an acquire to wait for: single flight never drops
\* the promise its callers share.
WaitersHaveFlight == \A c \in Calls : call[c].pc = "wait" => InFlight(HomeOf[c])

\* docs, "One token, fetched once": as long as nothing fails, is slow or is
\* rejected, the replicas together ask for a token only when the newest one
\* is no longer fresh, whichever of them asks first.
FetchedOnce ==
    [][Cacheable /\ ~trouble /\ minted' # minted => minted \in stale \cup {0}]_vars

\* Every request is answered, also those that wait on a replica that stopped.
Answered == \A c \in Calls : call[c].pc # "idle" ~> call[c].pc = "idle"
=============================================================================
