----------------------------- MODULE StorageProofs -----------------------------
(*****************************************************************************)
(* Proofs about ServiceToken, FileStorage and CachedSettings, for any number *)
(* of requests, replicas, tokens, files, uploads and editors: the types;     *)
(* single flight, and that an untroubled service fetches a token only once   *)
(* the newest is stale; that no file is offered without its bytes, and that  *)
(* only overlapping uploads pass the quota; that an editor sees the change   *)
(* it made.                                                                  *)
(*****************************************************************************)
EXTENDS ServiceToken, FileStorage, CachedSettings, FiniteSetTheorems, TLAPS

-----------------------------------------------------------------------------
(* Service-account tokens.                                                 *)


Inv == TypeOK /\ WaitersHaveFlight

\* How the replicas stand as long as there has been no trouble.
Quiet ==
    /\ rejected = {}
    /\ \A c \in Calls : call[c].pc \notin {"inspect", "drop"}

OneHolder ==
    /\ \A r \in Replicas : flight[r].held <=> flight[r].pc \in {"check", "grant", "store", "unlock"}
    /\ \A r \in Replicas : ~flight[r].late
    /\ \A r, s \in Replicas : flight[r].held /\ flight[s].held => r = s
    /\ \A r \in Replicas : flight[r].held => lock
    /\ lock => \E r \in Replicas : flight[r].held

NewestKept ==
    minted \in stale \cup {0} \/ cache = minted \/ \E r \in Replicas : flight[r].pc = "store"

\* What an acquire may count on at each of its program points.
AtPoint ==
    \A r \in Replicas :
       /\ flight[r].pc = "grant" => minted \in stale \cup {0}
       /\ flight[r].pc = "store" => flight[r].tok = minted /\ minted \notin stale
       /\ flight[r].pc \in {"unlock", "reread"} => Hit
       /\ flight[r].pc \in {"poll", "peek"} => lock \/ Hit

Calm == Cacheable /\ ~trouble => Quiet /\ OneHolder /\ NewestKept /\ AtPoint

-----------------------------------------------------------------------------
(* What the shorthands do to an acquire and to the requests.               *)

LEMMA Idlers == NoFlight \in Acquire /\ IdleCall \in Request
  BY DEF NoFlight, IdleCall, Acquire, Request

LEMMA FlyOnFacts ==
  ASSUME flight \in [Replicas -> Acquire], NEW r \in Replicas, NEW tok \in Tokens \cup {None},
         NEW pc \in {"check", "grant", "store", "unlock", "poll", "peek", "reread"},
         FlyOn(r, pc, tok)
  PROVE  /\ flight' \in [Replicas -> Acquire] /\ call' = call
         /\ \A s \in Replicas \ {r} : flight'[s] = flight[s]
         /\ flight'[r].pc = pc /\ flight'[r].tok = tok
         /\ flight'[r].held = flight[r].held /\ flight'[r].late = flight[r].late
<1>1. flight[r] \in Acquire /\ flight'[r] = [flight[r] EXCEPT !.pc = pc, !.tok = tok]
  BY DEF FlyOn
<1>2. flight'[r] \in Acquire
  BY <1>1 DEF Acquire
<1>3. /\ flight'[r].pc = pc /\ flight'[r].tok = tok
      /\ flight'[r].held = flight[r].held /\ flight'[r].late = flight[r].late
  BY <1>1 DEF Acquire
<1> QED
  BY <1>2, <1>3 DEF FlyOn

LEMMA SettleFacts ==
  ASSUME call \in [Calls -> Request], flight \in [Replicas -> Acquire],
         NEW r \in Replicas, NEW tok \in Tokens \cup {None}, Settle(r, tok)
  PROVE  /\ flight' \in [Replicas -> Acquire] /\ call' \in [Calls -> Request]
         /\ \A s \in Replicas \ {r} : flight'[s] = flight[s]
         /\ flight'[r] = NoFlight
         /\ \A c \in Calls : \/ call'[c] = call[c] /\ (HomeOf[c] # r \/ call[c].pc # "wait")
                             \/ call'[c] = IdleCall /\ tok = None
                             \/ call'[c].pc = "send" /\ call'[c].tok = tok /\ tok # None
<1>1. flight' \in [Replicas -> Acquire] /\ flight'[r] = NoFlight
      /\ \A s \in Replicas \ {r} : flight'[s] = flight[s]
  BY Idlers DEF Settle
<1>2. ASSUME NEW c \in Calls, HomeOf[c] = r, call[c].pc = "wait", tok # None
      PROVE  call'[c] \in Request /\ call'[c].pc = "send" /\ call'[c].tok = tok
  <2>1. call[c] \in Request /\ call'[c] = [call[c] EXCEPT !.pc = "send", !.tok = tok]
    BY <1>2 DEF Settle
  <2> QED
    BY <2>1 DEF Request
<1>3. ASSUME NEW c \in Calls, HomeOf[c] # r \/ call[c].pc # "wait" PROVE call'[c] = call[c]
  BY <1>3 DEF Settle
<1>4. ASSUME NEW c \in Calls, HomeOf[c] = r, call[c].pc = "wait", tok = None
      PROVE  call'[c] = IdleCall
  BY <1>4 DEF Settle
<1>5. call' = [c \in Calls |-> call'[c]]
  BY DEF Settle
<1> QED
  BY <1>1, <1>2, <1>3, <1>4, <1>5, Idlers

-----------------------------------------------------------------------------
(* Types and single flight.                                                *)

LEMMA InitInv == Init => Inv
<1> SUFFICES ASSUME Init PROVE Inv
  OBVIOUS
<1>1. FlightsOK
  BY Idlers DEF Init, FlightsOK, NoFlight
<1>2. CallsOK
  BY Idlers DEF Init, CallsOK, IdleCall
<1>3. lock \in BOOLEAN /\ trouble \in BOOLEAN
  BY DEF Init
<1>4. cache \in Tokens \cup {None} /\ minted \in 0 .. MaxTok /\ stale \subseteq 1 .. minted
      /\ rejected \subseteq Tokens /\ met \subseteq Replicas
  BY ServiceAssumption DEF ServiceAssumption, Init
<1>5. WaitersHaveFlight
  BY DEF Init, WaitersHaveFlight, IdleCall
<1> QED
  BY <1>1, <1>2, <1>3, <1>4, <1>5 DEF Inv, TypeOK

\* The part of the invariant that concerns acquires and requests.
Going == FlightsOK /\ CallsOK /\ WaitersHaveFlight

\* An acquire that moves on stays an acquire.
LEMMA FlyOnKeeps ==
  ASSUME Going, NEW r \in Replicas, NEW tok \in Tokens \cup {None},
         NEW pc \in {"check", "grant", "store", "unlock", "poll", "peek", "reread"},
         pc = "store" => tok # None, FlyOn(r, pc, tok)
  PROVE  Going'
<1>1. FlightsOK'
  BY FlyOnFacts DEF Going, FlightsOK
<1>2. WaitersHaveFlight'
  BY FlyOnFacts, ServiceAssumption
  DEF ServiceAssumption, Going, FlightsOK, WaitersHaveFlight, InFlight
<1> QED
  BY <1>1, <1>2, FlyOnFacts DEF Going, CallsOK, FlightsOK

\* When an acquire settles, nobody is left waiting for it.
LEMMA SettleKeeps ==
  ASSUME Going, NEW r \in Replicas, NEW tok \in Tokens \cup {None}, Settle(r, tok)
  PROVE  Going'
<1>1. call \in [Calls -> Request] /\ flight \in [Replicas -> Acquire]
  BY DEF Going, CallsOK, FlightsOK
<1>2. FlightsOK'
  <2>1. NoFlight.pc = "none"
    BY DEF NoFlight
  <2> QED
    BY <1>1, <2>1, SettleFacts DEF Going, FlightsOK
<1>3. CallsOK'
  BY <1>1, SettleFacts DEF Going, CallsOK, IdleCall
<1>4. WaitersHaveFlight'
  BY <1>1, SettleFacts, ServiceAssumption
  DEF ServiceAssumption, Going, WaitersHaveFlight, InFlight, IdleCall
<1> QED
  BY <1>2, <1>3, <1>4 DEF Going

LEMMA ReturnKeeps ==
  ASSUME Going, NEW r \in Replicas, NEW tok \in Tokens \cup {None}, Return(r, tok)
  PROVE  Going'
  BY FlyOnKeeps, SettleKeeps DEF Return

\* A request that changes by itself and does not come to wait.
LEMMA CallKeeps ==
  ASSUME Going, NEW c \in Calls, NEW d \in Request, call' = [call EXCEPT ![c] = d],
         d.tok # None <=> d.pc \in {"send", "inspect", "drop"},
         d.pc # "wait" \/ InFlight(HomeOf[c]), UNCHANGED flight
  PROVE  Going'
<1>1. call' \in [Calls -> Request] /\ call'[c] = d /\ \A e \in Calls \ {c} : call'[e] = call[e]
  BY DEF Going, CallsOK
<1>2. CallsOK'
  BY <1>1 DEF Going, CallsOK
<1>3. WaitersHaveFlight'
  BY <1>1 DEF Going, WaitersHaveFlight, InFlight
<1> QED
  BY <1>2, <1>3 DEF Going, FlightsOK

LEMMA GoingStep == Inv /\ [Next]_vars => Going'
<1> SUFFICES ASSUME Inv, [Next]_vars PROVE Going'
  OBVIOUS
<1>a. /\ Going /\ cache \in Tokens \cup {None} /\ None \notin Tokens
      /\ minted \in 0 .. MaxTok /\ MaxTok \in Nat /\ HomeOf \in [Calls -> Replicas]
  BY ServiceAssumption DEF ServiceAssumption, Inv, TypeOK, Going, Tokens
<1>b. /\ \A c \in Calls : call[c] \in Request
      /\ \A c \in Calls : call[c].tok # None <=> call[c].pc \in {"send", "inspect", "drop"}
      /\ \A r \in Replicas : flight[r] \in Acquire
      /\ \A r \in Replicas : flight[r].pc = "store" => flight[r].tok # None
      /\ flight \in [Replicas -> Acquire] /\ call \in [Calls -> Request]
  BY <1>a DEF Going, CallsOK, FlightsOK
<1>0. ASSUME UNCHANGED <<flight, call>> PROVE Going'
  BY <1>0, <1>a DEF Going, CallsOK, FlightsOK, WaitersHaveFlight, InFlight
<1>1. ASSUME NEW c \in Calls, Start(c) PROVE Going'
  <2> DEFINE d == [call[c] EXCEPT !.pc = "read"]
  <2>1. d \in Request /\ d.pc = "read" /\ d.tok = None
    BY <1>1, <1>b DEF Start, Request
  <2>2. call' = [call EXCEPT ![c] = d] /\ UNCHANGED flight
    BY <1>1 DEF Start
  <2> QED
    BY <1>a, <2>1, <2>2, CallKeeps
<1>2. ASSUME NEW c \in Calls, Get(c), Hit PROVE Going'
  <2> DEFINE d == [call[c] EXCEPT !.pc = "send", !.tok = cache]
  <2>1. d \in Request /\ d.pc = "send" /\ d.tok # None
    BY <1>2, <1>a, <1>b DEF Hit, Request
  <2>2. call' = [call EXCEPT ![c] = d] /\ UNCHANGED flight
    BY <1>2 DEF Get
  <2> QED
    BY <1>a, <2>1, <2>2, CallKeeps
<1>3. ASSUME NEW c \in Calls, Get(c), ~Hit PROVE Going'
  <2> DEFINE d == [call[c] EXCEPT !.pc = "wait"]
             f == [NoFlight EXCEPT !.pc = "lock"]
             r == HomeOf[c]
  <2>1. /\ d \in Request /\ d.pc = "wait" /\ d.tok = None
        /\ call' = [call EXCEPT ![c] = d] /\ call[c].pc = "read"
    BY <1>3, <1>b DEF Get, Request
  <2>2. /\ call' \in [Calls -> Request] /\ call'[c] = d
        /\ \A e \in Calls \ {c} : call'[e] = call[e]
    BY <2>1, <1>b
  <2>3. CallsOK'
    BY <2>1, <2>2, <1>b DEF CallsOK
  <2>4. r \in Replicas
    BY <1>a
  <2>5. CASE flight[r] = NoFlight
    <3>1. f \in Acquire /\ f.pc = "lock"
      BY DEF NoFlight, Acquire
    <3>2. /\ flight' \in [Replicas -> Acquire] /\ flight'[r] = f
          /\ \A s \in Replicas \ {r} : flight'[s] = flight[s]
      BY <1>3, <1>b, <2>4, <2>5, <3>1 DEF Get
    <3>3. FlightsOK'
      BY <1>a, <3>1, <3>2 DEF Going, FlightsOK
    <3>4. WaitersHaveFlight'
      BY <1>a, <2>1, <2>2, <3>1, <3>2 DEF Going, WaitersHaveFlight, InFlight
    <3> QED
      BY <2>3, <3>3, <3>4 DEF Going
  <2>6. CASE flight[r] # NoFlight
    <3>1. InFlight(r) /\ UNCHANGED flight
      BY <1>a, <1>3, <2>4, <2>6 DEF Get, Going, FlightsOK, InFlight
    <3> QED
      BY <1>a, <2>1, <3>1, CallKeeps
  <2> QED
    BY <2>5, <2>6
<1>4. ASSUME NEW c \in Calls, Send(c) \/ InvalidateGet(c) \/ InvalidateDel(c) \/ CallFault(c)
      PROVE  Going'
  <2> DEFINE again == [pc |-> "read", tok |-> None, replay |-> TRUE]
             inspect == [call[c] EXCEPT !.pc = "inspect"]
             drop == [call[c] EXCEPT !.pc = "drop"]
  <2>1. /\ IdleCall \in Request /\ IdleCall.pc = "idle" /\ IdleCall.tok = None
        /\ again \in Request /\ again.pc = "read" /\ again.tok = None
    BY DEF IdleCall, Request
  <2>2. /\ inspect \in Request /\ inspect.pc = "inspect" /\ inspect.tok = call[c].tok
        /\ drop \in Request /\ drop.pc = "drop" /\ drop.tok = call[c].tok
    BY <1>b DEF Request
  <2>3. UNCHANGED flight
    BY <1>4 DEF Send, InvalidateGet, InvalidateDel, CallFault
  <2>4. \/ call' = [call EXCEPT ![c] = IdleCall]
        \/ call' = [call EXCEPT ![c] = again]
        \/ call[c].pc = "send" /\ call' = [call EXCEPT ![c] = inspect]
        \/ call[c].pc = "inspect" /\ call' = [call EXCEPT ![c] = drop]
    BY <1>4 DEF Send, InvalidateGet, InvalidateDel, CallFault, Again
  <2> QED
    BY <1>a, <1>b, <2>1, <2>2, <2>3, <2>4, CallKeeps
\* The steps of an acquire move it on or settle it.
<1>5. ASSUME NEW r \in Replicas, AcquireLock(r) PROVE Going'
  <2> DEFINE won == [flight[r] EXCEPT !.pc = "check", !.held = TRUE]
             lost == [flight[r] EXCEPT !.pc = "poll"]
  <2>1. /\ won \in Acquire /\ won.pc = "check"
        /\ lost \in Acquire /\ lost.pc = "poll"
    BY <1>b DEF Acquire
  <2>2. /\ UNCHANGED call /\ flight' \in [Replicas -> Acquire]
        /\ flight'[r] \in {won, lost} /\ \A s \in Replicas \ {r} : flight'[s] = flight[s]
    BY <1>5, <1>b, <2>1 DEF AcquireLock
  <2>3. FlightsOK' /\ CallsOK'
    BY <1>a, <2>1, <2>2 DEF Going, FlightsOK, CallsOK
  <2>4. WaitersHaveFlight'
    BY <1>a, <2>1, <2>2 DEF Going, WaitersHaveFlight, InFlight
  <2> QED
    BY <2>3, <2>4 DEF Going
<1>6. ASSUME NEW r \in Replicas, DoubleCheck(r) \/ PollCache(r) \/ PollLock(r) \/ Reread(r)
      PROVE  Going'
  BY <1>a, <1>6, FlyOnKeeps, SettleKeeps DEF DoubleCheck, PollCache, PollLock, Reread
<1>7. ASSUME NEW r \in Replicas, Grant(r) \/ GrantFails(r) PROVE Going'
  <2>1. Grant(r) => minted + 1 \in Tokens
    BY <1>a DEF Grant, Tokens
  <2> QED
    BY <1>a, <1>7, <2>1, FlyOnKeeps, ReturnKeeps DEF Grant, GrantFails
<1>8. ASSUME NEW r \in Replicas, Store(r) \/ Unlock(r) PROVE Going'
  <2>1. flight[r].tok \in Tokens \cup {None}
    BY <1>b DEF Acquire
  <2> QED
    BY <1>a, <1>8, <2>1, ReturnKeeps, SettleKeeps DEF Store, Unlock
<1>9. ASSUME NEW r \in Replicas, StoreFault(r) PROVE Going'
  BY <1>a, <1>9, FlyOnKeeps, SettleKeeps DEF StoreFault
<1>10. ASSUME NEW r \in Replicas, Crash(r) PROVE Going'
  <2>1. /\ flight' \in [Replicas -> Acquire] /\ flight'[r] = NoFlight
        /\ \A s \in Replicas \ {r} : flight'[s] = flight[s]
    BY <1>10, <1>b, Idlers DEF Crash
  <2>2. /\ call' \in [Calls -> Request]
        /\ \A c \in Calls : call'[c] = (IF HomeOf[c] = r THEN IdleCall ELSE call[c])
    BY <1>10, <1>b, Idlers DEF Crash
  <2>3. NoFlight.pc = "none" /\ IdleCall.pc = "idle" /\ IdleCall.tok = None
    BY DEF NoFlight, IdleCall
  <2>4. FlightsOK'
    BY <1>a, <2>1, <2>3 DEF Going, FlightsOK
  <2>5. CallsOK'
    BY <1>b, <2>2, <2>3 DEF CallsOK
  <2>6. WaitersHaveFlight'
    BY <1>a, <2>1, <2>2, <2>3 DEF Going, WaitersHaveFlight, InFlight
  <2> QED
    BY <2>4, <2>5, <2>6 DEF Going
<1>11. ASSUME NEW r \in Replicas, DeadlinePasses(r) PROVE Going'
  <2> DEFINE f == [flight[r] EXCEPT !.late = TRUE]
  <2>1. /\ f \in Acquire /\ f.pc = flight[r].pc /\ f.tok = flight[r].tok
        /\ flight[r].pc \in {"poll", "peek"}
    BY <1>11, <1>b DEF Acquire, DeadlinePasses
  <2>2. /\ UNCHANGED call /\ flight' \in [Replicas -> Acquire]
        /\ flight'[r] = f /\ \A s \in Replicas \ {r} : flight'[s] = flight[s]
    BY <1>11, <1>b, <2>1 DEF DeadlinePasses
  <2>3. FlightsOK' /\ CallsOK'
    BY <1>a, <2>1, <2>2 DEF Going, FlightsOK, CallsOK
  <2>4. WaitersHaveFlight'
    BY <1>a, <2>1, <2>2 DEF Going, WaitersHaveFlight, InFlight
  <2> QED
    BY <2>3, <2>4 DEF Going
<1>12. CASE LockExpires \/ CacheExpires \/ (\E t \in Tokens : Ages(t) \/ Reject(t)) \/ UNCHANGED vars
  BY <1>0, <1>12 DEF LockExpires, CacheExpires, Ages, Reject, vars
<1> QED
  BY <1>1, <1>2, <1>3, <1>4, <1>5, <1>6, <1>7, <1>8, <1>9, <1>10, <1>11, <1>12
  DEF Next, CallStep, FlightStep, Environment

\* What the store and the clocks hold.
Kept ==
    /\ cache \in Tokens \cup {None} /\ lock \in BOOLEAN /\ minted \in 0 .. MaxTok
    /\ stale \subseteq 1 .. minted /\ rejected \subseteq Tokens
    /\ met \subseteq Replicas /\ trouble \in BOOLEAN

LEMMA KeptStep == Inv /\ [Next]_vars => Kept'
<1> SUFFICES ASSUME Inv, [Next]_vars PROVE Kept'
  OBVIOUS
<1>a. Kept /\ MaxTok \in Nat
  BY ServiceAssumption DEF ServiceAssumption, Inv, TypeOK, Kept
<1>b. \A r \in Replicas : flight[r].tok \in Tokens \cup {None}
  BY DEF Inv, TypeOK, FlightsOK, Acquire
<1>1. cache' \in Tokens \cup {None}
  <2>1. ASSUME NEW r \in Replicas, FlightStep(r) PROVE cache' \in Tokens \cup {None}
    BY <1>a, <1>b, <2>1
    DEF FlightStep, Kept, AcquireLock, DoubleCheck, Grant, GrantFails, Store, Unlock, PollCache,
        PollLock, Reread
  <2> QED
    BY <1>a, <2>1
    DEF Kept, Next, CallStep, Environment, vars, Start, Get, Send, InvalidateGet, InvalidateDel,
        Crash, StoreFault, CallFault, LockExpires, DeadlinePasses, Ages, CacheExpires, Reject
<1>2. lock' \in BOOLEAN /\ trouble' \in BOOLEAN
  <2>1. ASSUME NEW r \in Replicas, FlightStep(r) PROVE lock' \in BOOLEAN /\ trouble' \in BOOLEAN
    BY <1>a, <2>1, Zenon
    DEF FlightStep, Kept, AcquireLock, DoubleCheck, Grant, GrantFails, Store, Unlock, PollCache,
        PollLock, Reread
  <2>2. ASSUME NEW c \in Calls, Start(c) \/ CallStep(c) \/ CallFault(c)
        PROVE  lock' \in BOOLEAN /\ trouble' \in BOOLEAN
    BY <1>a, <2>2, Zenon DEF Kept, CallStep, Start, Get, Send, InvalidateGet, InvalidateDel, CallFault
  <2>3. ASSUME NEW r \in Replicas, Crash(r) \/ StoreFault(r) \/ DeadlinePasses(r)
        PROVE  lock' \in BOOLEAN /\ trouble' \in BOOLEAN
    BY <1>a, <2>3, Zenon DEF Kept, Crash, StoreFault, DeadlinePasses
  <2>4. ASSUME NEW t \in Tokens, Ages(t) \/ Reject(t)
        PROVE  lock' \in BOOLEAN /\ trouble' \in BOOLEAN
    BY <1>a, <2>4, Zenon DEF Kept, Ages, Reject
  <2>5. CASE LockExpires \/ CacheExpires \/ UNCHANGED vars
    BY <1>a, <2>5, Zenon DEF Kept, LockExpires, CacheExpires, vars
  <2> QED
    BY <2>1, <2>2, <2>3, <2>4, <2>5 DEF Next, Environment
<1>3. minted' \in 0 .. MaxTok /\ stale' \subseteq 1 .. minted'
  <2>1. ASSUME NEW r \in Replicas, Grant(r) PROVE minted' \in 0 .. MaxTok /\ stale' \subseteq 1 .. minted'
    BY <1>a, <2>1 DEF Kept, Grant
  <2>2. ASSUME NEW t \in Tokens, Ages(t) PROVE minted' \in 0 .. MaxTok /\ stale' \subseteq 1 .. minted'
    BY <1>a, <2>2 DEF Kept, Ages
  <2>3. CASE UNCHANGED <<minted, stale>>
    BY <1>a, <2>3 DEF Kept
  <2> QED
    BY <2>1, <2>2, <2>3
    DEF Next, CallStep, FlightStep, Environment, vars, Start, Get, Send, InvalidateGet,
        InvalidateDel, AcquireLock, DoubleCheck, GrantFails, Store, Unlock, PollCache, PollLock,
        Reread, Crash, StoreFault, CallFault, LockExpires, DeadlinePasses, CacheExpires, Reject
<1>4. rejected' \subseteq Tokens /\ met' \subseteq Replicas
  BY <1>a
  DEF Kept, Next, CallStep, FlightStep, Environment, vars, Start, Get, Send, InvalidateGet,
      InvalidateDel, AcquireLock, DoubleCheck, Grant, GrantFails, Store, Unlock, PollCache,
      PollLock, Reread, Crash, StoreFault, CallFault, LockExpires, DeadlinePasses, Ages,
      CacheExpires, Reject
<1> QED
  BY <1>1, <1>2, <1>3, <1>4 DEF Kept

LEMMA InvStep == Inv /\ [Next]_vars => Inv'
  BY GoingStep, KeptStep DEF Inv, TypeOK, Going, Kept

\* service.ts, ServiceTokenSource: the types hold for any sets of requests and
\* replicas and any number of tokens.
THEOREM TokenTypesHold == Spec => []TypeOK
<1>1. Inv => TypeOK
  BY DEF Inv
<1> QED
  BY InitInv, InvStep, <1>1, PTL DEF Spec

\* service.ts, get: whatever fails, a request that waits for its replica's
\* acquire has one to wait for.
THEOREM SingleFlight == Spec => []WaitersHaveFlight
<1>1. Inv => WaitersHaveFlight
  BY DEF Inv
<1> QED
  BY InitInv, InvStep, <1>1, PTL DEF Spec

-----------------------------------------------------------------------------
(* Fetched once.                                                           *)

LEMMA InitCalm == Init => Calm
  BY DEF Init, Calm, Quiet, OneHolder, NewestKept, AtPoint, NoFlight, IdleCall

Settled == Quiet /\ OneHolder /\ NewestKept /\ AtPoint

\* What follows from Quiet: no request drops a token.
LEMMA QuietKeeps ==
  ASSUME Inv, Quiet, rejected' = {},
         \A c \in Calls : call'[c] = call[c] \/ call'[c].pc \notin {"inspect", "drop"}
  PROVE  Quiet'
  BY DEF Quiet

\* A step that moves one acquire without touching the store or the clocks.
LEMMA MoveKeeps ==
  ASSUME Inv, Settled, NEW r \in Replicas, UNCHANGED <<cache, lock, minted, stale>>, Quiet',
         \A s \in Replicas \ {r} : flight'[s] = flight[s],
         flight[r].pc # "store",
         flight'[r].held <=> flight[r].held, ~flight'[r].late,
         flight'[r].held <=> flight'[r].pc \in {"check", "grant", "store", "unlock"},
         flight'[r].pc = "grant" => minted \in stale \cup {0},
         flight'[r].pc # "store",
         flight'[r].pc \in {"unlock", "reread"} => Hit,
         flight'[r].pc \in {"poll", "peek"} => lock \/ Hit
  PROVE  Settled'
<1>1. OneHolder'
  BY DEF Settled, OneHolder
<1>2. NewestKept'
  BY DEF Settled, NewestKept
<1>3. AtPoint'
  BY DEF Settled, AtPoint, Hit
<1> QED
  BY <1>1, <1>2, <1>3 DEF Settled

\* As long as the newest token is fresh and nobody is storing it, a reader
\* finds it.
LEMMA MissMeansStale ==
  ASSUME Inv, Settled, ~Hit, NEW r \in Replicas, flight[r].held, flight[r].pc # "store"
  PROVE  minted \in stale \cup {0}
<1>1. \A s \in Replicas : flight[s].pc # "store"
  BY DEF Settled, OneHolder
<1>2. minted \in stale \cup {0} \/ cache = minted
  BY <1>1 DEF Settled, NewestKept
<1>3. None \notin Tokens /\ minted \in 0 .. MaxTok /\ MaxTok \in Nat
  BY ServiceAssumption DEF ServiceAssumption, Tokens, Inv, TypeOK
<1> QED
  BY <1>2, <1>3 DEF Hit, Tokens

LEMMA CalmStep == Inv /\ Calm /\ [Next]_vars => Calm'
<1> SUFFICES ASSUME Inv, Calm, [Next]_vars, Cacheable, ~trouble' PROVE Settled'
  BY DEF Calm, Settled
<1>a. ~trouble
  BY DEF Next, CallStep, FlightStep, Environment, vars, Start, Get, Send, InvalidateGet,
         InvalidateDel, AcquireLock, DoubleCheck, Grant, GrantFails, Store, Unlock, PollCache,
         PollLock, Reread, Crash, StoreFault, CallFault, LockExpires, DeadlinePasses, Ages,
         CacheExpires, Reject
<1>b. Settled /\ Quiet /\ OneHolder /\ NewestKept /\ AtPoint
  BY <1>a DEF Calm, Settled
<1>c. /\ flight \in [Replicas -> Acquire] /\ call \in [Calls -> Request]
      /\ \A r \in Replicas : flight[r] \in Acquire
      /\ \A r \in Replicas : flight[r].tok \in Tokens \cup {None}
      /\ cache \in Tokens \cup {None} /\ None \notin Tokens /\ minted \in 0 .. MaxTok
      /\ MaxTok \in Nat /\ stale \subseteq 1 .. minted /\ HomeOf \in [Calls -> Replicas]
      /\ \A r \in Replicas : flight[r].pc = "none" => flight[r] = NoFlight
  BY ServiceAssumption
  DEF ServiceAssumption, Inv, TypeOK, FlightsOK, CallsOK, Acquire, Tokens
\* Requests.
<1>1. ASSUME UNCHANGED <<cache, lock, minted, stale, rejected, flight>>,
             \A c \in Calls : call'[c] = call[c] \/ call'[c].pc \notin {"inspect", "drop"}
      PROVE  Settled'
  BY <1>b, <1>1 DEF Settled, Quiet, OneHolder, NewestKept, AtPoint, Hit
<1>2. ASSUME NEW c \in Calls, Start(c) \/ Send(c) \/ CallFault(c) \/ (Get(c) /\ Hit) PROVE Settled'
  <2>1. \A e \in Calls : call'[e] = call[e] \/ call'[e].pc \notin {"inspect", "drop"}
    BY <1>b, <1>c, <1>2 DEF Start, Send, CallFault, Get, Quiet, IdleCall, Request
  <2> QED
    BY <1>1, <1>2, <2>1 DEF Start, Send, CallFault, Get
<1>3. ASSUME NEW c \in Calls, Get(c), ~Hit PROVE Settled'
  <2> DEFINE r == HomeOf[c]
             f == [NoFlight EXCEPT !.pc = "lock"]
  <2>1. \A e \in Calls : call'[e] = call[e] \/ call'[e].pc \notin {"inspect", "drop"}
    BY <1>c, <1>3 DEF Get, Request
  <2>2. UNCHANGED <<cache, lock, minted, stale, rejected>> /\ r \in Replicas
    BY <1>c, <1>3 DEF Get
  <2>3. CASE flight[r] = NoFlight
    <3>1. flight'[r] = f /\ \A s \in Replicas \ {r} : flight'[s] = flight[s]
      BY <1>c, <1>3, <2>2, <2>3 DEF Get
    <3>2. f.pc = "lock" /\ ~f.held /\ ~f.late /\ flight[r].pc = "none" /\ ~flight[r].held
      BY <2>3 DEF NoFlight
    <3>3. Quiet'
      BY <1>b, <2>1, <2>2, QuietKeeps DEF Quiet
    <3> QED
      BY <1>b, <2>2, <3>1, <3>2, <3>3, MoveKeeps
  <2>4. CASE flight[r] # NoFlight
    BY <1>1, <1>3, <2>1, <2>2, <2>4 DEF Get
  <2> QED
    BY <2>3, <2>4
<1>4. ASSUME NEW c \in Calls PROVE ~InvalidateGet(c) /\ ~InvalidateDel(c)
  BY <1>b DEF Quiet, InvalidateGet, InvalidateDel
\* Acquires.
<1>5. ASSUME NEW r \in Replicas, AcquireLock(r) PROVE Settled'
  <2>0. Quiet' /\ ~flight[r].held /\ flight[r].pc = "lock"
    BY <1>b, <1>5, QuietKeeps DEF AcquireLock, Quiet, OneHolder
  <2>1. UNCHANGED <<cache, minted, stale>> /\ \A s \in Replicas \ {r} : flight'[s] = flight[s]
    BY <1>5, <1>c DEF AcquireLock
  <2>2. CASE ~lock
    <3>1. /\ lock' /\ flight'[r].pc = "check" /\ flight'[r].held
          /\ flight'[r].late = flight[r].late
      BY <1>5, <1>c, <2>2 DEF AcquireLock, Acquire
    <3>2. \A s \in Replicas : ~flight[s].held
      BY <1>b, <2>2 DEF OneHolder
    <3>3. OneHolder'
      BY <1>b, <2>1, <3>1, <3>2 DEF OneHolder
    <3>4. NewestKept'
      BY <1>b, <2>0, <2>1 DEF NewestKept
    <3>5. AtPoint'
      BY <1>b, <2>1, <3>1 DEF AtPoint, Hit
    <3> QED
      BY <2>0, <3>3, <3>4, <3>5 DEF Settled
  <2>3. CASE lock
    <3>1. /\ UNCHANGED lock /\ flight'[r].pc = "poll" /\ flight'[r].held = flight[r].held
          /\ flight'[r].late = flight[r].late
      BY <1>5, <1>c, <2>3 DEF AcquireLock, Acquire
    <3> QED
      BY <1>b, <2>0, <2>1, <2>3, <3>1, MoveKeeps DEF OneHolder
  <2> QED
    BY <2>2, <2>3
\* Moving on.
<1>6. ASSUME NEW r \in Replicas, NEW tok \in Tokens \cup {None},
             NEW pc \in {"grant", "unlock", "poll", "peek", "reread"},
             FlyOn(r, pc, tok), UNCHANGED <<cache, lock, minted, stale, rejected>>,
             flight[r].pc # "store", flight[r].held <=> pc \in {"grant", "unlock"},
             pc = "grant" => minted \in stale \cup {0},
             pc \in {"unlock", "reread"} => Hit, pc \in {"poll", "peek"} => lock \/ Hit
      PROVE  Settled'
  <2>1. /\ call' = call /\ flight'[r].pc = pc /\ flight'[r].held = flight[r].held
        /\ flight'[r].late = flight[r].late /\ \A s \in Replicas \ {r} : flight'[s] = flight[s]
    BY <1>c, <1>6, FlyOnFacts
  <2>2. Quiet'
    BY <1>b, <1>6, <2>1 DEF Quiet
  <2> QED
    BY <1>b, <1>6, <2>1, <2>2, MoveKeeps DEF OneHolder
\* Settling without the lock.
<1>7. ASSUME NEW r \in Replicas, NEW tok \in Tokens \cup {None}, Settle(r, tok),
             ~flight[r].held, UNCHANGED <<cache, lock, minted, stale, rejected>>
      PROVE  Settled'
  <2>1. /\ flight'[r] = NoFlight /\ \A s \in Replicas \ {r} : flight'[s] = flight[s]
        /\ \A c \in Calls : \/ call'[c] = call[c]
                            \/ call'[c] = IdleCall
                            \/ call'[c].pc = "send"
    BY <1>c, <1>7, SettleFacts
  <2>2. Quiet'
    BY <1>b, <1>7, <2>1 DEF Quiet, IdleCall
  <2>3. NoFlight.pc = "none" /\ ~NoFlight.held /\ ~NoFlight.late
    BY DEF NoFlight
  <2>4. flight[r].pc # "store"
    BY <1>b, <1>7 DEF OneHolder
  <2> QED
    BY <1>b, <1>7, <2>1, <2>2, <2>3, <2>4, MoveKeeps
<1>8. ASSUME NEW r \in Replicas, DoubleCheck(r) PROVE Settled'
  <2>1. flight[r].pc = "check" /\ flight[r].held
    BY <1>b, <1>8 DEF DoubleCheck, OneHolder
  <2>2. CASE Hit
    BY <1>c, <1>6, <1>8, <2>1, <2>2 DEF DoubleCheck
  <2>3. CASE ~Hit
    BY <1>b, <1>6, <1>8, <2>1, <2>3, MissMeansStale DEF DoubleCheck
  <2> QED
    BY <2>2, <2>3
<1>9. ASSUME NEW r \in Replicas, PollCache(r) \/ PollLock(r) \/ Reread(r) PROVE Settled'
  <2>1. ~flight[r].held /\ ~flight[r].late /\ flight[r].pc # "store"
    BY <1>b, <1>9 DEF PollCache, PollLock, Reread, OneHolder
  <2>2. flight[r].pc \in {"poll", "peek"} => lock \/ Hit
    BY <1>b DEF AtPoint
  <2>3. CASE PollCache(r)
    BY <1>c, <1>6, <1>7, <2>1, <2>2, <2>3 DEF PollCache
  <2>4. CASE PollLock(r)
    BY <1>6, <2>1, <2>2, <2>4 DEF PollLock
  <2>5. CASE Reread(r)
    <3>1. Hit
      BY <1>b, <2>5 DEF Reread, AtPoint
    <3> QED
      BY <1>c, <1>7, <2>1, <2>5, <3>1 DEF Reread
  <2> QED
    BY <1>9, <2>3, <2>4, <2>5
<1>10. ASSUME NEW r \in Replicas, Grant(r) PROVE Settled'
  <2>1. /\ FlyOn(r, "store", minted + 1) /\ minted' = minted + 1 /\ minted + 1 \in Tokens
        /\ flight[r].held /\ UNCHANGED <<cache, lock, stale, rejected>>
    BY <1>b, <1>c, <1>10 DEF Grant, OneHolder, Tokens
  <2>2. /\ call' = call /\ flight'[r].pc = "store" /\ flight'[r].tok = minted'
        /\ flight'[r].held /\ flight'[r].late = flight[r].late
        /\ \A s \in Replicas \ {r} : flight'[s] = flight[s]
    BY <1>c, <2>1, FlyOnFacts
  <2>3. Quiet'
    BY <1>b, <2>1, <2>2 DEF Quiet
  <2>4. OneHolder'
    BY <1>b, <2>1, <2>2 DEF OneHolder
  <2>5. NewestKept'
    BY <2>2 DEF NewestKept
  <2>6. minted' \notin stale'
    BY <1>c, <2>1
  <2>7. \A s \in Replicas \ {r} : flight[s].pc \notin {"grant", "store"}
    BY <1>b, <2>1 DEF OneHolder
  <2>8. AtPoint'
    BY <1>b, <2>1, <2>2, <2>6, <2>7 DEF AtPoint, Hit
  <2> QED
    BY <2>3, <2>4, <2>5, <2>8 DEF Settled
<1>11. ASSUME NEW r \in Replicas, Store(r) PROVE Settled'
  <2>1. /\ flight[r].held /\ flight[r].tok = minted /\ minted \notin stale
        /\ FlyOn(r, "unlock", flight[r].tok) /\ cache' = minted
        /\ UNCHANGED <<lock, minted, stale, rejected>>
    BY <1>b, <1>11 DEF Store, Return, OneHolder, AtPoint
  <2>2. /\ call' = call /\ flight'[r].pc = "unlock" /\ flight'[r].held
        /\ flight'[r].late = flight[r].late
        /\ \A s \in Replicas \ {r} : flight'[s] = flight[s]
    BY <1>c, <2>1, FlyOnFacts
  <2>3. Quiet'
    BY <1>b, <2>1, <2>2 DEF Quiet
  <2>4. OneHolder'
    BY <1>b, <2>1, <2>2 DEF OneHolder
  <2>5. NewestKept'
    BY <2>1 DEF NewestKept
  <2>6. Hit'
    BY <1>c, <1>11, <2>1 DEF Hit, Store, Inv, TypeOK, FlightsOK
  <2>7. AtPoint'
    BY <1>b, <2>1, <2>2, <2>6 DEF AtPoint
  <2> QED
    BY <2>3, <2>4, <2>5, <2>7 DEF Settled
<1>12. ASSUME NEW r \in Replicas, Unlock(r) PROVE Settled'
  <2>1. /\ flight[r].held /\ Hit /\ flight[r].pc = "unlock" /\ ~lock'
        /\ Settle(r, flight[r].tok) /\ UNCHANGED <<cache, minted, stale, rejected>>
    BY <1>b, <1>12 DEF Unlock, OneHolder, AtPoint
  <2>2. /\ flight'[r] = NoFlight /\ \A s \in Replicas \ {r} : flight'[s] = flight[s]
        /\ \A c \in Calls : \/ call'[c] = call[c]
                            \/ call'[c] = IdleCall
                            \/ call'[c].pc = "send"
    BY <1>c, <2>1, SettleFacts
  <2>3. NoFlight.pc = "none" /\ ~NoFlight.held /\ ~NoFlight.late /\ IdleCall.pc = "idle"
    BY DEF NoFlight, IdleCall
  <2>4. Quiet'
    BY <1>b, <2>1, <2>2, <2>3 DEF Quiet
  <2>5. OneHolder'
    BY <1>b, <2>1, <2>2, <2>3 DEF OneHolder
  <2>6. NewestKept'
    BY <1>b, <2>1, <2>2 DEF NewestKept
  <2>7. AtPoint'
    BY <1>b, <2>1, <2>2, <2>3 DEF AtPoint, Hit
  <2> QED
    BY <2>4, <2>5, <2>6, <2>7 DEF Settled
\* Time.
<1>13. ASSUME NEW t \in Tokens, Ages(t) PROVE Settled'
  <2>1. \A r \in Replicas : flight[r].pc = "none"
    BY <1>13, <1>a DEF Ages, InFlight
  <2> QED
    BY <1>b, <1>13, <2>1 DEF Ages, Settled, Quiet, OneHolder, NewestKept, AtPoint
<1>14. CASE CacheExpires
  BY <1>b, <1>c, <1>14 DEF CacheExpires, Settled, Quiet, OneHolder, NewestKept, AtPoint, Hit
\* Everything else is trouble.
<1>15. ASSUME NEW r \in Replicas
       PROVE  ~GrantFails(r) /\ ~Crash(r) /\ ~StoreFault(r) /\ ~DeadlinePasses(r)
  BY DEF GrantFails, Crash, StoreFault, DeadlinePasses
<1>16. ~LockExpires /\ \A t \in Tokens : ~Reject(t)
  BY DEF LockExpires, Reject
<1>17. CASE UNCHANGED vars
  BY <1>1, <1>17 DEF vars
<1> QED
  BY <1>2, <1>3, <1>4, <1>5, <1>8, <1>9, <1>10, <1>11, <1>12, <1>13, <1>14, <1>15, <1>16, <1>17
  DEF Next, CallStep, FlightStep, Environment

\* docs, "One token, fetched once": any number of requests on any number of
\* replicas; minted is how many tokens the endpoint has been asked for.
THEOREM OneTokenFetchedOnce == Spec => FetchedOnce
<1>1. Inv /\ Calm /\ [Next]_vars
      => (Cacheable /\ ~trouble /\ minted' # minted => minted \in stale \cup {0})
  <2> SUFFICES ASSUME Inv, Calm, [Next]_vars, Cacheable, ~trouble, minted' # minted
               PROVE  minted \in stale \cup {0}
    OBVIOUS
  <2>1. PICK r \in Replicas : Grant(r)
    BY DEF Next, CallStep, FlightStep, Environment, vars, Start, Get, Send, InvalidateGet,
           InvalidateDel, AcquireLock, DoubleCheck, GrantFails, Store, Unlock, PollCache,
           PollLock, Reread, Crash, StoreFault, CallFault, LockExpires, DeadlinePasses, Ages,
           CacheExpires, Reject
  <2> QED
    BY <2>1 DEF Calm, AtPoint, Grant
<1>2. Inv /\ Calm /\ [Next]_vars
      => [Cacheable /\ ~trouble /\ minted' # minted => minted \in stale \cup {0}]_vars
  BY <1>1
<1> QED
  BY InitInv, InitCalm, InvStep, CalmStep, <1>2, PTL DEF Spec, FetchedOnce

-----------------------------------------------------------------------------
(* Files.                                                                  *)

Statuses == {"unused", "pending", "available", "rejected", "gone"}

Upload == [at : {"idle", "checked", "asked", "put", "scanning"}, file : Files \cup {NoFile}]
Deletion == [at : {"idle", "read", "removed"}, file : Files \cup {NoFile}]
SweepState == [at : {"idle", "listed", "read"}, listed : SUBSET Files, orphans : SUBSET Files]

FileTypes ==
  /\ fileRow \in [Files -> Statuses] /\ object \in [Files -> {"none", "new", "old"}]
  /\ url \subseteq Files /\ slow \subseteq Files
  /\ uploader \in [Uploaders -> Upload] /\ deleter \in [Deleters -> Deletion]
  /\ sweep \in SweepState

\* An upload that has yet to add its row is the only one of its file.
Early == {"checked", "asked", "put"}

Uploading ==
  \A u \in Uploaders :
    /\ uploader[u].at # "idle" => uploader[u].file \in Files
    /\ uploader[u].at \in Early =>
         /\ fileRow[uploader[u].file] = "unused"
         /\ \A w \in Uploaders \ {u} : uploader[w].file # uploader[u].file
    /\ uploader[u].at = "scanning" => fileRow[uploader[u].file] # "unused"

Deleting ==
  \A d \in Deleters :
    /\ deleter[d].at # "idle" => deleter[d].file \in Files /\ fileRow[deleter[d].file] # "unused"
    /\ deleter[d].at = "removed" => fileRow[deleter[d].file] = "gone"

\* A file without a row yet has an object only from the upload at work, and no URL.
Unborn ==
  \A f \in Files : fileRow[f] = "unused" =>
    /\ f \notin url
    /\ object[f] # "none" => f \in {uploader[u].file : u \in {w \in Uploaders : uploader[w].at = "put"}}
    /\ object[f] = "old" \/ f \in sweep.listed => f \in slow

\* What the sweep is about to delete has lost its row for good, or was too slow.
Doomed == \A f \in sweep.orphans : fileRow[f] = "gone" \/ f \in slow

\* The bytes are there of what is available or about to become so.
Here(f) == object[f] # "none" \/ f \in slow

Backed ==
  /\ \A f \in Files : fileRow[f] = "available" => Here(f)
  /\ \A u \in Uploaders :
       /\ uploader[u].at = "put" => Here(uploader[u].file)
       /\ uploader[u].at = "scanning" =>
            Here(uploader[u].file) \/ fileRow[uploader[u].file] = "gone"

FileInv == FileTypes /\ Uploading /\ Deleting /\ Unborn /\ Doomed /\ Backed

-----------------------------------------------------------------------------
\* u is at a stage with file f, the other uploads are where they were.
UploadIs(u, at, f) ==
  /\ uploader' \in [Uploaders -> Upload] /\ uploader'[u].at = at /\ uploader'[u].file = f
  /\ \A w \in Uploaders \ {u} : uploader'[w] = uploader[w]

LEMMA UploadFacts ==
  ASSUME FileTypes, NEW u \in Uploaders, NEW f \in Files \cup {NoFile},
         NEW at \in {"idle", "checked", "asked", "put", "scanning"}, Uploads(u, at, f)
  PROVE  UploadIs(u, at, f)
<1> DEFINE q == [at |-> at, file |-> f]
<1>1. q \in Upload /\ q.at = at /\ q.file = f
  BY DEF Upload
<1>2. uploader' = [uploader EXCEPT ![u] = q]
  BY DEF Uploads
<1> HIDE DEF q
<1> QED
  BY <1>1, <1>2 DEF FileTypes, UploadIs

DeletionIs(d, at, f) ==
  /\ deleter' \in [Deleters -> Deletion] /\ deleter'[d].at = at /\ deleter'[d].file = f
  /\ \A e \in Deleters \ {d} : deleter'[e] = deleter[e]

LEMMA DeletionFacts ==
  ASSUME FileTypes, NEW d \in Deleters, NEW f \in Files \cup {NoFile},
         NEW at \in {"idle", "read", "removed"}, Deletes(d, at, f)
  PROVE  DeletionIs(d, at, f)
<1> DEFINE q == [at |-> at, file |-> f]
<1>1. q \in Deletion /\ q.at = at /\ q.file = f
  BY DEF Deletion
<1>2. deleter' = [deleter EXCEPT ![d] = q]
  BY DEF Deletes
<1> HIDE DEF q
<1> QED
  BY <1>1, <1>2 DEF FileTypes, DeletionIs

LEMMA SweepFacts ==
  /\ SweepAtRest \in SweepState /\ SweepAtRest.listed = {} /\ SweepAtRest.orphans = {}
  /\ \A s \in SweepState :
       /\ s.listed \subseteq Files /\ s.orphans \subseteq Files
       /\ \A at \in {"idle", "listed", "read"}, o \in SUBSET Files :
            LET r == [s EXCEPT !.at = at, !.orphans = o]
            IN r \in SweepState /\ r.listed = s.listed /\ r.orphans = o
       /\ \A o \in SUBSET Files :
            LET r == [s EXCEPT !.orphans = o]
            IN r \in SweepState /\ r.listed = s.listed /\ r.orphans = o
  BY DEF SweepAtRest, SweepState

LEMMA FileInitInv == FileInit => FileInv
<1> SUFFICES ASSUME FileInit PROVE FileInv
  OBVIOUS
<1>1. UploaderAtRest \in Upload /\ UploaderAtRest \in Deletion /\ UploaderAtRest.at = "idle"
  BY DEF UploaderAtRest, Upload, Deletion
<1>2. FileTypes
  BY <1>1, SweepFacts DEF FileInit, FileTypes, Statuses
<1>3. Uploading /\ Deleting
  BY <1>1 DEF FileInit, Uploading, Deleting, Early
<1>4. Unborn /\ Doomed /\ Backed
  BY <1>1, SweepFacts DEF FileInit, Unborn, Doomed, Backed
<1> QED
  BY <1>2, <1>3, <1>4 DEF FileInv

\* The type facts of one request.
LEMMA FileRequests ==
  ASSUME FileInv
  PROVE  /\ \A u \in Uploaders : uploader[u] \in Upload
         /\ \A u \in Uploaders : uploader[u].at \notin {"idle"} => uploader[u].file \in Files
         /\ \A d \in Deleters : deleter[d] \in Deletion
         /\ \A d \in Deleters : deleter[d].at \notin {"idle"} => deleter[d].file \in Files
         /\ sweep.listed \subseteq Files /\ sweep.orphans \subseteq Files
  BY SweepFacts DEF FileInv, FileTypes, Uploading, Deleting

-----------------------------------------------------------------------------
(* The steps of an upload.                                                 *)

LEMMA CheckStep ==
  ASSUME FileInv, NEW u \in Uploaders, NEW f \in Files, CheckQuota(u, f) \/ FindObject(u, f)
  PROVE  FileInv'
<1>1. PICK at \in {"checked", "asked", "scanning"} :
        /\ Uploads(u, at, f)
        /\ at # "scanning" => fileRow[f] = "unused" /\ f \notin Taken
        /\ at = "scanning" => fileRow[f] = "pending" /\ object[f] # "none"
  BY DEF CheckQuota, FindObject
<1>2. uploader[u].at = "idle" /\ UNCHANGED <<fileRow, object, url, deleter, sweep, slow>>
  BY DEF CheckQuota, FindObject
<1>3. UploadIs(u, at, f)
  BY <1>1, UploadFacts DEF FileInv
<1>4. FileTypes' /\ Deleting' /\ Doomed'
  BY <1>2, <1>3 DEF FileInv, FileTypes, UploadIs, Deleting, Doomed
<1>5. Uploading'
  BY <1>1, <1>2, <1>3 DEF FileInv, UploadIs, Uploading, Taken, Early
<1>6. Unborn'
  BY <1>1, <1>2, <1>3 DEF FileInv, UploadIs, Unborn
<1>7. Backed'
  BY <1>1, <1>2, <1>3 DEF FileInv, UploadIs, Backed, Here
<1> QED
  BY <1>4, <1>5, <1>6, <1>7 DEF FileInv

LEMMA PutStep ==
  ASSUME FileInv, NEW u \in Uploaders, PutObject(u) PROVE FileInv'
<1> DEFINE f == uploader[u].file
<1>1. /\ uploader[u].at = "checked" /\ f \in Files /\ fileRow[f] = "unused"
      /\ UNCHANGED <<fileRow, url, deleter, sweep, slow>>
  BY FileRequests DEF PutObject, FileInv, Uploading, Early
<1>2. UploadIs(u, "put", f)
  BY <1>1, UploadFacts DEF FileInv, PutObject
<1>3. /\ object' \in [Files -> {"none", "new", "old"}] /\ object'[f] = "new"
      /\ \A g \in Files \ {f} : object'[g] = object[g]
  BY <1>1 DEF PutObject, FileInv, FileTypes
<1> HIDE DEF f
<1>4. FileTypes' /\ Deleting' /\ Doomed'
  BY <1>1, <1>2, <1>3 DEF FileInv, FileTypes, UploadIs, Deleting, Doomed
<1>5. Uploading'
  BY <1>1, <1>2 DEF FileInv, UploadIs, Uploading, Early, f
<1>6. Unborn'
  BY <1>1, <1>2, <1>3 DEF FileInv, UploadIs, Unborn, f
<1>7. Backed'
  BY <1>1, <1>2, <1>3, FileRequests DEF FileInv, UploadIs, Backed, Here
<1> QED
  BY <1>4, <1>5, <1>6, <1>7 DEF FileInv

\* An upload comes to rest, whatever has become of its file's row and URL.
LEMMA RestStep ==
  ASSUME FileInv, NEW u \in Uploaders, uploader[u].at # "idle",
         Uploads(u, "idle", NoFile), UNCHANGED <<object, deleter, sweep, slow>>,
         NEW status \in Statuses \ {"unused"}, NEW new \in SUBSET Files,
         fileRow' = [fileRow EXCEPT ![uploader[u].file] = status], url' = new,
         \A f \in new : f \in url \/ f = uploader[u].file,
         fileRow[uploader[u].file] = "gone" => status = "gone",
         status = "available" => Here(uploader[u].file) 
  PROVE  FileInv'
<1> DEFINE f == uploader[u].file
<1>1. f \in Files
  BY FileRequests
<1>2. UploadIs(u, "idle", NoFile)
  BY UploadFacts DEF FileInv
<1>3. /\ fileRow' \in [Files -> Statuses] /\ fileRow'[f] = status
      /\ \A g \in Files \ {f} : fileRow'[g] = fileRow[g]
  BY <1>1 DEF FileInv, FileTypes
<1> HIDE DEF f
<1>4. FileTypes'
  BY <1>2, <1>3 DEF FileInv, FileTypes, UploadIs
<1>5. Deleting' /\ Doomed'
  BY <1>3, FileRequests DEF FileInv, Deleting, Doomed, f
<1>6. Uploading'
  BY <1>2, <1>3, FileAssumption DEF FileInv, UploadIs, Uploading, Early, f
<1>7. Unborn'
  BY <1>2, <1>3 DEF FileInv, UploadIs, Unborn, f
<1>8. Backed'
  BY <1>2, <1>3, FileRequests DEF FileInv, UploadIs, Backed, Here, f
<1> QED
  BY <1>4, <1>5, <1>6, <1>7, <1>8 DEF FileInv

LEMMA UploadEndsStep ==
  ASSUME FileInv, NEW u \in Uploaders, AddRow(u) \/ SaveVerdict(u) \/ UploadFails(u)
  PROVE  FileInv'
<1> DEFINE f == uploader[u].file
<1>1. f \in Files /\ fileRow[f] \in Statuses /\ url \subseteq Files
  BY FileRequests DEF AddRow, SaveVerdict, UploadFails, FileInv, FileTypes
<1>2. CASE AddRow(u)
  <2>1. fileRow[f] = "unused" /\ (uploader[u].at = "put" => Here(f))
    BY <1>2 DEF AddRow, FileInv, Uploading, Early, Backed
  <2> DEFINE status == IF uploader[u].at = "put" THEN "available" ELSE "pending"
  <2>2. status \in Statuses \ {"unused"} /\ (status = "available" => Here(f))
    BY <2>1 DEF Statuses
  <2>3. PICK new \in SUBSET Files : url' = new /\ \A g \in new : g \in url \/ g = f
    BY <1>1, <1>2 DEF AddRow
  <2>4. /\ fileRow' = [fileRow EXCEPT ![f] = status] /\ Uploads(u, "idle", NoFile)
        /\ UNCHANGED <<object, deleter, sweep, slow>> /\ uploader[u].at # "idle"
    BY <1>2 DEF AddRow
  <2> HIDE DEF status
  <2> QED
    BY <2>1, <2>2, <2>3, <2>4, RestStep
<1>3. CASE SaveVerdict(u)
  <2>1. fileRow[f] # "unused" /\ (Here(f) \/ fileRow[f] = "gone")
    BY <1>3 DEF SaveVerdict, FileInv, Uploading, Backed
  <2>2. PICK status \in Statuses \ {"unused"} :
          /\ fileRow' = [fileRow EXCEPT ![f] = status]
          /\ fileRow[f] = "gone" => status = "gone"
          /\ status = "available" => Here(f)
    <3>1. CASE fileRow[f] = "gone"
      <4>1. fileRow' = [fileRow EXCEPT ![f] = "gone"]
        BY <1>3, <3>1 DEF SaveVerdict, FileInv, FileTypes
      <4> QED
        BY <3>1, <4>1 DEF Statuses
    <3>2. CASE fileRow[f] # "gone"
      BY <1>3, <2>1, <3>2 DEF SaveVerdict, Statuses
    <3> QED
      BY <3>1, <3>2
  <2> QED
    BY <1>1, <1>3, <2>2, RestStep DEF SaveVerdict
<1>4. CASE UploadFails(u)
  <2> DEFINE status == IF fileRow[f] = "unused" THEN "gone" ELSE fileRow[f]
  <2>1. status \in Statuses \ {"unused"} /\ (fileRow[f] = "gone" => status = "gone")
        /\ (status = "available" => Here(f))
    BY <1>1 DEF Statuses, FileInv, Backed
  <2>2. /\ fileRow' = [fileRow EXCEPT ![f] = status] /\ Uploads(u, "idle", NoFile)
        /\ UNCHANGED <<object, url, deleter, sweep, slow>> /\ uploader[u].at # "idle"
    BY <1>1, <1>4 DEF UploadFails, FileInv, FileTypes
  <2> HIDE DEF status
  <2> QED
    BY <1>1, <2>1, <2>2, RestStep
<1> QED
  BY <1>2, <1>3, <1>4

-----------------------------------------------------------------------------
(* Objects and URLs.                                                       *)

\* Only the object of f changes, and it goes only where the row is gone or f was slow.
LEMMA ObjectStep ==
  ASSUME FileInv, NEW f \in Files, NEW state \in {"none", "new", "old"},
         object' = [object EXCEPT ![f] = state],
         UNCHANGED <<fileRow, uploader>>,
         url' \subseteq url, slow \subseteq slow', slow' \subseteq Files,
         deleter' \in [Deleters -> Deletion], Deleting',
         sweep' \in SweepState, sweep'.listed \subseteq sweep.listed,
         sweep'.orphans \subseteq sweep.orphans,
         state = "none" => fileRow[f] = "gone" \/ f \in slow,
         state # "none" => object[f] # "none" \/ f \in url,
         state = "old" /\ fileRow[f] = "unused" => f \in slow'
  PROVE  FileInv'
<1>1. /\ object' \in [Files -> {"none", "new", "old"}] /\ object'[f] = state
      /\ \A g \in Files \ {f} : object'[g] = object[g]
  BY DEF FileInv, FileTypes
<1>2. FileTypes' /\ Uploading'
  BY <1>1 DEF FileInv, FileTypes, Uploading
<1>3. Doomed'
  BY DEF FileInv, Doomed
<1>4. Unborn'
  <2> SUFFICES ASSUME NEW g \in Files, fileRow[g] = "unused"
               PROVE  /\ g \notin url'
                      /\ object'[g] # "none" => g \in {uploader[u].file : u \in {w \in Uploaders : uploader[w].at = "put"}}
                      /\ object'[g] = "old" \/ g \in sweep'.listed => g \in slow'
    BY DEF Unborn
  <2>1. /\ g \notin url
        /\ object[g] # "none" => g \in {uploader[u].file : u \in {w \in Uploaders : uploader[w].at = "put"}}
        /\ object[g] = "old" \/ g \in sweep.listed => g \in slow
    BY DEF FileInv, Unborn
  <2> QED
    BY <1>1, <2>1
<1>5. Backed'
  <2>1. \A g \in Files : Here(g) => Here(g)' \/ fileRow[g] = "gone"
    BY <1>1 DEF Here
  <2>2. \A g \in Files : fileRow[g] = "available" => Here(g)'
    BY <2>1 DEF FileInv, Backed
  <2>3. ASSUME NEW u \in Uploaders
        PROVE  /\ uploader[u].at = "put" => Here(uploader[u].file)'
               /\ uploader[u].at = "scanning" =>
                    Here(uploader[u].file)' \/ fileRow[uploader[u].file] = "gone"
    BY <2>1, FileRequests DEF FileInv, Backed, Uploading, Early
  <2> QED
    BY <2>2, <2>3 DEF Backed, Here
<1> QED
  BY <1>2, <1>3, <1>4, <1>5 DEF FileInv

LEMMA UrlStep ==
  ASSUME FileInv, NEW f \in Files, PutByUrl(f) \/ UrlExpires(f) \/ ObjectAges(f)
  PROVE  FileInv'
<1>1. /\ deleter \in [Deleters -> Deletion] /\ Deleting /\ sweep \in SweepState
      /\ slow \subseteq Files /\ url \subseteq Files
  BY DEF FileInv, FileTypes
<1>2. CASE PutByUrl(f)
  <2>1. Deleting'
    BY <1>1, <1>2 DEF PutByUrl, Deleting
  <2> QED
    BY <1>1, <1>2, <2>1, ObjectStep DEF PutByUrl
<1>3. CASE UrlExpires(f)
  BY <1>3 DEF UrlExpires, FileInv, FileTypes, Uploading, Deleting, Unborn, Doomed, Backed, Here
<1>4. CASE ObjectAges(f)
  <2>1. Deleting'
    BY <1>1, <1>4 DEF ObjectAges, Deleting
  <2>2. slow \subseteq slow' /\ slow' \subseteq Files /\ (fileRow[f] = "unused" => f \in slow')
    BY <1>1, <1>4 DEF ObjectAges, FileInv, Unborn, Taken
  <2> QED
    BY <1>1, <1>4, <2>1, <2>2, ObjectStep DEF ObjectAges
<1> QED
  BY <1>2, <1>3, <1>4

-----------------------------------------------------------------------------
(* The steps of a deletion.                                                *)

LEMMA DeletionStep ==
  ASSUME FileInv, NEW d \in Deleters,
         DeleteFails(d) \/ RemoveObject(d) \/ \E f \in Files : FindRow(d, f)
  PROVE  FileInv'
<1>1. CASE RemoveObject(d)
  <2> DEFINE f == deleter[d].file
  <2>1. f \in Files /\ fileRow[f] = "gone"
    BY <1>1, FileRequests DEF RemoveObject, FileInv, Deleting
  <2>2. DeletionIs(d, "idle", NoFile) /\ UNCHANGED <<fileRow, url, uploader, sweep, slow>>
    BY <1>1, DeletionFacts DEF RemoveObject, FileInv
  <2>3. Deleting'
    BY <2>2 DEF FileInv, Deleting, DeletionIs
  <2>4. object' = [object EXCEPT ![f] = "none"]
    BY <1>1 DEF RemoveObject
  <2>5. slow \subseteq Files /\ sweep \in SweepState
    BY DEF FileInv, FileTypes
  <2> HIDE DEF f
  <2> QED
    BY <2>1, <2>2, <2>3, <2>4, <2>5, ObjectStep DEF DeletionIs
<1>2. CASE DeleteFails(d) \/ \E f \in Files : FindRow(d, f)
  <2>1. /\ deleter' \in [Deleters -> Deletion] /\ Deleting'
        /\ UNCHANGED <<fileRow, object, url, uploader, sweep, slow>>
    <3>1. CASE DeleteFails(d)
      <4>1. DeletionIs(d, "idle", NoFile) /\ UNCHANGED <<fileRow, object, url, uploader, sweep, slow>>
        BY <3>1, DeletionFacts DEF DeleteFails, FileInv
      <4> QED
        BY <4>1 DEF FileInv, Deleting, DeletionIs
    <3>2. ASSUME NEW f \in Files, FindRow(d, f) PROVE deleter' \in [Deleters -> Deletion] /\ Deleting'
                                                   /\ UNCHANGED <<fileRow, object, url, uploader, sweep, slow>>
      <4>1. /\ DeletionIs(d, "read", f) /\ fileRow[f] # "unused"
            /\ UNCHANGED <<fileRow, object, url, uploader, sweep, slow>>
        BY <3>2, DeletionFacts DEF FindRow, FileInv
      <4> QED
        BY <4>1 DEF FileInv, Deleting, DeletionIs
    <3> QED
      BY <1>2, <3>1, <3>2
  <2> QED
    BY <2>1 DEF FileInv, FileTypes, Uploading, Unborn, Doomed, Backed, Here
<1> QED
  BY <1>1, <1>2

LEMMA RemoveRowStep ==
  ASSUME FileInv, NEW d \in Deleters, RemoveRow(d) PROVE FileInv'
<1> DEFINE f == deleter[d].file
<1>1. f \in Files /\ fileRow[f] # "unused"
  BY FileRequests DEF RemoveRow, FileInv, Deleting
<1>2. /\ fileRow' \in [Files -> Statuses] /\ fileRow'[f] = "gone"
      /\ \A g \in Files \ {f} : fileRow'[g] = fileRow[g]
      /\ UNCHANGED <<object, url, uploader, sweep, slow>>
  BY <1>1 DEF RemoveRow, FileInv, FileTypes, Statuses
<1>3. DeletionIs(d, "idle", NoFile) \/ DeletionIs(d, "removed", f)
  BY <1>1, DeletionFacts DEF RemoveRow, FileInv
<1> HIDE DEF f
<1>4. FileTypes'
  BY <1>2, <1>3 DEF FileInv, FileTypes, DeletionIs
<1>5. Uploading'
  BY <1>1, <1>2, FileRequests DEF FileInv, Uploading, Early
<1>6. Deleting'
  BY <1>1, <1>2, <1>3, FileRequests DEF FileInv, Deleting, DeletionIs
<1>7. Unborn' /\ Doomed'
  BY <1>2, FileRequests DEF FileInv, Unborn, Doomed
<1>8. Backed'
  BY <1>2, FileRequests DEF FileInv, Backed, Here
<1> QED
  BY <1>4, <1>5, <1>6, <1>7, <1>8 DEF FileInv

-----------------------------------------------------------------------------
(* The sweep.                                                              *)

\* What is listed without a row was too slow; what becomes an orphan has lost its row.
LEMMA SweepStep ==
  ASSUME FileInv, ListOld \/ ReadRows \/ SweepEnds \/ SweepFails PROVE FileInv'
<1>1. ASSUME sweep' \in SweepState, UNCHANGED <<fileRow, object, url, uploader, deleter, slow>>,
             \A f \in sweep'.listed : fileRow[f] = "unused" => f \in slow,
             Doomed'
      PROVE  FileInv'
  BY <1>1 DEF FileInv, FileTypes, Uploading, Deleting, Unborn, Backed, Here
<1>2. CASE ListOld
  <2> DEFINE old == {f \in Files : object[f] = "old"}
  <2>1. sweep'= [SweepAtRest EXCEPT !.at = "listed", !.listed = old]
        /\ UNCHANGED <<fileRow, object, url, uploader, deleter, slow>>
    BY <1>2 DEF ListOld
  <2>2. sweep' \in SweepState /\ sweep'.listed = old /\ sweep'.orphans = {}
    BY <2>1 DEF SweepAtRest, SweepState
  <2>3. \A f \in old : fileRow[f] = "unused" => f \in slow
    BY DEF FileInv, Unborn
  <2> HIDE DEF old
  <2> QED
    BY <1>1, <2>1, <2>2, <2>3 DEF Doomed
<1>3. CASE ReadRows
  <2> DEFINE orphans == sweep.listed \ Rows({"pending", "available", "rejected"})
  <2>1. orphans \subseteq Files /\ sweep \in SweepState
    BY FileRequests DEF FileInv, FileTypes
  <2>2. sweep' = [sweep EXCEPT !.at = "read", !.orphans = orphans]
        /\ UNCHANGED <<fileRow, object, url, uploader, deleter, slow>>
    BY <1>3 DEF ReadRows
  <2>3. sweep' \in SweepState /\ sweep'.listed = sweep.listed /\ sweep'.orphans = orphans
    BY <2>1, <2>2 DEF SweepState
  <2>4. \A f \in sweep.listed : f \in Files /\ (fileRow[f] = "unused" => f \in slow)
    BY FileRequests DEF FileInv, Unborn
  <2>5. \A f \in orphans : fileRow[f] = "gone" \/ f \in slow
    BY <2>4 DEF Rows, FileInv, FileTypes, Statuses
  <2> HIDE DEF orphans
  <2> QED
    BY <1>1, <2>2, <2>3, <2>4, <2>5 DEF Doomed
<1>4. CASE SweepEnds \/ SweepFails
  BY <1>1, <1>4, SweepFacts DEF SweepEnds, SweepFails, Doomed
<1> QED
  BY <1>2, <1>3, <1>4

LEMMA SweepObjectStep ==
  ASSUME FileInv, NEW f \in Files, SweepObject(f) PROVE FileInv'
<1> DEFINE orphans == sweep.orphans \ {f}
<1>1. f \in sweep.orphans /\ orphans \subseteq Files /\ sweep \in SweepState
      /\ deleter \in [Deleters -> Deletion] /\ slow \subseteq Files
  BY FileRequests DEF SweepObject, FileInv, FileTypes
<1>2. sweep' = [sweep EXCEPT !.orphans = orphans]
      /\ object' = [object EXCEPT ![f] = "none"]
      /\ UNCHANGED <<fileRow, url, uploader, deleter, slow>>
  BY DEF SweepObject
<1>3. sweep' \in SweepState /\ sweep'.listed = sweep.listed /\ sweep'.orphans = orphans
  BY <1>1, <1>2 DEF SweepState
<1>4. fileRow[f] = "gone" \/ f \in slow
  BY <1>1 DEF FileInv, Doomed
<1>5. Deleting'
  BY <1>2 DEF FileInv, Deleting
<1> QED
  BY <1>1, <1>2, <1>3, <1>4, <1>5, ObjectStep

LEMMA FileStep == FileInv /\ [FileNext]_fileVars => FileInv'
<1> SUFFICES ASSUME FileInv, [FileNext]_fileVars PROVE FileInv'
  OBVIOUS
<1>1. CASE UNCHANGED fileVars
  BY <1>1 DEF fileVars, FileInv, FileTypes, Uploading, Deleting, Unborn, Doomed, Backed, Here
<1> QED
  BY <1>1, CheckStep, PutStep, UploadEndsStep, UrlStep, DeletionStep, RemoveRowStep,
     SweepStep, SweepObjectStep DEF FileNext

\* The rows, the objects and the requests keep their types (UploadFileHandler,
\* DeleteFileHandler, OrphanedObjectSweepJob).
THEOREM FileTypesHold == FileSpec => []FileTypeOK
<1>1. FileInv => FileTypeOK
  BY DEF FileInv, FileTypes, FileTypeOK, Statuses, Upload, Deletion, SweepState
<1> QED
  BY <1>1, FileInitInv, FileStep, PTL DEF FileSpec

\* An available file has its object, unless its upload was slower than the sweep's
\* MinimumAge: deletions remove the row first, the sweep looks for rows last.
THEOREM NoRowWithoutBytes == FileSpec => []RowsHaveBytes
<1>1. FileInv => RowsHaveBytes
  BY DEF FileInv, Backed, Here, RowsHaveBytes
<1> QED
  BY <1>1, FileInitInv, FileStep, PTL DEF FileSpec

-----------------------------------------------------------------------------
(* The quota.                                                              *)

HeldRows == Rows({"pending", "available", "rejected"})

\* The uploads that have been let in and have yet to add their row.
Adding == {u \in Uploaders : uploader[u].at \in Early}

Bounded == Used + Cardinality(Adding) < Quota + Cardinality(Uploaders)

LEMMA HeldFacts ==
  /\ IsFiniteSet(HeldRows) /\ IsFiniteSet(Adding) /\ Used = Cardinality(HeldRows)
  /\ Used \in Nat /\ Cardinality(Adding) \in Nat
  /\ Cardinality(Uploaders) \in Nat /\ Cardinality(Adding) <= Cardinality(Uploaders)
<1>1. HeldRows \subseteq Files /\ Adding \subseteq Uploaders
  BY DEF HeldRows, Adding, Rows
<1>2. IsFiniteSet(HeldRows) /\ IsFiniteSet(Adding) /\ Cardinality(Adding) <= Cardinality(Uploaders)
  BY <1>1, FS_Subset, FileAssumption
<1> QED
  BY <1>2, FS_CardinalityType, FileAssumption DEF Used, HeldRows

\* No step but the check of the quota and the addition of a row adds to either.
QuietStep == HeldRows' \subseteq HeldRows /\ Adding' \subseteq Adding

LEMMA QuietUploads ==
  ASSUME FileInv, NEW u \in Uploaders,
         PutObject(u) \/ SaveVerdict(u) \/ UploadFails(u) \/ \E f \in Files : FindObject(u, f)
  PROVE  QuietStep
<1>1. CASE PutObject(u)
  <2>1. UploadIs(u, "put", uploader[u].file) /\ fileRow' = fileRow /\ uploader[u].at = "checked"
    BY <1>1, FileRequests, UploadFacts DEF FileInv, PutObject
  <2> QED
    BY <2>1 DEF QuietStep, HeldRows, Rows, Adding, Early, UploadIs
<1>2. CASE SaveVerdict(u) \/ UploadFails(u)
  <2>1. UploadIs(u, "idle", NoFile)
    BY <1>2, UploadFacts DEF FileInv, SaveVerdict, UploadFails
  <2>2. Adding' \subseteq Adding
    BY <2>1 DEF Adding, Early, UploadIs
  <2>3. uploader[u].file \in Files
    BY <1>2, FileRequests DEF SaveVerdict, UploadFails
  <2>4. \A f \in Files : fileRow'[f] # fileRow[f] =>
           fileRow[f] \in {"pending", "available", "rejected"} \/ fileRow'[f] = "gone"
    <3>1. CASE SaveVerdict(u)
      <4>1. fileRow[uploader[u].file] \in Statuses \ {"unused"}
        BY <2>3, <3>1 DEF SaveVerdict, FileInv, FileTypes, Uploading
      <4> QED
        BY <2>3, <3>1, <4>1 DEF SaveVerdict, FileInv, FileTypes, Statuses
    <3>2. CASE UploadFails(u)
      BY <2>3, <3>2 DEF UploadFails, FileInv, FileTypes
    <3> QED
      BY <1>2, <3>1, <3>2
  <2> QED
    BY <2>2, <2>4 DEF QuietStep, HeldRows, Rows
<1>3. CASE \E f \in Files : FindObject(u, f)
  <2>1. PICK f \in Files : FindObject(u, f)
    BY <1>3
  <2>2. UploadIs(u, "scanning", f) /\ fileRow' = fileRow
    BY <2>1, UploadFacts DEF FileInv, FindObject
  <2> QED
    BY <2>2 DEF QuietStep, HeldRows, Rows, Adding, Early, UploadIs
<1> QED
  BY <1>1, <1>2, <1>3

LEMMA QuietOthers ==
  ASSUME FileInv, uploader' = uploader,
         \/ \E d \in Deleters : RemoveRow(d)
         \/ fileRow' = fileRow
  PROVE  QuietStep
<1>1. \A f \in Files : fileRow'[f] = fileRow[f] \/ fileRow'[f] = "gone"
  BY DEF RemoveRow, FileInv, FileTypes
<1> QED
  BY <1>1 DEF QuietStep, HeldRows, Rows, Adding

LEMMA QuotaStep ==
  ASSUME FileInv, Bounded, FileNext PROVE Bounded'
<1>1. /\ IsFiniteSet(HeldRows') /\ IsFiniteSet(Adding') /\ Used' = Cardinality(HeldRows')
      /\ Used' \in Nat /\ Cardinality(Adding') \in Nat /\ Cardinality(Adding') <= Cardinality(Uploaders)
  <2>1. HeldRows' \subseteq Files /\ Adding' \subseteq Uploaders
    BY DEF HeldRows, Adding, Rows
  <2>2. IsFiniteSet(HeldRows') /\ IsFiniteSet(Adding') /\ Cardinality(Adding') <= Cardinality(Uploaders)
    BY <2>1, FS_Subset, FileAssumption
  <2> QED
    BY <2>2, FS_CardinalityType, FileAssumption DEF Used, HeldRows
<1>2. CASE QuietStep
  <2>1. Used' <= Used /\ Cardinality(Adding') <= Cardinality(Adding)
    BY <1>1, <1>2, HeldFacts, FS_Subset DEF QuietStep
  <2> QED
    BY <1>1, <2>1, HeldFacts, FileAssumption DEF Bounded
<1>3. ASSUME NEW u \in Uploaders, AddRow(u) PROVE Bounded'
  <2> DEFINE f == uploader[u].file
  <2>1. f \in Files /\ UploadIs(u, "idle", NoFile) /\ uploader[u].at \in Early
        /\ \A g \in Files \ {f} : fileRow'[g] = fileRow[g]
    BY <1>3, FileRequests, UploadFacts DEF FileInv, FileTypes, AddRow, Early
  <2>2. HeldRows' \subseteq HeldRows \cup {f} /\ Adding' = Adding \ {u} /\ u \in Adding
    BY <2>1 DEF HeldRows, Rows, Adding, Early, UploadIs
  <2>3. IsFiniteSet(HeldRows \cup {f}) /\ Cardinality(HeldRows \cup {f}) \in Nat
        /\ Cardinality(HeldRows \cup {f}) <= Used + 1
    <3>1. /\ IsFiniteSet(HeldRows \cup {f})
          /\ Cardinality(HeldRows \cup {f}) =
               IF f \in HeldRows THEN Cardinality(HeldRows) ELSE Cardinality(HeldRows) + 1
      <4> HIDE DEF f
      <4> QED
        BY HeldFacts, FS_AddElement
    <3> QED
      BY <3>1, HeldFacts
  <2>4. Used' <= Used + 1
    BY <1>1, <2>2, <2>3, HeldFacts, FS_Subset
  <2>5. Cardinality(Adding') = Cardinality(Adding) - 1
    BY <2>2, HeldFacts, FS_RemoveElement
  <2> QED
    BY <1>1, <2>4, <2>5, HeldFacts, FileAssumption DEF Bounded
<1>4. ASSUME NEW u \in Uploaders, NEW f \in Files, CheckQuota(u, f) PROVE Bounded'
  <2>1. Used' = Used /\ Used + 1 <= Quota
    BY <1>4 DEF CheckQuota, WithinQuota, Used, Rows
  <2> QED
    BY <1>1, <2>1, HeldFacts, FileAssumption DEF Bounded
<1>5. CASE \/ \E u \in Uploaders :
                \/ PutObject(u) \/ SaveVerdict(u) \/ UploadFails(u)
                \/ \E f \in Files : FindObject(u, f)
  BY <1>2, <1>5, QuietUploads
<1>6. CASE \/ \E f \in Files : PutByUrl(f) \/ UrlExpires(f) \/ ObjectAges(f) \/ SweepObject(f)
           \/ \E d \in Deleters :
                \/ RemoveRow(d) \/ RemoveObject(d) \/ DeleteFails(d)
                \/ \E f \in Files : FindRow(d, f)
           \/ ListOld \/ ReadRows \/ SweepEnds \/ SweepFails
  <2>1. uploader' = uploader
    BY <1>6 DEF PutByUrl, UrlExpires, ObjectAges, SweepObject, RemoveRow, RemoveObject,
                DeleteFails, FindRow, ListOld, ReadRows, SweepEnds, SweepFails
  <2>2. fileRow' = fileRow \/ \E d \in Deleters : RemoveRow(d)
    BY <1>6 DEF PutByUrl, UrlExpires, ObjectAges, SweepObject, RemoveObject,
                DeleteFails, FindRow, ListOld, ReadRows, SweepEnds, SweepFails
  <2> QED
    BY <1>2, <2>1, <2>2, QuietOthers
<1> QED
  BY <1>3, <1>4, <1>5, <1>6 DEF FileNext

LEMMA QuotaInit == FileInit => Bounded
<1> SUFFICES ASSUME FileInit PROVE Bounded
  OBVIOUS
<1>1. HeldRows = {} /\ Adding = {}
  BY DEF FileInit, UploaderAtRest, HeldRows, Rows, Adding, Early
<1>2. Used = 0 /\ Cardinality(Adding) = 0
  BY <1>1, HeldFacts, FS_EmptySet
<1>3. Cardinality(Uploaders) # 0
  BY FS_EmptySet, FileAssumption
<1> QED
  BY <1>2, <1>3, HeldFacts, FileAssumption DEF Bounded

\* The uploads in progress pass the quota by less than one file each: whoever is let
\* in found room for its file, and then at most the others have yet to add a row
\* (UploadFileHandler, GetUploadPresignedUrlHandler).
THEOREM QuotaPassedByUploadsOnly == FileSpec => []QuotaNearlyHeld
<1>1. FileInv /\ Bounded /\ [FileNext]_fileVars => (FileInv /\ Bounded)'
  <2> SUFFICES ASSUME FileInv, Bounded, [FileNext]_fileVars PROVE Bounded'
    BY FileStep
  <2>1. CASE UNCHANGED fileVars
    BY <2>1 DEF fileVars, Bounded, Used, Rows, Adding
  <2> QED
    BY <2>1, QuotaStep
<1>2. Bounded => QuotaNearlyHeld
  BY HeldFacts, FileAssumption DEF Bounded, QuotaNearlyHeld
<1> QED
  BY <1>1, <1>2, FileInitInv, QuotaInit, PTL DEF FileSpec

-----------------------------------------------------------------------------
(* Cached settings.                                                        *)

ReaderStages == {"idle", "half", "read", "lateHalf", "late"}
Reader == [at : ReaderStages, found : 0..2 * MaxChanges]
Changer == [at : {"idle", "dropping", "done"}, drops : SUBSET CacheKeys, made : 0..2 * MaxChanges]

SettingTypes ==
  /\ changes \in [CacheKeys -> 0..MaxChanges]
  /\ entry \in [CacheKeys -> 0..2 * MaxChanges \cup {NotCached}]
  /\ reader \in [CacheKeys -> Reader] /\ changer \in [Editors -> Changer]
  /\ raced \subseteq CacheKeys

\* A reader half way has the tenant's changes only.
HalfRead ==
  \A k \in CacheKeys : reader[k].at \in {"half", "lateHalf"} => reader[k].found <= MaxChanges

\* A change is in the database when its request goes on, and the request is done
\* once nothing is left to drop.
Made ==
  \A u \in Editors :
    /\ changer[u].at # "idle" => changer[u].made <= changes[Tenant] + changes[u]
    /\ changer[u].at = "done" => changer[u].drops = {}

\* u's change has dropped his own entry.
Dropped(u) == changer[u].at # "idle" /\ u \notin changer[u].drops

\* What a reader of u has found, or will have with his own settings, is not older
\* than his change, unless the reader is late.
Recent(u, r) ==
  /\ r.at = "half" => r.found + changes[u] >= changer[u].made
  /\ r.at = "read" => r.found >= changer[u].made

CachedRecent(u) == entry[u] = NotCached \/ entry[u] >= changer[u].made \/ u \in raced

Seen == \A u \in Editors : Dropped(u) => CachedRecent(u) /\ Recent(u, reader[u])

SettingInv == SettingTypes /\ HalfRead /\ Made /\ Seen

-----------------------------------------------------------------------------
LEMMA KeyFacts ==
  /\ Tenant \in CacheKeys
  /\ \A u \in Editors : u \in CacheKeys /\ u # Tenant
  BY SettingAssumption DEF CacheKeys

LEMMA ReaderFacts ==
  /\ \A at \in ReaderStages, found \in 0..2 * MaxChanges :
       LET r == [at |-> at, found |-> found]
       IN r \in Reader /\ r.at = at /\ r.found = found
  /\ \A r \in Reader : r.at \in ReaderStages /\ r.found \in 0..2 * MaxChanges
  /\ \A r \in Reader, at \in ReaderStages :
       LET s == [r EXCEPT !.at = at]
       IN s \in Reader /\ s.at = at /\ s.found = r.found
  /\ ReaderAtRest \in Reader /\ ReaderAtRest.at = "idle"
  BY SettingAssumption DEF Reader, ReaderAtRest, ReaderStages

LEMMA ChangerFacts ==
  /\ \A at \in {"idle", "dropping", "done"}, drops \in SUBSET CacheKeys, made \in 0..2 * MaxChanges :
       LET c == [at |-> at, drops |-> drops, made |-> made]
       IN c \in Changer /\ c.at = at /\ c.drops = drops /\ c.made = made
  /\ \A c \in Changer : c.drops \subseteq CacheKeys /\ c.made \in 0..2 * MaxChanges
  /\ \A c \in Changer, drops \in SUBSET CacheKeys :
       LET d == [c EXCEPT !.drops = drops]
       IN d \in Changer /\ d.at = c.at /\ d.drops = drops /\ d.made = c.made
  /\ \A c \in Changer :
       LET d == [c EXCEPT !.at = "done"]
       IN d \in Changer /\ d.at = "done" /\ d.drops = c.drops /\ d.made = c.made
  /\ ChangerAtRest \in Changer /\ ChangerAtRest.at = "idle"
  BY SettingAssumption DEF Changer, ChangerAtRest

\* What the invariant says of one editor, by type.
LEMMA EditorTypes ==
  ASSUME SettingInv, NEW u \in Editors
  PROVE  /\ u \in CacheKeys /\ u # Tenant
         /\ changer[u] \in Changer /\ changer[u].made \in 0..2 * MaxChanges
         /\ reader[u] \in Reader /\ reader[u].found \in 0..2 * MaxChanges
         /\ changes[u] \in 0..MaxChanges /\ changes[Tenant] \in 0..MaxChanges
         /\ entry[u] # NotCached => entry[u] \in 0..2 * MaxChanges
         /\ Dropped(u) => CachedRecent(u) /\ Recent(u, reader[u])
  BY KeyFacts, ReaderFacts, ChangerFacts DEF SettingInv, SettingTypes, Seen

LEMMA SettingInitInv == SettingInit => SettingInv
<1> SUFFICES ASSUME SettingInit PROVE SettingInv
  OBVIOUS
<1>1. SettingTypes
  BY SettingAssumption, ReaderFacts, ChangerFacts DEF SettingInit, SettingTypes
<1> QED
  BY <1>1, ReaderFacts, ChangerFacts, KeyFacts
     DEF SettingInit, SettingInv, HalfRead, Made, Seen, Dropped

-----------------------------------------------------------------------------
(* Readers and the cache.                                                  *)

\* Reader k is r, entry k is e: both as recent as the editor k is owed.
LEMMA ReaderStep ==
  ASSUME SettingInv, NEW k \in CacheKeys, NEW r \in Reader,
         NEW e \in 0..2 * MaxChanges \cup {NotCached},
         reader' = [reader EXCEPT ![k] = r], entry' = [entry EXCEPT ![k] = e],
         raced' \subseteq CacheKeys, \A l \in CacheKeys \ {k} : l \in raced' <=> l \in raced,
         UNCHANGED <<changes, changer>>,
         r.at \in {"half", "lateHalf"} => r.found <= MaxChanges,
         k \in Editors /\ Dropped(k) =>
           /\ Recent(k, r)
           /\ e = NotCached \/ e >= changer[k].made \/ k \in raced'
  PROVE  SettingInv'
<1>1. /\ SettingTypes' /\ reader'[k] = r /\ entry'[k] = e
      /\ \A l \in CacheKeys \ {k} : reader'[l] = reader[l] /\ entry'[l] = entry[l]
  BY DEF SettingInv, SettingTypes
<1>2. HalfRead'
  BY <1>1 DEF SettingInv, HalfRead
<1>3. Made'
  BY DEF SettingInv, Made
<1>4. Seen'
  <2> SUFFICES ASSUME NEW u \in Editors, Dropped(u)
               PROVE  CachedRecent(u)' /\ Recent(u, reader[u])'
    BY DEF Seen, Dropped
  <2>1. CASE u = k
    BY <1>1, <2>1, EditorTypes DEF CachedRecent, Recent
  <2>2. CASE u # k
    BY <1>1, <2>2, EditorTypes DEF CachedRecent, Recent
  <2> QED
    BY <2>1, <2>2
<1> QED
  BY <1>1, <1>2, <1>3, <1>4 DEF SettingInv

\* As ReaderStep, with the entry left alone.
LEMMA ReaderOnly ==
  ASSUME SettingInv, NEW k \in CacheKeys, NEW r \in Reader,
         reader' = [reader EXCEPT ![k] = r], UNCHANGED <<changes, entry, changer, raced>>,
         r.at \in {"half", "lateHalf"} => r.found <= MaxChanges,
         k \in Editors /\ Dropped(k) => Recent(k, r)
  PROVE  SettingInv'
<1>1. entry' = [entry EXCEPT ![k] = entry[k]] /\ entry[k] \in 0..2 * MaxChanges \cup {NotCached}
  BY DEF SettingInv, SettingTypes
<1>2. k \in Editors /\ Dropped(k) => entry[k] = NotCached \/ entry[k] >= changer[k].made \/ k \in raced'
  BY EditorTypes DEF CachedRecent
<1> HIDE DEF Dropped, Recent
<1> QED
  BY <1>1, <1>2, ReaderStep DEF SettingInv, SettingTypes

LEMMA ReadStep ==
  ASSUME SettingInv, NEW k \in CacheKeys,
         ReadTenantSettings(k) \/ ReadUserSettings(k) \/ ReaderFails(k)
  PROVE  SettingInv'
<1>1. CASE ReadTenantSettings(k)
  <2> DEFINE at == IF k = Tenant THEN "read" ELSE "half"
             r == [at |-> at, found |-> changes[Tenant]]
  <2>1. changes[Tenant] \in 0..MaxChanges /\ changes[Tenant] \in 0..2 * MaxChanges
    BY KeyFacts, SettingAssumption DEF SettingInv, SettingTypes
  <2>2. r \in Reader /\ r.at = at /\ r.found = changes[Tenant]
    BY <2>1, ReaderFacts DEF ReaderStages
  <2>3. k \in Editors => at = "half"
    BY KeyFacts
  <2>4. reader' = [reader EXCEPT ![k] = r] /\ UNCHANGED <<changes, entry, changer, raced>>
    BY <1>1 DEF ReadTenantSettings
  <2> HIDE DEF r, at
  <2>5. k \in Editors /\ Dropped(k) => Recent(k, r)
    BY <2>1, <2>2, <2>3, EditorTypes DEF Recent, SettingInv, Made, Dropped
  <2>6. r.found <= MaxChanges
    BY <2>1, <2>2, SettingAssumption
  <2> QED
    BY <2>2, <2>4, <2>5, <2>6, ReaderOnly
<1>2. CASE ReadUserSettings(k)
  <2> DEFINE at == IF reader[k].at = "half" THEN "read" ELSE "late"
             found == reader[k].found + changes[k]
             r == [at |-> at, found |-> found]
  <2>1. found \in 0..2 * MaxChanges
    BY <1>2, SettingAssumption, ReaderFacts DEF ReadUserSettings, SettingInv, SettingTypes, HalfRead
  <2>2. r \in Reader /\ r.at = at /\ r.found = found
    BY <2>1, ReaderFacts DEF ReaderStages
  <2>3. reader' = [reader EXCEPT ![k] = r] /\ UNCHANGED <<changes, entry, changer, raced>>
    BY <1>2 DEF ReadUserSettings, SettingInv, SettingTypes
  <2> HIDE DEF r
  <2>4. k \in Editors /\ Dropped(k) => Recent(k, r)
    BY <2>2, EditorTypes DEF Recent
  <2> QED
    BY <2>2, <2>3, <2>4, ReaderOnly
<1>3. CASE ReaderFails(k)
  BY <1>3, ReaderFacts, ReaderOnly DEF ReaderFails, Recent
<1> QED
  BY <1>1, <1>2, <1>3

LEMMA FillStep ==
  ASSUME SettingInv, NEW k \in CacheKeys, FillCache(k) PROVE SettingInv'
<1> DEFINE e == reader[k].found
<1>1. e \in 0..2 * MaxChanges \cup {NotCached}
  BY ReaderFacts DEF SettingInv, SettingTypes
<1>2. /\ reader' = [reader EXCEPT ![k] = ReaderAtRest] /\ entry' = [entry EXCEPT ![k] = e]
      /\ UNCHANGED <<changes, changer>>
  BY DEF FillCache
<1>3. raced' \subseteq CacheKeys /\ \A l \in CacheKeys \ {k} : l \in raced' <=> l \in raced
  BY DEF FillCache, SettingInv, SettingTypes
<1>4. k \in Editors /\ Dropped(k) => e = NotCached \/ e >= changer[k].made \/ k \in raced'
  BY EditorTypes DEF FillCache, Recent
<1> HIDE DEF e
<1> QED
  BY <1>1, <1>2, <1>3, <1>4, ReaderFacts, ReaderStep DEF Recent

LEMMA ExpireStep ==
  ASSUME SettingInv, NEW k \in CacheKeys, EntryExpires(k) PROVE SettingInv'
<1>1. /\ reader' = [reader EXCEPT ![k] = reader[k]] /\ reader[k] \in Reader
      /\ entry' = [entry EXCEPT ![k] = NotCached] /\ UNCHANGED <<changes, changer>>
      /\ raced' \subseteq CacheKeys /\ \A l \in CacheKeys \ {k} : l \in raced' <=> l \in raced
  BY DEF EntryExpires, SettingInv, SettingTypes
<1>2. reader[k].at \in {"half", "lateHalf"} => reader[k].found <= MaxChanges
  BY DEF SettingInv, HalfRead
<1>3. k \in Editors /\ Dropped(k) => Recent(k, reader[k])
  BY EditorTypes
<1> QED
  BY <1>1, <1>2, <1>3, ReaderStep

-----------------------------------------------------------------------------
(* Changes.                                                                *)

\* The change is in the database and its editor's entry still to be dropped.
LEMMA ChangeStep ==
  ASSUME SettingInv, NEW u \in Editors, NEW whole \in BOOLEAN, Change(u, whole)
  PROVE  SettingInv'
<1> DEFINE key == IF whole THEN Tenant ELSE u
           made == changes[Tenant] + changes[u] + 1
           c == [at |-> "dropping", drops |-> Drops(u, whole), made |-> made]
<1>1. /\ key \in CacheKeys /\ u \in CacheKeys /\ u # Tenant /\ Tenant \in CacheKeys
      /\ changes[Tenant] \in 0..MaxChanges /\ changes[u] \in 0..MaxChanges
      /\ changes[key] < MaxChanges /\ changes[key] \in 0..MaxChanges
  BY KeyFacts DEF Change, SettingInv, SettingTypes
<1>2. made \in 0..2 * MaxChanges
  BY <1>1, SettingAssumption
<1>3. Drops(u, whole) \subseteq CacheKeys /\ u \in Drops(u, whole)
  BY <1>1 DEF Drops
<1>4. c \in Changer /\ c.at = "dropping" /\ c.drops = Drops(u, whole) /\ c.made = made
  BY <1>2, <1>3, ChangerFacts
<1>5. /\ changes' = [changes EXCEPT ![key] = changes[key] + 1]
      /\ changer' = [changer EXCEPT ![u] = c]
      /\ UNCHANGED <<entry, reader, raced>>
  BY <1>1 DEF Change, Current, SettingInv, SettingTypes
<1>6. /\ changes' \in [CacheKeys -> 0..MaxChanges]
      /\ changes'[Tenant] + changes'[u] = made
      /\ \A k \in CacheKeys : changes[k] \in 0..MaxChanges /\ changes'[k] >= changes[k]
  BY <1>1, <1>5, SettingAssumption DEF SettingInv, SettingTypes
<1> HIDE DEF c
<1>7. changer' \in [Editors -> Changer] /\ changer'[u] = c
      /\ \A v \in Editors \ {u} : changer'[v] = changer[v]
  BY <1>4, <1>5 DEF SettingInv, SettingTypes
<1>8. SettingTypes' /\ HalfRead'
  BY <1>5, <1>6, <1>7 DEF SettingInv, SettingTypes, HalfRead
<1> HIDE DEF made, key
<1>9. Made'
  <2> SUFFICES ASSUME NEW v \in Editors
               PROVE  /\ changer'[v].at # "idle" => changer'[v].made <= changes'[Tenant] + changes'[v]
                      /\ changer'[v].at = "done" => changer'[v].drops = {}
    BY DEF Made
  <2>1. CASE v = u
    BY <1>2, <1>4, <1>6, <1>7, <2>1
  <2>2. CASE v # u
    <3>1. changer'[v] = changer[v] /\ changes'[v] >= changes[v] /\ changes'[Tenant] >= changes[Tenant]
      BY <1>1, <1>6, <1>7, <2>2, EditorTypes
    <3>2. changes'[v] \in 0..MaxChanges /\ changes'[Tenant] \in 0..MaxChanges
      BY <1>1, <1>6, EditorTypes
    <3> QED
      BY <3>1, <3>2, EditorTypes DEF SettingInv, Made
  <2> QED
    BY <2>1, <2>2
<1>10. Seen'
  <2> SUFFICES ASSUME NEW v \in Editors, Dropped(v)'
               PROVE  CachedRecent(v)' /\ Recent(v, reader[v])'
    BY DEF Seen
  <2>1. v # u /\ changer'[v] = changer[v]
    BY <1>3, <1>4, <1>7 DEF Dropped
  <2>2. Dropped(v) /\ changes'[v] \in 0..MaxChanges /\ changes'[v] >= changes[v]
    BY <1>6, <2>1, EditorTypes DEF Dropped
  <2> QED
    BY <1>5, <2>1, <2>2, EditorTypes DEF CachedRecent, Recent
<1> QED
  BY <1>8, <1>9, <1>10 DEF SettingInv

\* A reader that missed before the drop is late: it will not count as recent.
LEMMA DropStep ==
  ASSUME SettingInv, NEW u \in Editors, NEW k \in CacheKeys, Drop(u, k)
  PROVE  SettingInv'
<1> DEFINE r == [reader[k] EXCEPT !.at = Late(reader[k].at)]
           drops == changer[u].drops \ {k}
           c == [changer[u] EXCEPT !.drops = drops]
<1>1. reader[k] \in Reader /\ reader[k].at \in ReaderStages
  BY ReaderFacts DEF SettingInv, SettingTypes
<1>2. Late(reader[k].at) \in {"idle", "lateHalf", "late"}
      /\ (Late(reader[k].at) = "lateHalf" => reader[k].at \in {"half", "lateHalf"})
  BY <1>1 DEF Late, ReaderStages
<1>3. r \in Reader /\ r.at = Late(reader[k].at) /\ r.found = reader[k].found
  BY <1>1, <1>2 DEF Reader, ReaderStages
<1>4. c \in Changer /\ c.at = "dropping" /\ c.drops = drops /\ c.made = changer[u].made
      /\ changer[u].at = "dropping"
  <2>1. changer[u] \in Changer /\ changer[u].at = "dropping"
    BY EditorTypes DEF Drop
  <2> QED
    BY <2>1 DEF Changer
<1>5. /\ reader' = [reader EXCEPT ![k] = r] /\ entry' = [entry EXCEPT ![k] = NotCached]
      /\ changer' = [changer EXCEPT ![u] = c]
      /\ changes' = changes /\ raced' = raced \ {k}
  BY DEF Drop, SettingInv, SettingTypes
<1> HIDE DEF r, c
<1>6. /\ reader' \in [CacheKeys -> Reader] /\ reader'[k] = r
      /\ \A l \in CacheKeys \ {k} : reader'[l] = reader[l]
  BY <1>3, <1>5 DEF SettingInv, SettingTypes
<1>7. /\ changer' \in [Editors -> Changer] /\ changer'[u] = c
      /\ \A v \in Editors \ {u} : changer'[v] = changer[v]
  BY <1>4, <1>5 DEF SettingInv, SettingTypes
<1>8. /\ entry' \in [CacheKeys -> 0..2 * MaxChanges \cup {NotCached}] /\ entry'[k] = NotCached
      /\ \A l \in CacheKeys \ {k} : entry'[l] = entry[l]
  BY <1>5 DEF SettingInv, SettingTypes
<1>9. SettingTypes'
  BY <1>5, <1>6, <1>7, <1>8 DEF SettingInv, SettingTypes
<1>10. HalfRead'
  BY <1>2, <1>3, <1>6 DEF SettingInv, HalfRead
<1>11. Made'
  BY <1>4, <1>5, <1>7 DEF SettingInv, Made
<1>12. Seen'
  <2> SUFFICES ASSUME NEW v \in Editors, Dropped(v)'
               PROVE  CachedRecent(v)' /\ Recent(v, reader[v])'
    BY DEF Seen
  <2>1. CASE v = k
    BY <1>2, <1>3, <1>6, <1>8, <2>1 DEF CachedRecent, Recent
  <2>2. CASE v # k
    <3>1. Dropped(v) /\ changer'[v].made = changer[v].made
      BY <1>4, <1>7, <2>2 DEF Dropped
    <3> QED
      BY <1>5, <1>6, <1>8, <2>2, <3>1, EditorTypes DEF CachedRecent, Recent
  <2> QED
    BY <2>1, <2>2
<1> QED
  BY <1>9, <1>10, <1>11, <1>12 DEF SettingInv

\* The request moves on or ends.
LEMMA ChangerStep ==
  ASSUME SettingInv, NEW u \in Editors, ChangeDone(u) \/ ChangeSeen(u) \/ ChangeFails(u)
  PROVE  SettingInv'
<1>1. ASSUME NEW c \in Changer, changer' = [changer EXCEPT ![u] = c],
             UNCHANGED <<changes, entry, reader, raced>>,
             \/ c.at = "idle"
             \/ /\ changer[u].at # "idle" /\ c.drops = {}
                /\ c.drops = changer[u].drops /\ c.made = changer[u].made
      PROVE  SettingInv'
  <2>1. /\ SettingTypes' /\ changer'[u] = c
        /\ \A v \in Editors \ {u} : changer'[v] = changer[v]
    BY <1>1 DEF SettingInv, SettingTypes
  <2>2. HalfRead' /\ Made'
    BY <1>1, <2>1 DEF SettingInv, HalfRead, Made
  <2>3. Seen'
    BY <1>1, <2>1 DEF SettingInv, Seen, Dropped, CachedRecent, Recent
  <2> QED
    BY <2>1, <2>2, <2>3 DEF SettingInv
<1>2. CASE ChangeDone(u)
  <2> DEFINE c == [changer[u] EXCEPT !.at = "done"]
  <2>1. c \in Changer /\ c.at = "done" /\ c.drops = changer[u].drops /\ c.made = changer[u].made
    BY ChangerFacts, EditorTypes
  <2>2. changer' = [changer EXCEPT ![u] = c]
    BY <1>2 DEF ChangeDone
  <2> HIDE DEF c
  <2> QED
    BY <1>1, <1>2, <2>1, <2>2 DEF ChangeDone
<1>3. CASE ChangeSeen(u) \/ ChangeFails(u)
  BY <1>1, <1>3, ChangerFacts DEF ChangeSeen, ChangeFails
<1> QED
  BY <1>2, <1>3

LEMMA SettingStep == SettingInv /\ [SettingNext]_settingVars => SettingInv'
<1> SUFFICES ASSUME SettingInv, [SettingNext]_settingVars PROVE SettingInv'
  OBVIOUS
<1>1. CASE UNCHANGED settingVars
  BY <1>1 DEF settingVars, SettingInv, SettingTypes, HalfRead, Made, Seen, Dropped,
     CachedRecent, Recent
<1> QED
  BY <1>1, ReadStep, FillStep, ExpireStep, ChangeStep, DropStep, ChangerStep DEF SettingNext

\* The settings, the cache and the requests keep their types (CachedSettingsService).
THEOREM SettingTypesHold == SettingSpec => []SettingTypeOK
<1>1. SettingInv => SettingTypeOK
  BY DEF SettingInv, SettingTypes, SettingTypeOK, Reader, ReaderStages, Changer
<1> QED
  BY <1>1, SettingInitInv, SettingStep, PTL DEF SettingSpec

\* A user does not read back settings older than the change he has made, unless a
\* reader of his own had missed before it (CachedSettingsService drops the entries
\* after the change is saved).
THEOREM EditorsSeeTheirChanges == SettingSpec => []OwnChangeSeen
<1>1. SettingInv => OwnChangeSeen
  BY DEF SettingInv, Made, Seen, Dropped, CachedRecent, OwnChangeSeen
<1> QED
  BY <1>1, SettingInitInv, SettingStep, PTL DEF SettingSpec
=============================================================================
