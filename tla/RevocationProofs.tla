--------------------------- MODULE RevocationProofs ----------------------------
(*****************************************************************************)
(* Proofs about OrgLifecycle and ApiKeys, for any number of requests, tokens *)
(* and keys: the types; that a barred client holds only tokens issued past   *)
(* the bar, and that an owner's deletion yields to a platform suspension it  *)
(* has seen; that a confirmed revocation leaves no entry but one set late,   *)
(* and that a user's usable keys are within the limit.                       *)
(*****************************************************************************)
EXTENDS OrgLifecycle, ApiKeys, FiniteSetTheorems, TLAPS

\* A request to put up or lift a bar names one of its target's; one in a
\* transaction has found its target there.
Aimed ==
  \A a \in Admins :
    /\ admin[a].kind \in {"bar", "lift"} => admin[a].by \in BarsOf(admin[a].target)
    /\ InTransaction(a) => admin[a].kind \in {"bar", "lift"} /\ bars[admin[a].target] # Gone

\* The policy's findings hold until a bar overtakes the token request.
Passed ==
  \A x \in Exchanges :
    /\ trade[x] = "checked" => bars["org"] = {} /\ bars["client"] = {}
    /\ trade[x] = "clientRead" => bars["client"] = {}

\* An owner about to delete the organisation as it is has found it not held.
Unseen ==
  \A a \in Admins :
    admin[a].kind = "delete" /\ admin[a].target = "org" /\ admin[a].by # "platform"
    => admin[a].stale = TRUE \/ "held" \notin bars["org"]

OrgTypes == OrgTypeOK /\ bars \in [Targets -> SUBSET {"archived", "suspended", "held", "deleted"}]

OrgInv == OrgTypes /\ Aimed /\ Passed /\ Unseen /\ ServedOnly

-----------------------------------------------------------------------------
(* The requests.                                                           *)

Kinds == {"rest", "bar", "lift", "delete"}
Bars == {"archived", "suspended", "held", "owner", "platform"}
Points == {"read", "saved", "scanned", "replay"}

LEMMA RestFacts ==
  AdminAtRest \in Admin /\ AdminAtRest.kind = "rest" /\ AdminAtRest.at = "read"
  BY DEF AdminAtRest, Admin, Targets

\* A request that has just been made.
Requested(kind, t, by) == [AdminAtRest EXCEPT !.kind = kind, !.target = t, !.by = by]

LEMMA AskedFacts ==
  ASSUME NEW kind \in Kinds, NEW t \in Targets, NEW by \in Bars
  PROVE  /\ Requested(kind, t, by) \in Admin /\ Requested(kind, t, by).kind = kind
         /\ Requested(kind, t, by).target = t /\ Requested(kind, t, by).by = by
         /\ Requested(kind, t, by).at = "read"
  BY DEF Requested, AdminAtRest, Admin, Targets, Kinds, Bars

\* q is p at another point of its transaction.
Onward(q, p, at) ==
  /\ q \in Admin /\ q.at = at
  /\ q.kind = p.kind /\ q.target = p.target /\ q.by = p.by /\ q.stale = p.stale

LEMMA OnwardFacts ==
  ASSUME NEW p \in Admin, NEW at \in Points, NEW found \in SUBSET Tokens
  PROVE  /\ Onward([p EXCEPT !.at = at], p, at)
         /\ Onward([p EXCEPT !.at = at, !.found = found], p, at)
  BY DEF Admin, Onward, Points

\* Only the request a has changed, and it is at another point.
Advanced(a, at) ==
  /\ admin' \in [Admins -> Admin] /\ Onward(admin'[a], admin[a], at)
  /\ \A c \in Admins \ {a} : admin'[c] = admin[c]

LEMMA SetFacts ==
  ASSUME admin \in [Admins -> Admin], NEW a \in Admins, NEW q \in Admin
  PROVE  /\ [admin EXCEPT ![a] = q] \in [Admins -> Admin]
         /\ [admin EXCEPT ![a] = q][a] = q
         /\ \A c \in Admins \ {a} : [admin EXCEPT ![a] = q][c] = admin[c]
  OBVIOUS

\* as is admin with a at rest.
Rested(as, a) ==
  /\ as \in [Admins -> Admin] /\ as[a] = AdminAtRest
  /\ \A c \in Admins \ {a} : as[c] = admin[c]

LEMMA EndedFacts ==
  ASSUME admin \in [Admins -> Admin], NEW a \in Admins
  PROVE  Rested(Ended(a), a)
  BY SetFacts, RestFacts DEF Ended, Rested

\* q is p after a commit that wrote t.
OutOfDate(q, p, t) ==
  /\ q \in Admin
  /\ q.kind = p.kind /\ q.target = p.target /\ q.by = p.by /\ q.at = p.at
  /\ t # "org" => q = p
  /\ t = "org" /\ p.target = "org" /\ p.kind # "rest" => q.stale = TRUE

LEMMA OutdateFacts ==
  ASSUME NEW as \in [Admins -> Admin], NEW t
  PROVE  /\ Outdate(as, t) \in [Admins -> Admin]
         /\ \A c \in Admins : OutOfDate(Outdate(as, t)[c], as[c], t)
<1>1. ASSUME NEW p \in Admin, NEW q, q = [p EXCEPT !.stale = TRUE]
      PROVE  /\ q \in Admin /\ q.stale = TRUE
             /\ q.kind = p.kind /\ q.target = p.target /\ q.by = p.by /\ q.at = p.at
  BY <1>1 DEF Admin
<1>2. ASSUME NEW c \in Admins, t = "org", as[c].target = "org"
      PROVE  Outdate(as, t)[c] = [as[c] EXCEPT !.stale = as[c].kind # "rest"]
  BY <1>2 DEF Outdate
<1>3. ASSUME NEW c \in Admins, ~(t = "org" /\ as[c].target = "org")
      PROVE  Outdate(as, t)[c] = as[c]
  BY <1>3 DEF Outdate
<1>4. ASSUME NEW c \in Admins PROVE OutOfDate(Outdate(as, t)[c], as[c], t)
  <2>1. CASE t = "org" /\ as[c].target = "org" /\ as[c].kind # "rest"
    <3>1. Outdate(as, t)[c] = [as[c] EXCEPT !.stale = TRUE]
      BY <1>2, <2>1
    <3> QED
      BY <1>1, <2>1, <3>1 DEF OutOfDate
  <2>2. CASE t = "org" /\ as[c].target = "org" /\ as[c].kind = "rest"
    <3>1. Outdate(as, t)[c] = [as[c] EXCEPT !.stale = FALSE]
      BY <1>2, <2>2
    <3>2. ASSUME NEW p \in Admin, NEW q, q = [p EXCEPT !.stale = FALSE]
          PROVE  /\ q \in Admin
                 /\ q.kind = p.kind /\ q.target = p.target /\ q.by = p.by /\ q.at = p.at
      BY <3>2 DEF Admin
    <3> QED
      BY <2>2, <3>1, <3>2 DEF OutOfDate
  <2>3. CASE ~(t = "org" /\ as[c].target = "org")
    BY <1>3, <2>3 DEF OutOfDate
  <2> QED
    BY <2>1, <2>2, <2>3
<1>5. Outdate(as, t) = [c \in Admins |-> Outdate(as, t)[c]]
  BY DEF Outdate
<1>6. \A c \in Admins : Outdate(as, t)[c] \in Admin
  BY <1>4 DEF OutOfDate
<1> QED
  BY <1>4, <1>5, <1>6

LEMMA TradesOvertaken ==
  ASSUME trade \in [Exchanges -> {"idle", "clientRead", "checked", "overtaken"}], NEW t
  PROVE  /\ OvertakeTrades(t) \in [Exchanges -> {"idle", "clientRead", "checked", "overtaken"}]
         /\ \A x \in Exchanges :
              /\ OvertakeTrades(t)[x] # "checked"
              /\ OvertakeTrades(t)[x] = "clientRead" => trade[x] = "clientRead" /\ t # "client"
  BY DEF OvertakeTrades

-----------------------------------------------------------------------------
(* The steps of a request that commits nothing.                            *)

\* What Aimed and Unseen ask of one request, bs being the bars.
Sound(q, bs) ==
  /\ q.kind \in {"bar", "lift"} => q.by \in BarsOf(q.target)
  /\ q.at \in {"saved", "scanned"} => q.kind \in {"bar", "lift"} /\ bs[q.target] # Gone
  /\ q.kind = "delete" /\ q.target = "org" /\ q.by # "platform"
     => q.stale = TRUE \/ "held" \notin bs["org"]

LEMMA SoundFacts ==
  ASSUME OrgInv
  PROVE  \A a \in Admins : admin[a] \in Admin /\ Sound(admin[a], bars)
  BY DEF OrgInv, OrgTypes, OrgTypeOK, Aimed, Unseen, InTransaction, Sound

LEMMA SoundAll ==
  ASSUME \A a \in Admins : Sound(admin'[a], bars')
  PROVE  Aimed' /\ Unseen'
  BY DEF Aimed, Unseen, InTransaction, Sound

LEMMA AskStep ==
  ASSUME OrgInv, NEW a \in Admins, admin' \in [Admins -> Admin], Sound(admin'[a], bars),
         \A c \in Admins \ {a} : admin'[c] = admin[c],
         UNCHANGED <<bars, trade, tokens, strays>>
  PROVE  OrgInv'
<1>1. \A c \in Admins : Sound(admin'[c], bars')
  BY SoundFacts
<1>2. Aimed' /\ Unseen'
  BY <1>1, SoundAll
<1>3. OrgTypes' /\ Passed' /\ ServedOnly'
  BY DEF OrgInv, OrgTypes, OrgTypeOK, Passed, ServedOnly, Serviceable
<1> QED
  BY <1>2, <1>3 DEF OrgInv

LEMMA RestSound == Sound(AdminAtRest, bars)
  BY DEF Sound, AdminAtRest

LEMMA QuietStep ==
  ASSUME OrgInv, NEW a \in Admins,
         \/ \E t \in Targets, b \in Bars : AskBar(a, t, b)
         \/ \E t \in Targets, who \in {"owner", "platform"} : AskDelete(a, t, who)
         \/ SaveFails(a) \/ SaveInTransaction(a) \/ ScanTokens(a) \/ TransientFault(a)
         \/ GiveUpAdmin(a)
  PROVE  OrgInv'
<1>1. admin \in [Admins -> Admin] /\ admin[a] \in Admin /\ Sound(admin[a], bars)
      /\ tokens \in SUBSET Tokens
  BY SoundFacts DEF OrgInv, OrgTypes, OrgTypeOK
<1>2. ASSUME NEW q \in Admin, admin' = [admin EXCEPT ![a] = q], Sound(q, bars),
             UNCHANGED <<bars, trade, tokens, strays>>
      PROVE  OrgInv'
  BY <1>1, <1>2, SetFacts, AskStep
<1>3. ASSUME NEW q, NEW at \in Points, Onward(q, admin[a], at),
             at \in {"saved", "scanned"} =>
               admin[a].kind \in {"bar", "lift"} /\ bars[admin[a].target] # Gone
      PROVE  q \in Admin /\ Sound(q, bars)
  BY <1>1, <1>3 DEF Onward, Sound
<1>4. ASSUME NEW t \in Targets, NEW b \in Bars, AskBar(a, t, b) PROVE OrgInv'
  <2>1. PICK kind \in {"lift", "bar"} :
          admin' = [admin EXCEPT ![a] = Requested(kind, t, b)]
    BY <1>4 DEF AskBar, Requested
  <2> DEFINE q == Requested(kind, t, b)
  <2>2. q \in Admin /\ q.kind = kind /\ q.target = t /\ q.by = b /\ q.at = "read"
    BY AskedFacts DEF Kinds
  <2>3. admin' = [admin EXCEPT ![a] = q] /\ UNCHANGED <<bars, trade, tokens, strays>>
    BY <1>4, <2>1 DEF AskBar
  <2> HIDE DEF q
  <2>4. Sound(q, bars)
    BY <1>4, <2>2 DEF Sound, AskBar
  <2> QED
    BY <1>2, <2>2, <2>3, <2>4
<1>5. ASSUME NEW t \in Targets, NEW who \in {"owner", "platform"}, AskDelete(a, t, who)
      PROVE  OrgInv'
  <2> DEFINE q == Requested("delete", t, who)
  <2>1. q \in Admin /\ q.kind = "delete" /\ q.target = t /\ q.by = who /\ q.at = "read"
    BY AskedFacts DEF Kinds, Bars
  <2>2. admin' = [admin EXCEPT ![a] = q] /\ UNCHANGED <<bars, trade, tokens, strays>>
    BY <1>5 DEF AskDelete, Requested
  <2> HIDE DEF q
  <2>3. Sound(q, bars)
    BY <1>5, <2>1 DEF Sound, AskDelete, MayDelete
  <2> QED
    BY <1>2, <2>1, <2>2, <2>3
<1>6. CASE SaveFails(a) \/ GiveUpAdmin(a)
  BY <1>2, <1>6, RestFacts, RestSound DEF SaveFails, GiveUpAdmin, Ended
<1>7. CASE SaveInTransaction(a)
  <2> DEFINE q == [admin[a] EXCEPT !.at = "saved"]
  <2>1. admin' = [admin EXCEPT ![a] = q] /\ UNCHANGED <<bars, trade, tokens, strays>>
    BY <1>1, <1>7 DEF SaveInTransaction
  <2>2. Onward(q, admin[a], "saved")
    BY <1>1, OnwardFacts DEF Points
  <2> HIDE DEF q
  <2>3. q \in Admin /\ Sound(q, bars)
    BY <1>3, <1>7, <2>2 DEF SaveInTransaction, Points
  <2> QED
    BY <1>2, <2>1, <2>3
<1>8. CASE ScanTokens(a)
  <2> DEFINE q == [admin[a] EXCEPT !.at = "scanned", !.found = tokens]
  <2>1. admin' = [admin EXCEPT ![a] = q] /\ UNCHANGED <<bars, trade, tokens, strays>>
    BY <1>1, <1>8 DEF ScanTokens
  <2>2. Onward(q, admin[a], "scanned")
    BY <1>1, OnwardFacts DEF Points
  <2> HIDE DEF q
  <2>3. q \in Admin /\ Sound(q, bars)
    BY <1>1, <1>3, <1>8, <2>2 DEF ScanTokens, Points, Sound
  <2> QED
    BY <1>2, <2>1, <2>3
<1>9. CASE TransientFault(a)
  <2> DEFINE q == [admin[a] EXCEPT !.at = "replay", !.found = {}]
  <2>1. admin' = [admin EXCEPT ![a] = q] /\ UNCHANGED <<bars, trade, tokens, strays>>
    BY <1>1, <1>9 DEF TransientFault
  <2>2. Onward(q, admin[a], "replay")
    BY <1>1, OnwardFacts DEF Points
  <2> HIDE DEF q
  <2>3. q \in Admin /\ Sound(q, bars)
    BY <1>3, <2>2 DEF Points
  <2> QED
    BY <1>2, <2>1, <2>3
<1> QED
  BY <1>4, <1>5, <1>6, <1>7, <1>8, <1>9

-----------------------------------------------------------------------------
(* Commits.                                                                *)

\* The requests after a commit of a that wrote t.
LEMMA CommitAdmins ==
  ASSUME OrgInv, NEW a \in Admins, NEW t \in Targets, admin' = Outdate(Ended(a), t),
         \A c \in Admins \ {a} : InTransaction(c) => bars'[admin[c].target] # Gone,
         t # "org" /\ "held" \in bars'["org"] => "held" \in bars["org"]
  PROVE  admin' \in [Admins -> Admin] /\ Aimed' /\ Unseen'
<1>1. Rested(Ended(a), a)
  BY EndedFacts DEF OrgInv, OrgTypes, OrgTypeOK
<1>2. admin' \in [Admins -> Admin]
      /\ \A c \in Admins : OutOfDate(admin'[c], Ended(a)[c], t)
  BY <1>1, OutdateFacts DEF Rested
<1>3. Sound(admin'[a], bars')
  BY <1>1, <1>2, RestFacts DEF Rested, OutOfDate, Sound
<1>4. ASSUME NEW c \in Admins \ {a} PROVE Sound(admin'[c], bars')
  <2>1. OutOfDate(admin'[c], admin[c], t)
    BY <1>1, <1>2 DEF Rested
  <2>2. Sound(admin[c], bars) /\ admin[c] \in Admin
    BY SoundFacts
  <2> QED
    BY <2>1, <2>2 DEF OutOfDate, Sound, InTransaction
<1>5. \A c \in Admins : Sound(admin'[c], bars')
  BY <1>3, <1>4
<1> QED
  BY <1>2, <1>5, SoundAll

LEMMA BarTypes ==
  ASSUME OrgInv
  PROVE  /\ \A t \in Targets : /\ bars[t] \in SUBSET BarsOf(t) \/ bars[t] = Gone
                             /\ BarsOf(t) \subseteq {"archived", "suspended", "held"}
         /\ Targets = {"org", "client"}
         /\ bars \in [Targets -> SUBSET {"archived", "suspended", "held", "deleted"}]
         /\ tokens \in SUBSET Tokens /\ strays \in SUBSET tokens
         /\ trade \in [Exchanges -> {"idle", "clientRead", "checked", "overtaken"}]
         /\ admin \in [Admins -> Admin]
  BY DEF OrgInv, OrgTypes, OrgTypeOK, BarsOf, Targets

LEMMA CommitBarStep ==
  ASSUME OrgInv, NEW a \in Admins, CommitBar(a) PROVE OrgInv'
<1> DEFINE t == admin[a].target
           b == admin[a].by
<1>1. t \in Targets /\ b \in BarsOf(t) /\ bars[t] # Gone
  BY SoundFacts DEF CommitBar, Sound, Admin
<1>2. /\ bars' = [bars EXCEPT ![t] = @ \cup {b}]
      /\ tokens' = tokens \ admin[a].found /\ strays' = tokens'
      /\ admin' = Outdate(Ended(a), t) /\ trade' = OvertakeTrades(t)
  BY DEF CommitBar
<1> HIDE DEF t, b
<1>3. /\ bars'[t] = bars[t] \cup {b} /\ bars'[t] # {} /\ bars'[t] # Gone
      /\ bars'[t] \in SUBSET BarsOf(t)
      /\ bars' \in [Targets -> SUBSET {"archived", "suspended", "held", "deleted"}]
      /\ \A u \in Targets \ {t} : bars'[u] = bars[u]
  BY <1>1, <1>2, BarTypes DEF Gone
<1>4. admin' \in [Admins -> Admin] /\ Aimed' /\ Unseen'
  <2>1. \A c \in Admins \ {a} : InTransaction(c) => bars'[admin[c].target] # Gone
    BY <1>1, <1>3, SoundFacts DEF InTransaction, Sound, Admin
  <2>2. t # "org" /\ "held" \in bars'["org"] => "held" \in bars["org"]
    BY <1>3, BarTypes
  <2> QED
    BY <1>1, <1>2, <2>1, <2>2, CommitAdmins
<1>5. trade' \in [Exchanges -> {"idle", "clientRead", "checked", "overtaken"}] /\ Passed'
  BY <1>1, <1>2, <1>3, BarTypes, TradesOvertaken DEF Passed, OrgInv
<1>6. OrgTypes'
  BY <1>2, <1>3, <1>4, <1>5, BarTypes DEF OrgTypes, OrgTypeOK
<1>7. ServedOnly'
  BY <1>2 DEF ServedOnly
<1> QED
  BY <1>4, <1>5, <1>6, <1>7 DEF OrgInv

LEMMA LiftStep ==
  ASSUME OrgInv, NEW a \in Admins, SaveLift(a) \/ CommitLift(a) PROVE OrgInv'
<1> DEFINE t == admin[a].target
           b == admin[a].by
<1>1. t \in Targets /\ bars[t] # Gone
  BY SoundFacts DEF SaveLift, CommitLift, Sound, Admin
<1>2. /\ bars' = [bars EXCEPT ![t] = @ \ {b}]
      /\ admin' = Outdate(Ended(a), t) /\ UNCHANGED <<trade, tokens, strays>>
  BY DEF SaveLift, CommitLift, Lifted
<1> HIDE DEF t, b
<1>3. /\ bars'[t] \subseteq bars[t] /\ bars'[t] # Gone
      /\ bars'[t] \in SUBSET BarsOf(t)
      /\ bars' \in [Targets -> SUBSET {"archived", "suspended", "held", "deleted"}]
      /\ \A u \in Targets \ {t} : bars'[u] = bars[u]
  BY <1>1, <1>2, BarTypes DEF Gone
<1>4. admin' \in [Admins -> Admin] /\ Aimed' /\ Unseen'
  <2>1. \A c \in Admins \ {a} : InTransaction(c) => bars'[admin[c].target] # Gone
    BY <1>1, <1>3, SoundFacts DEF InTransaction, Sound, Admin
  <2>2. t # "org" /\ "held" \in bars'["org"] => "held" \in bars["org"]
    BY <1>3, BarTypes
  <2> QED
    BY <1>1, <1>2, <2>1, <2>2, CommitAdmins
<1>5. \A u \in Targets : bars'[u] \subseteq bars[u]
  BY <1>3
<1>6. Passed' /\ ServedOnly'
  BY <1>2, <1>5, BarTypes DEF Passed, ServedOnly, Serviceable, OrgInv
<1>7. OrgTypes'
  BY <1>2, <1>3, <1>4, BarTypes DEF OrgTypes, OrgTypeOK
<1> QED
  BY <1>4, <1>6, <1>7 DEF OrgInv

LEMMA DeleteStep ==
  ASSUME OrgInv, NEW a \in Admins, Delete(a) PROVE OrgInv'
<1> DEFINE t == admin[a].target
<1>1. t \in Targets
  BY SoundFacts DEF Admin
<1>2. /\ bars' = [bars EXCEPT !["client"] = Gone,
                              !["org"] = IF t = "org" THEN Gone ELSE @]
      /\ tokens' = {} /\ strays' = {}
      /\ admin' = Outdate(Ended(a), t) /\ trade' = OvertakeTrades("client")
      /\ \A c \in Admins : ~InTransaction(c)
  BY DEF Delete
<1> HIDE DEF t
<1>3. /\ bars' \in [Targets -> SUBSET {"archived", "suspended", "held", "deleted"}]
      /\ \A u \in Targets : bars'[u] = bars[u] \/ bars'[u] = Gone
      /\ t # "org" => bars'["org"] = bars["org"]
  BY <1>1, <1>2, BarTypes DEF Gone
<1>4. admin' \in [Admins -> Admin] /\ Aimed' /\ Unseen'
  BY <1>1, <1>2, <1>3, CommitAdmins
<1>5. trade' \in [Exchanges -> {"idle", "clientRead", "checked", "overtaken"}] /\ Passed'
  BY <1>2, BarTypes, TradesOvertaken DEF Passed
<1>6. OrgTypes'
  BY <1>2, <1>3, <1>4, <1>5, BarTypes DEF OrgTypes, OrgTypeOK
<1>7. ServedOnly'
  BY <1>2 DEF ServedOnly
<1> QED
  BY <1>4, <1>5, <1>6, <1>7 DEF OrgInv

LEMMA ReplayStep ==
  ASSUME OrgInv, NEW a \in Admins, CommitReplay(a) PROVE OrgInv'
<1>1. Rested(admin', a)
  BY EndedFacts, BarTypes DEF CommitReplay
<1>2. \A c \in Admins : Sound(admin'[c], bars')
  BY <1>1, SoundFacts, RestSound DEF Rested, CommitReplay
<1>3. Aimed' /\ Unseen'
  BY <1>2, SoundAll
<1>4. PICK gone \in SUBSET tokens : tokens' = tokens \ gone /\ strays' = strays \ gone
  BY DEF CommitReplay
<1>5. OrgTypes' /\ Passed' /\ ServedOnly'
  BY <1>1, <1>4 DEF CommitReplay, Rested, OrgInv, OrgTypes, OrgTypeOK, Passed, ServedOnly,
     Serviceable
<1> QED
  BY <1>3, <1>5 DEF OrgInv

-----------------------------------------------------------------------------
(* Token requests.                                                         *)

LEMMA TradeStep ==
  ASSUME OrgInv,
         \/ \E x \in Exchanges :
              \/ ReadClient(x) \/ ReadOrg(x) \/ TradeFails(x)
              \/ \E k \in Tokens : Issue(x, k)
         \/ \E k \in Tokens : TokenLapses(k)
  PROVE  OrgInv'
<1>1. UNCHANGED <<bars, admin>>
  BY DEF ReadClient, ReadOrg, TradeFails, Issue, TokenLapses
<1>2. Aimed' /\ Unseen'
  BY <1>1 DEF OrgInv, Aimed, Unseen, InTransaction
<1>3. ASSUME NEW x \in Exchanges, ReadClient(x) \/ ReadOrg(x) \/ TradeFails(x)
      PROVE  OrgTypes' /\ Passed' /\ ServedOnly'
  BY <1>1, <1>3 DEF ReadClient, ReadOrg, TradeFails, OrgInv, OrgTypes, OrgTypeOK, Passed,
     ServedOnly, Serviceable
<1>4. ASSUME NEW x \in Exchanges, NEW k \in Tokens, Issue(x, k)
      PROVE  OrgTypes' /\ Passed' /\ ServedOnly'
  <2>1. OrgTypes' /\ Passed'
    BY <1>1, <1>4 DEF Issue, OrgInv, OrgTypes, OrgTypeOK, Passed
  <2>2. ServedOnly'
    BY <1>1, <1>4 DEF Issue, OrgInv, Passed, ServedOnly, Serviceable
  <2> QED
    BY <2>1, <2>2
<1>5. ASSUME NEW k \in Tokens, TokenLapses(k)
      PROVE  OrgTypes' /\ Passed' /\ ServedOnly'
  BY <1>1, <1>5 DEF TokenLapses, OrgInv, OrgTypes, OrgTypeOK, Passed, ServedOnly, Serviceable
<1> QED
  BY <1>2, <1>3, <1>4, <1>5 DEF OrgInv

-----------------------------------------------------------------------------
(* Every step.                                                             *)

LEMMA OrgInitInv == OrgInit => OrgInv
<1> SUFFICES ASSUME OrgInit PROVE OrgInv
  OBVIOUS
<1>1. OrgTypes
  BY RestFacts DEF OrgInit, OrgTypes, OrgTypeOK, BarsOf, Targets
<1>2. Aimed /\ Passed /\ Unseen /\ ServedOnly
  BY RestFacts DEF OrgInit, Aimed, Passed, Unseen, ServedOnly, InTransaction
<1> QED
  BY <1>1, <1>2 DEF OrgInv

LEMMA BarsAre == \A t \in Targets : \A b \in BarsOf(t) : b \in Bars
  BY DEF Bars, BarsOf

LEMMA OrgStep == OrgInv /\ [OrgNext]_orgVars => OrgInv'
<1> SUFFICES ASSUME OrgInv, [OrgNext]_orgVars PROVE OrgInv'
  OBVIOUS
<1>1. CASE UNCHANGED orgVars
  BY <1>1 DEF orgVars, OrgInv, OrgTypes, OrgTypeOK, Aimed, Passed, Unseen, ServedOnly,
     Serviceable, InTransaction
<1> QED
  BY <1>1, QuietStep, CommitBarStep, LiftStep, DeleteStep, ReplayStep, TradeStep, BarsAre
     DEF OrgNext

\* The organisation, its client, their requests and tokens keep their types
\* (OrganizationService, OrganizationClientService, ClientAccessPolicy).
THEOREM OrgTypesHold == OrgSpec => []OrgTypeOK
<1>1. OrgInv => OrgTypeOK
  BY DEF OrgInv, OrgTypes
<1> QED
  BY <1>1, OrgInitInv, OrgStep, PTL DEF OrgSpec

\* A barred or deleted client, or one of a barred organisation, holds no valid
\* token but those a bar overtook (ClientAccessPolicy, AccessRevoker).
THEOREM BarredUnserved == OrgSpec => []ServedOnly
<1>1. OrgInv => ServedOnly
  BY DEF OrgInv
<1> QED
  BY <1>1, OrgInitInv, OrgStep, PTL DEF OrgSpec

LEMMA HoldStep ==
  ASSUME OrgInv, [OrgNext]_orgVars,
         bars["org"] # Gone, "held" \in bars["org"], bars'["org"] = Gone
  PROVE  \E a \in Admins : admin[a].kind = "delete" /\ admin[a].target = "org"
                          /\ (admin[a].by = "platform" \/ admin[a].stale)
<1>1. \E a \in Admins : CommitBar(a) \/ SaveLift(a) \/ CommitLift(a) \/ Delete(a)
  BY DEF OrgNext, orgVars, AskBar, AskDelete, SaveFails, SaveInTransaction, ScanTokens, TransientFault,
     CommitReplay, GiveUpAdmin, ReadClient, ReadOrg, Issue, TradeFails, TokenLapses
<1>2. PICK a \in Admins : CommitBar(a) \/ SaveLift(a) \/ CommitLift(a) \/ Delete(a)
  BY <1>1
<1>3. bars["org"] \subseteq {"archived", "held"} /\ "org" \in Targets
  BY BarTypes DEF BarsOf
<1>4. CASE CommitBar(a)
  BY <1>3, <1>4, BarTypes DEF CommitBar, Gone
<1>5. CASE SaveLift(a) \/ CommitLift(a)
  BY <1>3, <1>5, BarTypes DEF SaveLift, CommitLift, Lifted, Gone
<1>6. CASE Delete(a)
  <2>1. admin[a].kind = "delete" /\ admin[a].target = "org"
    BY <1>3, <1>6, BarTypes DEF Delete
  <2>2. admin[a].by = "platform" \/ admin[a].stale = TRUE
    BY <2>1 DEF OrgInv, Unseen
  <2> QED
    BY <2>1, <2>2
<1> QED
  BY <1>2, <1>4, <1>5, <1>6

\* An owner's deletion of an organisation under platform suspension had read the
\* row before the suspension was committed (OrganizationService.DeleteAsync).
THEOREM HoldWins == OrgSpec => HoldOutlivesOwner
<1>1. OrgInv /\ [OrgNext]_orgVars
      => [bars["org"] # Gone /\ "held" \in bars["org"] /\ bars'["org"] = Gone
          => \E a \in Admins : admin[a].kind = "delete" /\ admin[a].target = "org"
                               /\ (admin[a].by = "platform" \/ admin[a].stale)]_orgVars
  BY HoldStep
<1> QED
  BY <1>1, OrgInitInv, OrgStep, PTL DEF OrgSpec, HoldOutlivesOwner

-----------------------------------------------------------------------------
(* API keys.                                                               *)

\* The stages at which a request has no key yet.
Keyless == {"idle", "counted"}

Keyed(requests) ==
  \A q \in DOMAIN requests : requests[q].at \notin Keyless => requests[q].key \in Keys

AllKeyed == Keyed(creator) /\ Keyed(validator) /\ Keyed(revoker)

\* A request about to set a good entry has the row as it was before any revocation.
Early(requests, stage) ==
  \A q \in DOMAIN requests :
    requests[q].at = stage => keyRow[requests[q].key] # "revoked"

\* A revoker past its save has left a revoked row, and past its delete no good entry.
Underway ==
  \A r \in Revokers :
    /\ revoker[r].at \in {"revoked", "dropped"} => keyRow[revoker[r].key] = "revoked"
    /\ revoker[r].at = "dropped" => entry[revoker[r].key] # "good"

Closed == \A k \in confirmed : keyRow[k] = "revoked" /\ entry[k] # "good"

KeyInv ==
  KeyTypeOK /\ AllKeyed /\ Early(creator, "row") /\ Early(validator, "read")
  /\ Underway /\ Closed

-----------------------------------------------------------------------------
(* What the record updates do.                                             *)

LEMMA NewRequestFacts ==
  ASSUME NEW at \in Steps, NEW key \in Keys \cup {NoKey}
  PROVE  /\ [at |-> at, key |-> key] \in Request
         /\ [at |-> at, key |-> key].at = at /\ [at |-> at, key |-> key].key = key
  BY DEF Request

LEMMA KeyRestFacts ==
  KeyAtRest \in Request /\ KeyAtRest.at = "idle"
  BY NewRequestFacts DEF KeyAtRest, Steps

\* rs2 is rs with q moved on to the stage.
MovedOn(rs2, rs, q, stage) ==
  /\ DOMAIN rs2 = DOMAIN rs
  /\ \A p \in DOMAIN rs : rs2[p] \in Request /\ (p # q => rs2[p] = rs[p])
  /\ rs2[q].at = stage /\ rs2[q].key = rs[q].key

LEMMA StageFacts ==
  ASSUME NEW S, NEW rs \in [S -> Request], NEW q \in S, NEW stage \in Steps
  PROVE  /\ [rs EXCEPT ![q].at = stage] \in [S -> Request]
         /\ MovedOn([rs EXCEPT ![q].at = stage], rs, q, stage)
<1>1. ASSUME NEW x \in Request, NEW y, y = [x EXCEPT !.at = stage]
      PROVE  y \in Request /\ y.at = stage /\ y.key = x.key
  BY <1>1 DEF Request
<1>2. rs[q] \in Request
  OBVIOUS
<1>3. [rs EXCEPT ![q].at = stage] = [p \in S |-> IF p = q THEN [rs[q] EXCEPT !.at = stage] ELSE rs[p]]
  OBVIOUS
<1> QED
  BY <1>1, <1>2, <1>3 DEF MovedOn

\* A new value for one request.
LEMMA KeySetFacts ==
  ASSUME NEW S, NEW rs \in [S -> Request], NEW q \in S, NEW x \in Request
  PROVE  /\ [rs EXCEPT ![q] = x] \in [S -> Request]
         /\ [rs EXCEPT ![q] = x][q] = x
         /\ \A p \in S \ {q} : [rs EXCEPT ![q] = x][p] = rs[p]
  OBVIOUS

LEMMA KeyOvertakeFacts ==
  ASSUME NEW S, NEW rs \in [S -> Request], NEW k, NEW stage \in Steps \ {"overtaken"}
  PROVE  /\ OvertakeKey(rs, k, stage) \in [S -> Request]
         /\ \A p \in S :
              /\ OvertakeKey(rs, k, stage)[p].key = rs[p].key
              /\ OvertakeKey(rs, k, stage)[p].at \in {rs[p].at, "overtaken"}
              /\ rs[p].at \in Keyless \ {stage} => OvertakeKey(rs, k, stage)[p] = rs[p]
              /\ OvertakeKey(rs, k, stage)[p].at = stage => rs[p].key # k
              /\ OvertakeKey(rs, k, stage)[p].at # rs[p].at => rs[p].at = stage
<1>1. ASSUME NEW x \in Request, NEW y, y = [x EXCEPT !.at = "overtaken"]
      PROVE  y \in Request /\ y.at = "overtaken" /\ y.key = x.key
  BY <1>1 DEF Request, Steps
<1>2. OvertakeKey(rs, k, stage)
        = [p \in S |-> IF rs[p].at = stage /\ rs[p].key = k
                       THEN [rs[p] EXCEPT !.at = "overtaken"] ELSE rs[p]]
  BY DEF OvertakeKey
<1> QED
  BY <1>1, <1>2

LEMMA EntryFacts ==
  ASSUME KeyTypeOK, NEW q \in Request, q.key \in Keys
  PROVE  /\ EntrySet(q) \in [Keys -> {"none", "good", "late"}]
         /\ \A k \in Keys : EntrySet(q)[k] = "good" /\ entry[k] # "good"
                            => k = q.key /\ q.at # "overtaken"
  BY DEF EntrySet, KeyTypeOK

LEMMA RequestFacts ==
  ASSUME KeyInv
  PROVE  /\ \A c \in Creators : creator[c] \in Request
         /\ \A c \in Creators : creator[c].at \notin Keyless => creator[c].key \in Keys
         /\ \A v \in Validators : validator[v] \in Request
         /\ \A v \in Validators : validator[v].at \notin Keyless => validator[v].key \in Keys
         /\ \A r \in Revokers : revoker[r] \in Request
         /\ \A r \in Revokers : revoker[r].at \notin Keyless => revoker[r].key \in Keys
  BY DEF KeyInv, KeyTypeOK, AllKeyed, Keyed

-----------------------------------------------------------------------------
(* The steps of a creation.                                                *)

\* Only the creations' requests have changed, and none is newly at "row".
LEMMA OnlyCreators ==
  ASSUME KeyInv, creator' \in [Creators -> Request], issued' \subseteq Keys,
         userKeys' \subseteq Keys, uncounted' \in BOOLEAN,
         UNCHANGED <<keyRow, entry, confirmed, validator, revoker>>,
         \A c \in Creators :
           \/ creator'[c] = creator[c]
           \/ creator'[c].at \in Keyless
           \/ creator'[c].at \in {"cached", "listed"} /\ creator'[c].key \in Keys
  PROVE  KeyInv'
<1>1. KeyTypeOK'
  BY DEF KeyInv, KeyTypeOK
<1>2. AllKeyed' /\ Early(creator, "row")'
  BY RequestFacts DEF KeyInv, KeyTypeOK, AllKeyed, Keyed, Early, Keyless
<1>3. Early(validator, "read")' /\ Underway' /\ Closed'
  BY DEF KeyInv, Early, Underway, Closed
<1> QED
  BY <1>1, <1>2, <1>3 DEF KeyInv

LEMMA CreatorStep ==
  ASSUME KeyInv, NEW c \in Creators,
         \/ CountKeys(c) \/ ListNewKey(c) \/ IssueKey(c) \/ FailCreate(c)
  PROVE  KeyInv'
<1> USE RequestFacts, KeyRestFacts
<1>1. CASE CountKeys(c)
  <2> DEFINE counted == [at |-> "counted", key |-> NoKey]
  <2>1. counted \in Request /\ counted.at = "counted"
    BY NewRequestFacts DEF Steps
  <2>2. /\ creator' = [creator EXCEPT ![c] = counted]
        /\ UNCHANGED <<keyRow, entry, userKeys, issued, confirmed, validator, revoker>>
    BY <1>1 DEF CountKeys
  <2>3. uncounted' \in BOOLEAN
    BY <1>1, Zenon DEF CountKeys
  <2> HIDE DEF counted
  <2>4. /\ creator' \in [Creators -> Request] /\ creator'[c] = counted
        /\ \A d \in Creators \ {c} : creator'[d] = creator[d]
    BY <2>1, <2>2, KeySetFacts DEF KeyInv, KeyTypeOK
  <2> QED
    BY <2>1, <2>2, <2>3, <2>4, OnlyCreators DEF KeyInv, KeyTypeOK, Keyless
<1>2. CASE ListNewKey(c)
  <2>1. /\ creator' \in [Creators -> Request] /\ MovedOn(creator', creator, c, "listed")
        /\ creator[c].key \in Keys
    BY <1>2, StageFacts DEF ListNewKey, KeyInv, KeyTypeOK, Steps, Keyless
  <2> QED
    BY <1>2, <2>1, OnlyCreators DEF ListNewKey, MovedOn, KeyInv, KeyTypeOK
<1>3. CASE IssueKey(c)
  BY <1>3, OnlyCreators DEF IssueKey, KeyInv, KeyTypeOK, Keyless
<1>4. CASE FailCreate(c)
  BY <1>4, OnlyCreators DEF FailCreate, KeyInv, KeyTypeOK, Keyless
<1> QED
  BY <1>1, <1>2, <1>3, <1>4

\* A new row is active: it is nobody's that a revocation has to do with.
LEMMA AddRowStep ==
  ASSUME KeyInv, NEW c \in Creators, NEW k \in Keys, AddKeyRow(c, k)
  PROVE  KeyInv'
<1> DEFINE new == [at |-> "row", key |-> k]
<1>1. new \in Request /\ new.at = "row" /\ new.key = k
  BY NewRequestFacts DEF Steps
<1>2. creator' = [creator EXCEPT ![c] = new] /\ keyRow' = [keyRow EXCEPT ![k] = "active"]
      /\ keyRow[k] = "none"
      /\ UNCHANGED <<entry, userKeys, issued, confirmed, validator, revoker, uncounted>>
  BY DEF AddKeyRow
<1> HIDE DEF new
<1>3. keyRow' \in [Keys -> {"none", "active", "expired", "revoked"}]
      /\ \A l \in Keys : keyRow'[l] = IF l = k THEN "active" ELSE keyRow[l]
  BY <1>2 DEF KeyInv, KeyTypeOK
<1>4. creator' \in [Creators -> Request] /\ creator'[c] = new
      /\ \A d \in Creators \ {c} : creator'[d] = creator[d]
  BY <1>1, <1>2, KeySetFacts DEF KeyInv, KeyTypeOK
<1>5. KeyTypeOK' /\ AllKeyed'
  BY <1>1, <1>2, <1>3, <1>4 DEF KeyInv, KeyTypeOK, AllKeyed, Keyed
<1>6. Early(creator, "row")' /\ Early(validator, "read")'
  BY <1>1, <1>2, <1>3, <1>4, RequestFacts DEF KeyInv, KeyTypeOK, Early, Keyless
<1>7. Underway' /\ Closed'
  BY <1>2, <1>3, RequestFacts DEF KeyInv, KeyTypeOK, Underway, Closed, Keyless
<1> QED
  BY <1>5, <1>6, <1>7 DEF KeyInv

\* Setting an entry: a good one only for a key whose row is not revoked.
LEMMA EntryStep ==
  ASSUME KeyInv, NEW q \in Request, q.key \in Keys, entry' = EntrySet(q),
         q.at = "overtaken" \/ keyRow[q.key] # "revoked",
         UNCHANGED <<keyRow, confirmed, revoker>>
  PROVE  Underway' /\ Closed' /\ entry' \in [Keys -> {"none", "good", "late"}]
<1>1. entry' \in [Keys -> {"none", "good", "late"}]
      /\ \A k \in Keys : entry'[k] = "good" /\ entry[k] # "good"
                        => k = q.key /\ q.at # "overtaken"
  BY EntryFacts DEF KeyInv
<1>2. Closed'
  BY <1>1 DEF Closed, KeyInv, KeyTypeOK
<1>3. Underway'
  BY <1>1, RequestFacts DEF Underway, KeyInv, Keyless
<1> QED
  BY <1>1, <1>2, <1>3

LEMMA CacheNewStep ==
  ASSUME KeyInv, NEW c \in Creators, CacheNewKey(c) PROVE KeyInv'
<1>1. /\ creator[c] \in Request /\ creator[c].key \in Keys
      /\ creator[c].at = "overtaken" \/ keyRow[creator[c].key] # "revoked"
  BY RequestFacts DEF CacheNewKey, Keyless, KeyInv, KeyTypeOK, Early
<1>2. Underway' /\ Closed' /\ entry' \in [Keys -> {"none", "good", "late"}]
  BY <1>1, EntryStep DEF CacheNewKey
<1>3. creator' \in [Creators -> Request] /\ MovedOn(creator', creator, c, "cached")
  BY StageFacts DEF CacheNewKey, KeyInv, KeyTypeOK, Steps
<1>4. KeyTypeOK' /\ AllKeyed'
  BY <1>1, <1>2, <1>3 DEF CacheNewKey, KeyInv, KeyTypeOK, AllKeyed, Keyed, MovedOn
<1>5. Early(creator, "row")' /\ Early(validator, "read")'
  BY <1>3 DEF CacheNewKey, KeyInv, KeyTypeOK, Early, MovedOn
<1> QED
  BY <1>2, <1>4, <1>5 DEF KeyInv

-----------------------------------------------------------------------------
(* The steps of an authentication.                                         *)

LEMMA ValidatorStep ==
  ASSUME KeyInv, NEW v \in Validators,
         \/ \E k \in Keys : MissEntry(v, k)
         \/ ReadKeyRow(v) \/ FailValidate(v)
  PROVE  KeyInv'
<1> DEFINE Others == UNCHANGED <<keyRow, entry, userKeys, issued, confirmed, creator,
                                 revoker, uncounted>>
<1>1. ASSUME validator' \in [Validators -> Request], Others,
             \A w \in Validators \ {v} : validator'[w] = validator[w],
             \/ validator'[v].at = "idle"
             \/ validator'[v].at = "missed" /\ validator'[v].key \in Keys
             \/ validator'[v].at = "read" /\ validator'[v].key \in Keys
                /\ keyRow[validator'[v].key] = "active"
      PROVE  KeyInv'
  <2>1. KeyTypeOK' /\ AllKeyed'
    BY <1>1, RequestFacts DEF KeyInv, KeyTypeOK, AllKeyed, Keyed, Keyless
  <2>2. Early(creator, "row")' /\ Early(validator, "read")'
    BY <1>1 DEF KeyInv, KeyTypeOK, Early
  <2>3. Underway' /\ Closed'
    BY <1>1 DEF KeyInv, Underway, Closed
  <2> QED
    BY <2>1, <2>2, <2>3 DEF KeyInv
<1>2. ASSUME NEW k \in Keys, MissEntry(v, k) PROVE KeyInv'
  <2> DEFINE new == [at |-> "missed", key |-> k]
  <2>1. new \in Request /\ new.at = "missed" /\ new.key = k
    BY NewRequestFacts DEF Steps
  <2>2. validator' = [validator EXCEPT ![v] = new] /\ Others
    BY <1>2 DEF MissEntry
  <2> HIDE DEF new
  <2> QED
    BY <1>1, <2>1, <2>2, KeySetFacts DEF KeyInv, KeyTypeOK
<1>3. CASE ReadKeyRow(v)
  <2>1. CASE keyRow[validator[v].key] = "active"
    <3>1. validator' = [validator EXCEPT ![v].at = "read"] /\ Others
      BY <1>3, <2>1 DEF ReadKeyRow, KeyInv, KeyTypeOK
    <3>2. validator' \in [Validators -> Request] /\ MovedOn(validator', validator, v, "read")
      BY <3>1, StageFacts DEF KeyInv, KeyTypeOK, Steps
    <3>3. validator[v].key \in Keys
      BY <1>3, RequestFacts DEF ReadKeyRow, Keyless
    <3> QED
      BY <1>1, <2>1, <3>1, <3>2, <3>3 DEF MovedOn, KeyInv, KeyTypeOK
  <2>2. CASE keyRow[validator[v].key] # "active"
    <3>1. validator' = [validator EXCEPT ![v] = KeyAtRest] /\ Others
      BY <1>3, <2>2 DEF ReadKeyRow, KeyInv, KeyTypeOK
    <3> QED
      BY <1>1, <3>1, KeySetFacts, KeyRestFacts DEF KeyInv, KeyTypeOK
  <2> QED
    BY <2>1, <2>2
<1>4. CASE FailValidate(v)
  BY <1>1, <1>4, KeySetFacts, KeyRestFacts DEF FailValidate, KeyInv, KeyTypeOK
<1> QED
  BY <1>2, <1>3, <1>4

LEMMA CacheStep ==
  ASSUME KeyInv, NEW v \in Validators, CacheKey(v) PROVE KeyInv'
<1>1. /\ validator[v] \in Request /\ validator[v].key \in Keys
      /\ validator[v].at = "overtaken" \/ keyRow[validator[v].key] # "revoked"
  BY RequestFacts DEF CacheKey, Keyless, KeyInv, KeyTypeOK, Early
<1>2. Underway' /\ Closed' /\ entry' \in [Keys -> {"none", "good", "late"}]
  BY <1>1, EntryStep DEF CacheKey
<1>3. validator' \in [Validators -> Request] /\ validator'[v] = KeyAtRest
      /\ \A w \in Validators \ {v} : validator'[w] = validator[w]
  BY KeySetFacts, KeyRestFacts DEF CacheKey, KeyInv, KeyTypeOK
<1>4. KeyTypeOK' /\ AllKeyed'
  BY <1>2, <1>3, KeyRestFacts, RequestFacts
     DEF CacheKey, KeyInv, KeyTypeOK, AllKeyed, Keyed, Keyless
<1>5. Early(creator, "row")' /\ Early(validator, "read")'
  BY <1>3, KeyRestFacts DEF CacheKey, KeyInv, KeyTypeOK, Early
<1> QED
  BY <1>2, <1>4, <1>5 DEF KeyInv

-----------------------------------------------------------------------------
(* The steps of a revocation.                                              *)

\* The revoker r is at rest, or has read the row it is at.
LEMMA RevokerStep ==
  ASSUME KeyInv, NEW r \in Revokers,
         \/ \E k \in Keys : ReadKey(r, k)
         \/ FailRevoke(r)
  PROVE  KeyInv'
<1> DEFINE Others == UNCHANGED <<keyRow, entry, userKeys, issued, confirmed, creator,
                                 validator, uncounted>>
<1>1. ASSUME revoker' \in [Revokers -> Request], Others,
             \A s \in Revokers \ {r} : revoker'[s] = revoker[s],
             \/ revoker'[r].at = "idle"
             \/ revoker'[r].at = "read" /\ revoker'[r].key \in Keys
             \/ revoker'[r].at = "revoked" /\ revoker'[r].key \in Keys
                /\ keyRow[revoker'[r].key] = "revoked"
      PROVE  KeyInv'
  <2>1. KeyTypeOK' /\ AllKeyed'
    BY <1>1, RequestFacts DEF KeyInv, KeyTypeOK, AllKeyed, Keyed, Keyless
  <2>2. Early(creator, "row")' /\ Early(validator, "read")'
    BY <1>1 DEF KeyInv, Early
  <2>3. Underway' /\ Closed'
    BY <1>1 DEF KeyInv, KeyTypeOK, Underway, Closed
  <2> QED
    BY <2>1, <2>2, <2>3 DEF KeyInv
<1>2. ASSUME NEW k \in Keys, ReadKey(r, k) PROVE KeyInv'
  <2>1. PICK stage \in {"revoked", "read"} :
          /\ revoker' = [revoker EXCEPT ![r] = [at |-> stage, key |-> k]]
          /\ stage = "revoked" => keyRow[k] = "revoked"
    BY <1>2 DEF ReadKey
  <2> DEFINE new == [at |-> stage, key |-> k]
  <2>2. new \in Request /\ new.at = stage /\ new.key = k
    BY NewRequestFacts DEF Steps
  <2>3. revoker' = [revoker EXCEPT ![r] = new] /\ Others
    BY <1>2, <2>1 DEF ReadKey
  <2> HIDE DEF new
  <2> QED
    BY <1>1, <2>1, <2>2, <2>3, KeySetFacts DEF KeyInv, KeyTypeOK
<1>3. CASE FailRevoke(r)
  BY <1>1, <1>3, KeySetFacts, KeyRestFacts DEF FailRevoke, KeyInv, KeyTypeOK
<1> QED
  BY <1>2, <1>3

\* The row is revoked; a request that had read it is overtaken.
LEMMA RevokeRowStep ==
  ASSUME KeyInv, NEW r \in Revokers, RevokeRow(r) PROVE KeyInv'
<1> DEFINE k == revoker[r].key
<1>1. k \in Keys
  BY RequestFacts DEF RevokeRow, Keyless
<1>2. /\ keyRow' \in [Keys -> {"none", "active", "expired", "revoked"}]
      /\ keyRow'[k] = "revoked" /\ \A l \in Keys \ {k} : keyRow'[l] = keyRow[l]
  BY <1>1 DEF RevokeRow, KeyInv, KeyTypeOK
<1>3. revoker' \in [Revokers -> Request] /\ MovedOn(revoker', revoker, r, "revoked")
  BY StageFacts DEF RevokeRow, KeyInv, KeyTypeOK, Steps
<1>4. /\ creator' = OvertakeKey(creator, k, "row")
      /\ validator' = OvertakeKey(validator, k, "read")
      /\ UNCHANGED <<entry, userKeys, issued, confirmed, uncounted>>
  BY DEF RevokeRow
<1>5. /\ creator' \in [Creators -> Request]
      /\ \A c \in Creators :
           /\ creator'[c].key = creator[c].key
           /\ creator[c].at \in Keyless => creator'[c] = creator[c]
           /\ creator'[c].at = "row" => creator[c].at = "row" /\ creator[c].key # k
  <2>1. "row" \in Steps \ {"overtaken"}
    BY DEF Steps
  <2> QED
    BY <1>4, <2>1, KeyOvertakeFacts DEF KeyInv, KeyTypeOK, Keyless
<1>6. /\ validator' \in [Validators -> Request]
      /\ \A v \in Validators :
           /\ validator'[v].key = validator[v].key
           /\ validator[v].at \in Keyless => validator'[v] = validator[v]
           /\ validator'[v].at = "read" => validator[v].at = "read" /\ validator[v].key # k
  <2>1. "read" \in Steps \ {"overtaken"}
    BY DEF Steps
  <2> QED
    BY <1>4, <2>1, KeyOvertakeFacts DEF KeyInv, KeyTypeOK, Keyless
<1> HIDE DEF k
<1>7. KeyTypeOK'
  BY <1>2, <1>3, <1>4, <1>5, <1>6 DEF KeyInv, KeyTypeOK
<1>8. AllKeyed'
  <2>1. /\ \A c \in Creators : creator'[c].at \notin Keyless => creator'[c].key \in Keys
        /\ \A v \in Validators : validator'[v].at \notin Keyless => validator'[v].key \in Keys
    BY <1>5, <1>6, RequestFacts
  <2>2. \A s \in Revokers : revoker'[s].at \notin Keyless => revoker'[s].key \in Keys
    BY <1>1, <1>3, RequestFacts DEF MovedOn, k, KeyInv, KeyTypeOK
  <2> QED
    BY <1>3, <1>5, <1>6, <2>1, <2>2 DEF AllKeyed, Keyed
<1>9. Early(creator, "row")' /\ Early(validator, "read")'
  <2>1. \A c \in Creators : creator'[c].at = "row" => keyRow'[creator'[c].key] # "revoked"
    BY <1>2, <1>5, RequestFacts DEF KeyInv, KeyTypeOK, Early, Keyless
  <2>2. \A v \in Validators : validator'[v].at = "read" => keyRow'[validator'[v].key] # "revoked"
    BY <1>2, <1>6, RequestFacts DEF KeyInv, KeyTypeOK, Early, Keyless
  <2> QED
    BY <1>5, <1>6, <2>1, <2>2 DEF Early
<1>10. Underway' /\ Closed'
  <2>1. Closed'
    BY <1>2, <1>4 DEF KeyInv, KeyTypeOK, Closed
  <2>2. Underway'
    BY <1>2, <1>3, <1>4, RequestFacts DEF KeyInv, KeyTypeOK, Underway, MovedOn, Keyless, k
  <2> QED
    BY <2>1, <2>2
<1> QED
  BY <1>7, <1>8, <1>9, <1>10 DEF KeyInv

LEMMA DropStep ==
  ASSUME KeyInv, NEW r \in Revokers, DropEntry(r) PROVE KeyInv'
<1>1. revoker[r].key \in Keys /\ keyRow[revoker[r].key] = "revoked"
  BY RequestFacts DEF DropEntry, Keyless, KeyInv, Underway
<1>2. /\ entry' \in [Keys -> {"none", "good", "late"}]
      /\ entry'[revoker[r].key] = "none"
      /\ \A k \in Keys : entry'[k] \in {entry[k], "none"}
  BY <1>1 DEF DropEntry, KeyInv, KeyTypeOK
<1>3. revoker' \in [Revokers -> Request] /\ MovedOn(revoker', revoker, r, "dropped")
  BY StageFacts DEF DropEntry, KeyInv, KeyTypeOK, Steps
<1>4. UNCHANGED <<keyRow, userKeys, issued, confirmed, creator, validator, uncounted>>
  BY DEF DropEntry
<1>5. KeyTypeOK' /\ AllKeyed'
  BY <1>1, <1>2, <1>3, <1>4, RequestFacts DEF KeyInv, KeyTypeOK, AllKeyed, Keyed, MovedOn
<1>6. Early(creator, "row")' /\ Early(validator, "read")'
  BY <1>4 DEF KeyInv, Early
<1>7. Underway' /\ Closed'
  BY <1>1, <1>2, <1>3, <1>4, RequestFacts
     DEF KeyInv, KeyTypeOK, Underway, Closed, MovedOn, Keyless
<1> QED
  BY <1>5, <1>6, <1>7 DEF KeyInv

LEMMA UnlistStep ==
  ASSUME KeyInv, NEW r \in Revokers, UnlistKey(r) PROVE KeyInv'
<1>1. /\ revoker[r].key \in Keys /\ keyRow[revoker[r].key] = "revoked"
      /\ entry[revoker[r].key] # "good"
  BY RequestFacts DEF UnlistKey, Keyless, KeyInv, Underway
<1>2. revoker' \in [Revokers -> Request] /\ revoker'[r] = KeyAtRest
      /\ \A s \in Revokers \ {r} : revoker'[s] = revoker[s]
  BY KeySetFacts, KeyRestFacts DEF UnlistKey, KeyInv, KeyTypeOK
<1>3. /\ userKeys' \subseteq userKeys /\ confirmed' = confirmed \cup {revoker[r].key}
      /\ UNCHANGED <<keyRow, entry, issued, creator, validator, uncounted>>
  BY DEF UnlistKey
<1>4. KeyTypeOK' /\ AllKeyed'
  BY <1>1, <1>2, <1>3, KeyRestFacts, RequestFacts
     DEF KeyInv, KeyTypeOK, AllKeyed, Keyed, Keyless
<1>5. Early(creator, "row")' /\ Early(validator, "read")'
  BY <1>3 DEF KeyInv, Early
<1>6. Underway' /\ Closed'
  BY <1>1, <1>2, <1>3, KeyRestFacts DEF KeyInv, KeyTypeOK, Underway, Closed
<1> QED
  BY <1>4, <1>5, <1>6 DEF KeyInv

-----------------------------------------------------------------------------
(* Every step.                                                             *)

LEMMA KeyInitInv == KeyInit => KeyInv
<1> SUFFICES ASSUME KeyInit PROVE KeyInv
  OBVIOUS
<1>1. KeyTypeOK
  BY KeyRestFacts DEF KeyInit, KeyTypeOK
<1>2. AllKeyed /\ Early(creator, "row") /\ Early(validator, "read") /\ Underway /\ Closed
  BY KeyRestFacts DEF KeyInit, AllKeyed, Keyed, Keyless, Early, Underway, Closed
<1> QED
  BY <1>1, <1>2 DEF KeyInv

LEMMA KeyStep == KeyInv /\ [KeyNext]_keyVars => KeyInv'
<1> SUFFICES ASSUME KeyInv, [KeyNext]_keyVars PROVE KeyInv'
  OBVIOUS
<1>1. ASSUME NEW k \in Keys, KeyExpires(k) PROVE KeyInv'
  <2>1. /\ keyRow' \in [Keys -> {"none", "active", "expired", "revoked"}]
        /\ entry' \in [Keys -> {"none", "good", "late"}]
        /\ \A l \in Keys : /\ keyRow[l] = "revoked" <=> keyRow'[l] = "revoked"
                           /\ entry'[l] \in {entry[l], "none"}
    BY <1>1 DEF KeyExpires, KeyInv, KeyTypeOK
  <2>2. UNCHANGED <<userKeys, issued, confirmed, creator, validator, revoker, uncounted>>
    BY <1>1 DEF KeyExpires
  <2>3. KeyTypeOK' /\ AllKeyed'
    BY <2>1, <2>2 DEF KeyInv, KeyTypeOK, AllKeyed, Keyed
  <2>4. Early(creator, "row")' /\ Early(validator, "read")'
    BY <2>1, <2>2, RequestFacts DEF KeyInv, KeyTypeOK, Early, Keyless
  <2>5. Underway' /\ Closed'
    BY <2>1, <2>2, RequestFacts DEF KeyInv, KeyTypeOK, Underway, Closed, Keyless
  <2> QED
    BY <2>3, <2>4, <2>5 DEF KeyInv
<1>2. CASE FlushRedis
  <2>1. KeyTypeOK' /\ AllKeyed'
    BY <1>2 DEF FlushRedis, KeyInv, KeyTypeOK, AllKeyed, Keyed
  <2>2. Early(creator, "row")' /\ Early(validator, "read")'
    BY <1>2 DEF FlushRedis, KeyInv, Early
  <2>3. Underway' /\ Closed'
    BY <1>2, RequestFacts DEF FlushRedis, KeyInv, KeyTypeOK, Underway, Closed, Keyless
  <2> QED
    BY <2>1, <2>2, <2>3 DEF KeyInv
<1>3. CASE UNCHANGED keyVars
  BY <1>3 DEF keyVars, KeyInv, KeyTypeOK, AllKeyed, Keyed, Early, Underway, Closed
<1> QED
  BY <1>1, <1>2, <1>3, CreatorStep, AddRowStep, CacheNewStep, ValidatorStep, CacheStep,
     RevokerStep, RevokeRowStep, DropStep, UnlistStep DEF KeyNext

\* The requests, the rows and the entries keep their types, whatever is in
\* progress (RedisApiKeyService).
THEOREM KeyTypes == KeySpec => []KeyTypeOK
<1>1. KeyInv => KeyTypeOK
  BY DEF KeyInv
<1> QED
  BY <1>1, KeyInitInv, KeyStep, PTL DEF KeySpec

\* A key whose revocation was confirmed authenticates nobody, unless a request
\* that had its row before the revocation set the entry after it
\* (RedisApiKeyService.RevokeApiKeyAsync).
THEOREM RevocationReachesCache == KeySpec => []RevocationDrops
<1>1. KeyInv => RevocationDrops
  BY DEF KeyInv, Closed, RevocationDrops
<1> QED
  BY <1>1, KeyInitInv, KeyStep, PTL DEF KeySpec

-----------------------------------------------------------------------------
(* The limit.                                                              *)

\* The creation has counted and has not yet added its key to the set.
YetToAdd(c) == creator[c].at \in {"counted", "row", "overtaken", "cached"}

\* A key leaves the user's set only once its row is revoked.
Kept ==
  /\ \A k \in issued : k \in userKeys \/ keyRow[k] = "revoked"
  /\ \A c \in Creators : creator[c].at = "listed" =>
       creator[c].key \in userKeys \/ keyRow[creator[c].key] = "revoked"

\* The set has room for the key of the one creation that has counted.
Room ==
  /\ \A c, d \in Creators : YetToAdd(c) /\ YetToAdd(d) => c = d
  /\ Cardinality(userKeys) <= MaxPerUser
  /\ \A c \in Creators : YetToAdd(c) => Cardinality(userKeys) < MaxPerUser

LimitInv == ~uncounted => Kept /\ Room

LEMMA UserKeysFinite ==
  ASSUME KeyInv
  PROVE  IsFiniteSet(userKeys) /\ Cardinality(userKeys) \in Nat
  BY KeyAssumption, FS_Subset, FS_CardinalityType DEF KeyInv, KeyTypeOK

LEMMA KeptStep ==
  ASSUME KeyInv, Kept,
         \A k \in Keys : keyRow[k] = "revoked" => keyRow'[k] = "revoked",
         \A k \in userKeys : k \in userKeys' \/ keyRow'[k] = "revoked",
         \A k \in issued' : \/ k \in issued
                            \/ \E c \in Creators : creator[c].at = "listed" /\ creator[c].key = k,
         \A c \in Creators : creator'[c].at = "listed" =>
            \/ creator[c].at = "listed" /\ creator'[c].key = creator[c].key
            \/ creator'[c].key \in userKeys'
  PROVE  Kept'
<1>1. ASSUME NEW k \in Keys, k \in userKeys \/ keyRow[k] = "revoked"
      PROVE  k \in userKeys' \/ keyRow'[k] = "revoked"
  BY <1>1
<1>2. ASSUME NEW c \in Creators, creator[c].at = "listed"
      PROVE  creator[c].key \in userKeys' \/ keyRow'[creator[c].key] = "revoked"
  BY <1>1, <1>2, RequestFacts DEF Kept, Keyless
<1>3. ASSUME NEW k \in issued' PROVE k \in userKeys' \/ keyRow'[k] = "revoked"
  <2>1. CASE k \in issued
    BY <1>1, <2>1 DEF Kept, KeyInv, KeyTypeOK
  <2> QED
    BY <1>2, <1>3, <2>1
<1> QED
  BY <1>2, <1>3 DEF Kept

\* No creation has counted in this step, and no key has been added to the set.
LEMMA RoomStep ==
  ASSUME KeyInv, Room, userKeys' \subseteq userKeys,
         \A c \in Creators : YetToAdd(c)' => YetToAdd(c)
  PROVE  Room'
<1>1. Cardinality(userKeys') <= Cardinality(userKeys) /\ Cardinality(userKeys') \in Nat
  BY UserKeysFinite, FS_Subset, FS_CardinalityType
<1>2. Cardinality(userKeys') <= MaxPerUser
  BY <1>1, UserKeysFinite, KeyAssumption DEF Room
<1>3. ASSUME NEW c \in Creators, YetToAdd(c)' PROVE Cardinality(userKeys') < MaxPerUser
  BY <1>1, <1>3, UserKeysFinite, KeyAssumption DEF Room
<1> QED
  BY <1>2, <1>3 DEF Room

LEMMA CountStep ==
  ASSUME KeyInv, ~uncounted, Kept /\ Room, NEW c \in Creators, CountKeys(c), ~uncounted'
  PROVE  Kept' /\ Room'
<1> DEFINE counted == [at |-> "counted", key |-> NoKey]
<1>1. counted \in Request /\ counted.at = "counted"
  BY NewRequestFacts DEF Steps
<1>2. /\ creator' = [creator EXCEPT ![c] = counted]
      /\ UNCHANGED <<keyRow, entry, userKeys, issued, confirmed, validator, revoker>>
  BY DEF CountKeys
<1>3. Cardinality(userKeys) < MaxPerUser /\ Uncounted(c) = {}
  BY Zenon DEF CountKeys, UnderLimit
<1> HIDE DEF counted
<1>4. /\ creator' \in [Creators -> Request] /\ creator'[c] = counted
      /\ \A d \in Creators \ {c} : creator'[d] = creator[d]
  BY <1>1, <1>2, KeySetFacts DEF KeyInv, KeyTypeOK
<1>5. Kept'
  BY <1>1, <1>2, <1>4, KeptStep
<1>6. \A d \in Creators \ {c} : ~ YetToAdd(d)'
  BY <1>3, <1>4 DEF Uncounted, YetToAdd
<1>7. Room'
  BY <1>2, <1>3, <1>6 DEF Room
<1> QED
  BY <1>5, <1>7

LEMMA ListStep ==
  ASSUME KeyInv, Kept, Room, NEW c \in Creators, ListNewKey(c)
  PROVE  Kept' /\ Room'
<1>1. /\ creator' \in [Creators -> Request] /\ MovedOn(creator', creator, c, "listed")
      /\ creator[c].key \in Keys /\ YetToAdd(c)
  BY RequestFacts, StageFacts DEF ListNewKey, KeyInv, KeyTypeOK, Steps, Keyless, YetToAdd
<1>2. userKeys' = userKeys \cup {creator[c].key} /\ UNCHANGED <<keyRow, issued>>
  BY DEF ListNewKey
<1>3. \A d \in Creators \ {c} : creator'[d] = creator[d]
  BY <1>1 DEF MovedOn, KeyInv, KeyTypeOK
<1>4. creator'[c].at = "listed" /\ creator'[c].key = creator[c].key
  BY <1>1 DEF MovedOn
<1>5. Kept'
  BY <1>2, <1>3, <1>4, KeptStep
<1>6. Cardinality(userKeys') <= MaxPerUser
  <2>1. Cardinality(userKeys) < MaxPerUser
    BY <1>1 DEF Room
  <2>2. \/ Cardinality(userKeys') = Cardinality(userKeys)
        \/ Cardinality(userKeys') = Cardinality(userKeys) + 1
    BY <1>2, UserKeysFinite, FS_AddElement
  <2> QED
    BY <2>1, <2>2, UserKeysFinite, KeyAssumption
<1>7. \A d \in Creators : ~ YetToAdd(d)'
  <2>1. ~ YetToAdd(c)'
    BY <1>4 DEF YetToAdd
  <2>2. ASSUME NEW d \in Creators \ {c} PROVE ~ YetToAdd(d)'
    BY <1>1, <1>3 DEF YetToAdd, Room
  <2> QED
    BY <2>1, <2>2
<1> QED
  BY <1>5, <1>6, <1>7 DEF Room

\* The other steps of a creation.
LEMMA CreationStep ==
  ASSUME KeyInv, Kept, Room, NEW c \in Creators,
         \/ IssueKey(c) \/ FailCreate(c) \/ CacheNewKey(c)
         \/ \E k \in Keys : AddKeyRow(c, k)
  PROVE  Kept' /\ Room'
<1>1. ASSUME /\ \A d \in Creators \ {c} : creator'[d] = creator[d]
             /\ creator'[c].at # "listed" /\ (YetToAdd(c)' => YetToAdd(c))
             /\ \A k \in Keys : keyRow[k] = "revoked" => keyRow'[k] = "revoked"
             /\ userKeys' = userKeys
             /\ issued' = issued \/ (creator[c].at = "listed" /\ issued' = issued \cup {creator[c].key})
      PROVE  Kept' /\ Room'
  <2>1. \A d \in Creators : YetToAdd(d)' => YetToAdd(d)
    BY <1>1 DEF YetToAdd
  <2>2. Room'
    BY <1>1, <2>1, RoomStep
  <2>3. Kept'
    BY <1>1, KeptStep
  <2> QED
    BY <2>2, <2>3
<1>2. CASE IssueKey(c) \/ FailCreate(c)
  <2>1. creator' = [creator EXCEPT ![c] = KeyAtRest] /\ UNCHANGED <<keyRow, userKeys>>
    BY <1>2 DEF IssueKey, FailCreate
  <2>3. issued' = issued \/ (creator[c].at = "listed" /\ issued' = issued \cup {creator[c].key})
    BY <1>2 DEF IssueKey, FailCreate
  <2>2. creator'[c].at = "idle" /\ \A d \in Creators \ {c} : creator'[d] = creator[d]
    BY <2>1, KeySetFacts, KeyRestFacts DEF KeyInv, KeyTypeOK
  <2> QED
    BY <1>1, <2>1, <2>2, <2>3 DEF YetToAdd
<1>3. CASE CacheNewKey(c)
  <2>1. creator' \in [Creators -> Request] /\ MovedOn(creator', creator, c, "cached")
    BY <1>3, StageFacts DEF CacheNewKey, KeyInv, KeyTypeOK, Steps
  <2>2. creator'[c].at = "cached" /\ \A d \in Creators \ {c} : creator'[d] = creator[d]
    BY <2>1 DEF MovedOn, KeyInv, KeyTypeOK
  <2>3. YetToAdd(c) /\ UNCHANGED <<keyRow, userKeys, issued>>
    BY <1>3 DEF CacheNewKey, YetToAdd
  <2> QED
    BY <1>1, <2>2, <2>3
<1>4. ASSUME NEW k \in Keys, AddKeyRow(c, k) PROVE Kept' /\ Room'
  <2> DEFINE new == [at |-> "row", key |-> k]
  <2>1. new \in Request /\ new.at = "row"
    BY NewRequestFacts DEF Steps
  <2>2. creator' = [creator EXCEPT ![c] = new] /\ keyRow' = [keyRow EXCEPT ![k] = "active"]
        /\ keyRow[k] = "none" /\ creator[c].at = "counted" /\ UNCHANGED <<userKeys, issued>>
    BY <1>4 DEF AddKeyRow
  <2> HIDE DEF new
  <2>3. creator'[c] = new /\ \A d \in Creators \ {c} : creator'[d] = creator[d]
    BY <2>1, <2>2, KeySetFacts DEF KeyInv, KeyTypeOK
  <2>4. \A l \in Keys : keyRow[l] = "revoked" => keyRow'[l] = "revoked"
    BY <2>2 DEF KeyInv, KeyTypeOK
  <2>5. creator'[c].at # "listed" /\ YetToAdd(c)
    BY <2>1, <2>2, <2>3 DEF YetToAdd
  <2> QED
    BY <1>1, <2>2, <2>3, <2>4, <2>5
<1> QED
  BY <1>2, <1>3, <1>4

\* The steps in which no creation moves.
LEMMA RowStep ==
  ASSUME KeyInv, Kept, Room, UNCHANGED <<issued, creator>>,
         \A k \in Keys : keyRow[k] = "revoked" => keyRow'[k] = "revoked",
         userKeys' \subseteq userKeys,
         \A k \in userKeys : k \in userKeys' \/ keyRow'[k] = "revoked"
  PROVE  Kept' /\ Room'
<1>1. Room'
  BY RoomStep DEF YetToAdd
<1>2. Kept'
  BY KeptStep
<1> QED
  BY <1>1, <1>2

LEMMA RevocationStep ==
  ASSUME KeyInv, Kept, Room, NEW r \in Revokers,
         \/ \E k \in Keys : ReadKey(r, k)
         \/ RevokeRow(r) \/ DropEntry(r) \/ UnlistKey(r) \/ FailRevoke(r)
  PROVE  Kept' /\ Room'
<1>1. CASE (\E k \in Keys : ReadKey(r, k)) \/ DropEntry(r) \/ FailRevoke(r)
  <2>1. UNCHANGED <<keyRow, userKeys, issued, creator>>
    BY <1>1 DEF ReadKey, DropEntry, FailRevoke
  <2> QED
    BY <2>1, RowStep
<1>2. CASE UnlistKey(r)
  <2>1. keyRow[revoker[r].key] = "revoked"
    BY <1>2 DEF UnlistKey, KeyInv, Underway
  <2>2. userKeys' = userKeys \ {revoker[r].key} /\ UNCHANGED <<keyRow, issued, creator>>
    BY <1>2 DEF UnlistKey
  <2> QED
    BY <2>1, <2>2, RowStep
<1>3. CASE RevokeRow(r)
  <2>1. /\ creator' = OvertakeKey(creator, revoker[r].key, "row")
        /\ keyRow' = [keyRow EXCEPT ![revoker[r].key] = "revoked"]
        /\ UNCHANGED <<userKeys, issued>>
    BY <1>3 DEF RevokeRow
  <2>2. \A k \in Keys : keyRow[k] = "revoked" => keyRow'[k] = "revoked"
    BY <2>1 DEF KeyInv, KeyTypeOK
  <2>3. \A c \in Creators :
          /\ creator'[c].key = creator[c].key /\ creator'[c].at \in {creator[c].at, "overtaken"}
          /\ creator'[c].at # creator[c].at => creator[c].at = "row"
    <3>1. "row" \in Steps \ {"overtaken"}
      BY DEF Steps
    <3> QED
      BY <2>1, <3>1, KeyOvertakeFacts DEF KeyInv, KeyTypeOK
  <2>4. \A c \in Creators : YetToAdd(c)' => YetToAdd(c)
    BY <2>3 DEF YetToAdd
  <2>5. Room'
    BY <2>1, <2>4, RoomStep
  <2>6. Kept'
    BY <2>1, <2>2, <2>3, KeptStep
  <2> QED
    BY <2>5, <2>6
<1> QED
  BY <1>1, <1>2, <1>3

LEMMA LimitStep ==
  KeyInv /\ LimitInv /\ [KeyNext]_keyVars => LimitInv'
<1> SUFFICES ASSUME KeyInv, LimitInv, [KeyNext]_keyVars, ~uncounted' PROVE Kept' /\ Room'
  BY DEF LimitInv
<1>1. CASE FlushRedis
  BY <1>1 DEF FlushRedis
<1>2. ASSUME NEW c \in Creators, CountKeys(c) PROVE Kept' /\ Room'
  <2>1. ~uncounted
    BY <1>2, Zenon DEF CountKeys
  <2> QED
    BY <1>2, <2>1, CountStep DEF LimitInv
<1>3. ASSUME NEW c \in Creators,
             \/ ListNewKey(c) \/ IssueKey(c) \/ FailCreate(c) \/ CacheNewKey(c)
             \/ \E k \in Keys : AddKeyRow(c, k)
      PROVE  Kept' /\ Room'
  <2>1. ~uncounted
    BY <1>3 DEF ListNewKey, IssueKey, FailCreate, CacheNewKey, AddKeyRow
  <2> QED
    BY <1>3, <2>1, ListStep, CreationStep DEF LimitInv
<1>4. ASSUME NEW v \in Validators,
             \/ \E k \in Keys : MissEntry(v, k)
             \/ ReadKeyRow(v) \/ CacheKey(v) \/ FailValidate(v)
      PROVE  Kept' /\ Room'
  <2>1. UNCHANGED <<keyRow, userKeys, issued, creator, uncounted>>
    BY <1>4 DEF MissEntry, ReadKeyRow, CacheKey, FailValidate
  <2> QED
    BY <2>1, RowStep DEF LimitInv
<1>5. ASSUME NEW r \in Revokers,
             \/ \E k \in Keys : ReadKey(r, k)
             \/ RevokeRow(r) \/ DropEntry(r) \/ UnlistKey(r) \/ FailRevoke(r)
      PROVE  Kept' /\ Room'
  <2>1. ~uncounted
    BY <1>5 DEF ReadKey, RevokeRow, DropEntry, UnlistKey, FailRevoke
  <2> QED
    BY <1>5, <2>1, RevocationStep DEF LimitInv
<1>6. ASSUME NEW k \in Keys, KeyExpires(k) PROVE Kept' /\ Room'
  <2>1. \A l \in Keys : keyRow[l] = "revoked" => keyRow'[l] = "revoked"
    BY <1>6 DEF KeyExpires, KeyInv, KeyTypeOK
  <2>2. UNCHANGED <<userKeys, issued, creator, uncounted>>
    BY <1>6 DEF KeyExpires
  <2> QED
    BY <2>1, <2>2, RowStep DEF LimitInv
<1>7. CASE UNCHANGED keyVars
  <2>1. UNCHANGED <<keyRow, userKeys, issued, creator, uncounted>>
    BY <1>7 DEF keyVars
  <2> QED
    BY <2>1, RowStep DEF LimitInv
<1> QED
  BY <1>1, <1>2, <1>3, <1>4, <1>5, <1>6, <1>7 DEF KeyNext

\* No user holds more usable keys than the limit, while creations do not overlap
\* and Redis keeps the set and counts it (ApiKeysController.CreateApiKey): the
\* count is taken of the set before the key is made, and the set holds every
\* key that was handed out and is not revoked.
THEOREM KeysLimitedAlone == KeySpec => []KeyLimitHolds
<1>1. KeyInit => LimitInv
  BY FS_EmptySet, KeyAssumption, KeyRestFacts
     DEF KeyInit, LimitInv, Kept, Room, YetToAdd
<1>2. KeyInv /\ LimitInv => KeyLimitHolds
  <2> SUFFICES ASSUME KeyInv, LimitInv, ~uncounted PROVE Cardinality(Usable) <= MaxPerUser
    BY DEF KeyLimitHolds
  <2>1. Usable \subseteq userKeys
    BY DEF LimitInv, Kept, Usable
  <2>2. Cardinality(Usable) \in Nat /\ Cardinality(Usable) <= Cardinality(userKeys)
    BY <2>1, UserKeysFinite, FS_Subset, FS_CardinalityType
  <2>3. Cardinality(userKeys) <= MaxPerUser
    BY DEF LimitInv, Room
  <2> QED
    BY <2>2, <2>3, UserKeysFinite, KeyAssumption
<1> QED
  BY <1>1, <1>2, KeyInitInv, KeyStep, LimitStep, PTL DEF KeySpec
=============================================================================
