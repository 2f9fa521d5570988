--------------------------- MODULE MembershipProofs ----------------------------
(*****************************************************************************)
(* Proofs about Membership and Invitations, for any number of users,         *)
(* requests and invitations: the types; that an organisation never loses its *)
(* last active owner, that a suspension ends only by a review, and that a    *)
(* departure leaves no token; that the rows of an organisation are a Roster; *)
(* that an address has one invitation outstanding, decided once and not      *)
(* spent for nothing.                                                        *)
(*****************************************************************************)
EXTENDS Membership, Invitations, FiniteSetTheorems, TLAPS

Tokened == {"none", "good", "stray"}
ExchangeStages == {"none", "admitted", "validated", "checked", "overtaken"}

\* A request whose entity is the current row of an active owner, under way to
\* its departure.
Armed(r) ==
  /\ req[r].op \in Departures /\ req[r].at \in {"asking", "locked", "counted"}
  /\ req[r].seen \notin {None, Outdated} /\ IsActive(req[r].seen) /\ req[r].seen.owner

HoldingLocks(r) == Armed(r) /\ req[r].at \in {"locked", "counted"}
Asking(r) == Armed(r) /\ req[r].at = "asking"

\* An entity that is not outdated has a status the operation accepts, and is the
\* row as it stands.
Fresh ==
  \A r \in Requests :
    req[r].at # "idle" /\ req[r].seen # Outdated =>
      /\ StatusOf(req[r].seen) \in Accepted(req[r].op)
      /\ req[r].seen # None => row[req[r].user] = req[r].seen

Asked == \A r \in Requests : Asking(r) => req[r].user \in req[r].asked

Held == \A r \in Requests : HoldingLocks(r) => lock[req[r].user] = r

\* Of two departures of owners one waits for the other's row, or has not come
\* as far as the locks.
Ordered ==
  \A r, s \in Requests : r # s =>
    /\ Asking(r) /\ Asking(s) => req[r].user \in req[s].asked \/ req[s].user \in req[r].asked
    /\ HoldingLocks(r) /\ Asking(s) => req[r].user \in req[s].asked \/ lock[req[s].user] = r
    /\ ~(HoldingLocks(r) /\ HoldingLocks(s))

\* A departure that has counted the owners leaves another one behind.
Another ==
  \A r \in Requests :
    Armed(r) /\ req[r].at = "counted" => \E u \in ActiveOwners : u # req[r].user

Guarded == Asked /\ Held /\ Ordered /\ Another

-----------------------------------------------------------------------------
(* What the shorthands do to the requests.                                 *)

LEMMA RowsApart == Creator \in Users /\ None \notin Requests /\ None # Outdated
               /\ None \notin Rows /\ Outdated \notin Rows /\ Callers \subseteq Users
  BY MembershipAssumption

LEMMA RequestAtRest ==
  AtRest \in Req /\ AtRest.at = "idle" /\ AtRest.seen = None
  BY RowsApart DEF AtRest, Req, Operations, Admissions, Stages

LEMMA SavedType ==
  ASSUME NEW op \in Operations, NEW m \in Rows \cup {None}
  PROVE  Saved(op, m) \in Rows \cup {None}
<1>1. WasOwner(m) \in BOOLEAN
  BY RowsApart DEF WasOwner, Rows
<1>2. \A st \in {"Pending", "Active", "Suspended", "Denied"}, o \in BOOLEAN :
        [status |-> st, owner |-> o] \in Rows
  BY DEF Rows
<1> QED
  BY <1>1, <1>2 DEF Saved

LEMMA StaleFacts ==
  ASSUME NEW rs \in [Requests -> Req], NEW u \in Users
  PROVE  /\ Stale(rs, u) \in [Requests -> Req]
         /\ \A r \in Requests :
              /\ Stale(rs, u)[r].op = rs[r].op /\ Stale(rs, u)[r].user = rs[r].user
              /\ Stale(rs, u)[r].at = rs[r].at /\ Stale(rs, u)[r].asked = rs[r].asked
              /\ Stale(rs, u)[r].seen \in {rs[r].seen, Outdated}
              /\ rs[r].user = u /\ rs[r].at # "idle" /\ rs[r].seen # None
                 => Stale(rs, u)[r].seen = Outdated
<1>1. ASSUME NEW r \in Requests
      PROVE  /\ [rs[r] EXCEPT !.seen = Outdated] \in Req
             /\ [rs[r] EXCEPT !.seen = Outdated].op = rs[r].op
             /\ [rs[r] EXCEPT !.seen = Outdated].user = rs[r].user
             /\ [rs[r] EXCEPT !.seen = Outdated].at = rs[r].at
             /\ [rs[r] EXCEPT !.seen = Outdated].asked = rs[r].asked
             /\ [rs[r] EXCEPT !.seen = Outdated].seen = Outdated
  BY DEF Req
<1>2. ASSUME NEW r \in Requests
      PROVE  Stale(rs, u)[r] = IF rs[r].user = u /\ rs[r].at # "idle" /\ rs[r].seen # None
                               THEN [rs[r] EXCEPT !.seen = Outdated] ELSE rs[r]
  BY DEF Stale
<1> QED
  BY <1>1, <1>2 DEF Stale

LEMMA FinishedFacts ==
  ASSUME req \in [Requests -> Req], NEW r \in Requests
  PROVE  /\ Finished(r) \in [Requests -> Req] /\ Finished(r)[r] = AtRest
         /\ \A s \in Requests \ {r} : Finished(r)[s] = req[s]
  BY RequestAtRest DEF Finished

\* rs is req with r moved on.
MovedTo(rs, r, at, asked) ==
  /\ rs \in [Requests -> Req] /\ \A s \in Requests \ {r} : rs[s] = req[s]
  /\ rs[r].at = at /\ rs[r].asked = asked
  /\ rs[r].op = req[r].op /\ rs[r].user = req[r].user /\ rs[r].seen = req[r].seen

LEMMA MoveFacts ==
  ASSUME req \in [Requests -> Req], NEW r \in Requests, NEW at \in Stages,
         NEW asked \in SUBSET Users
  PROVE  MovedTo(Moved(r, at, asked), r, at, asked)
<1>1. req[r] \in Req
  OBVIOUS
<1>2. ASSUME NEW q, q = [req[r] EXCEPT !.at = at, !.asked = asked]
      PROVE  q \in Req /\ q.at = at /\ q.asked = asked
             /\ q.op = req[r].op /\ q.user = req[r].user /\ q.seen = req[r].seen
  BY <1>1, <1>2 DEF Req
<1>3. Moved(r, at, asked)[r] = [req[r] EXCEPT !.at = at, !.asked = asked]
  BY DEF Moved
<1>4. Moved(r, at, asked)
        = [s \in Requests |-> IF s = r THEN Moved(r, at, asked)[r] ELSE req[s]]
  BY DEF Moved
<1> QED
  BY <1>2, <1>3, <1>4 DEF MovedTo

LEMMA UnlockedFacts ==
  ASSUME lock \in [Users -> Requests \cup {None}], NEW r \in Requests
  PROVE  /\ Unlocked(r) \in [Users -> Requests \cup {None}]
         /\ \A u \in Users : lock[u] # r => Unlocked(r)[u] = lock[u]
  BY DEF Unlocked

-----------------------------------------------------------------------------
(* The types.                                                              *)

LEMMA TypesInit == MembershipInit => MembershipTypeOK
<1> SUFFICES ASSUME MembershipInit PROVE MembershipTypeOK
  OBVIOUS
<1>1. [status |-> "Active", owner |-> TRUE] \in Rows
  BY DEF Rows
<1> QED
  BY <1>1, RequestAtRest DEF MembershipInit, MembershipTypeOK

LEMMA BeginType ==
  ASSUME MembershipTypeOK, NEW r \in Requests, NEW op \in Operations, NEW u \in Users,
         Begin(r, op, u)
  PROVE  /\ MembershipTypeOK'
         /\ \A s \in Requests \ {r} : req'[s] = req[s]
         /\ req'[r].op = op /\ req'[r].user = u /\ req'[r].at = "read"
         /\ req'[r].seen = row[u]
<1>1. row[u] \in Rows \cup {None}
  BY DEF MembershipTypeOK
<1>2. ASSUME NEW q, q = [op |-> op, user |-> u, at |-> "read", seen |-> row[u], asked |-> {}]
      PROVE  q \in Req /\ q.op = op /\ q.user = u /\ q.at = "read" /\ q.seen = row[u]
  BY <1>1, <1>2 DEF Req, Stages
<1>3. req'[r] = [op |-> op, user |-> u, at |-> "read", seen |-> row[u], asked |-> {}]
      /\ \A s \in Requests \ {r} : req'[s] = req[s]
  BY DEF Begin, MembershipTypeOK
<1>4. req' \in [Requests -> Req]
  BY <1>2, <1>3 DEF Begin, MembershipTypeOK
<1> QED
  BY <1>2, <1>3, <1>4 DEF Begin, MembershipTypeOK

\* What a save leaves, of a review or admission and of a departure.
LEMMA SeenType ==
  ASSUME MembershipTypeOK, NEW r \in Requests
  PROVE  /\ req[r] \in Req /\ req[r].op \in Operations /\ req[r].user \in Users
         /\ req[r].at \in Stages /\ req[r].asked \in SUBSET Users
         /\ req[r].seen \in Rows \cup {None, Outdated}
         /\ Current(r) => Saved(req[r].op, req[r].seen) \in Rows \cup {None}
<1>1. /\ req[r] \in Req /\ req[r].op \in Operations /\ req[r].user \in Users
      /\ req[r].at \in Stages /\ req[r].asked \in SUBSET Users
      /\ req[r].seen \in Rows \cup {None, Outdated}
  BY DEF MembershipTypeOK, Req
<1> QED
  BY <1>1, SavedType DEF Current

LEMMA TypesStep == MembershipTypeOK /\ [MembershipNext]_memberVars => MembershipTypeOK'
<1> SUFFICES ASSUME MembershipTypeOK, [MembershipNext]_memberVars PROVE MembershipTypeOK'
  OBVIOUS
<1> USE DEF Stages
<1>1. ASSUME NEW r \in Requests, NEW op \in Operations, NEW u \in Users, Begin(r, op, u)
      PROVE  MembershipTypeOK'
  BY <1>1, BeginType
<1>2. ASSUME NEW r \in Requests, Save(r) PROVE MembershipTypeOK'
  <2>1. Finished(r) \in [Requests -> Req]
    BY FinishedFacts DEF MembershipTypeOK
  <2>2. Stale(Finished(r), req[r].user) \in [Requests -> Req]
    BY <2>1, SeenType, StaleFacts
  <2>3. req' \in [Requests -> Req] /\ row' \in [Users -> Rows \cup {None}]
    BY <1>2, <2>1, <2>2, SeenType DEF Save, MembershipTypeOK
  <2> QED
    BY <1>2, <2>3 DEF Save, MembershipTypeOK
<1>3. ASSUME NEW r \in Requests, Ask(r) PROVE MembershipTypeOK'
  <2>1. req' \in [Requests -> Req]
    BY <1>3, MoveFacts DEF Ask, MovedTo, MembershipTypeOK, ActiveOwners
  <2> QED
    BY <1>3, <2>1 DEF Ask, MembershipTypeOK
<1>4. ASSUME NEW r \in Requests, LockOwners(r) PROVE MembershipTypeOK'
  <2>1. req' \in [Requests -> Req]
    BY <1>4, MoveFacts DEF LockOwners, MovedTo, MembershipTypeOK
  <2>2. lock' \in [Users -> Requests \cup {None}]
    BY <1>4 DEF LockOwners, MembershipTypeOK
  <2> QED
    BY <1>4, <2>1, <2>2 DEF LockOwners, MembershipTypeOK
<1>5. ASSUME NEW r \in Requests, CountOwners(r) PROVE MembershipTypeOK'
  <2>1. req' \in [Requests -> Req]
    BY <1>5, MoveFacts, FinishedFacts DEF CountOwners, MovedTo, MembershipTypeOK
  <2>2. lock' \in [Users -> Requests \cup {None}]
    BY <1>5, UnlockedFacts DEF CountOwners, MembershipTypeOK
  <2> QED
    BY <1>5, <2>1, <2>2 DEF CountOwners, MembershipTypeOK
<1>6. ASSUME NEW r \in Requests, Depart(r) PROVE MembershipTypeOK'
  <2>1. Finished(r) \in [Requests -> Req] /\ Moved(r, "revoke", {}) \in [Requests -> Req]
    BY FinishedFacts, MoveFacts DEF MovedTo, MembershipTypeOK
  <2>2. Stale(Moved(r, "revoke", {}), req[r].user) \in [Requests -> Req]
    BY <2>1, SeenType, StaleFacts
  <2>3. Overtaken(req[r].user) \in [Users -> ExchangeStages]
    BY DEF Overtaken, ExchangeStages, MembershipTypeOK
  <2>4. req' \in [Requests -> Req] /\ row' \in [Users -> Rows \cup {None}]
        /\ exchange' \in [Users -> ExchangeStages]
    BY <1>6, <2>1, <2>2, <2>3, SeenType DEF Depart, MembershipTypeOK, ExchangeStages
  <2>5. lock' \in [Users -> Requests \cup {None}]
    BY <1>6, UnlockedFacts DEF Depart, MembershipTypeOK
  <2> QED
    BY <1>6, <2>4, <2>5 DEF Depart, MembershipTypeOK, ExchangeStages
<1>7. ASSUME NEW r \in Requests, Revoke(r) PROVE MembershipTypeOK'
  BY <1>7, FinishedFacts DEF Revoke, MembershipTypeOK
<1>8. ASSUME NEW r \in Requests, Retry(r) PROVE MembershipTypeOK'
  <2>1. req' \in [Requests -> Req]
    BY <1>8, MoveFacts DEF Retry, MovedTo, MembershipTypeOK
  <2>2. lock' \in [Users -> Requests \cup {None}]
    BY <1>8, UnlockedFacts DEF Retry, MembershipTypeOK
  <2> QED
    BY <1>8, <2>1, <2>2 DEF Retry, MembershipTypeOK
<1>9. ASSUME NEW r \in Requests, Abandon(r) PROVE MembershipTypeOK'
  <2>1. req' \in [Requests -> Req] /\ lock' \in [Users -> Requests \cup {None}]
    BY <1>9, FinishedFacts, UnlockedFacts DEF Abandon, MembershipTypeOK
  <2>2. cut' \in [Users -> BOOLEAN]
    <3>1. (cut[req[r].user] \/ req[r].at = "revoke") \in BOOLEAN
      OBVIOUS
    <3> QED
      BY <1>9 DEF Abandon, MembershipTypeOK
  <2> QED
    BY <1>9, <2>1, <2>2 DEF Abandon, MembershipTypeOK
<1>10. ASSUME NEW u \in Users,
              Authorize(u) \/ StoreGrant(u) \/ Redeem(u) \/ CheckMember(u)
       PROVE  MembershipTypeOK'
  BY <1>10 DEF Authorize, StoreGrant, Redeem, CheckMember, MembershipTypeOK
<1>11. ASSUME NEW u \in Users, Mint(u) \/ TokenExpires(u) PROVE MembershipTypeOK'
  BY <1>11 DEF Mint, TokenExpires, MembershipTypeOK
<1>12. CASE UNCHANGED memberVars
  BY <1>12 DEF memberVars, MembershipTypeOK
<1> QED
  BY <1>1, <1>2, <1>3, <1>4, <1>5, <1>6, <1>7, <1>8, <1>9, <1>10, <1>11, <1>12, RowsApart
     DEF MembershipNext, RequestStep

\* Whatever requests, faults and sign-ins do, the state keeps its type.
THEOREM MembershipTypes == MembershipSpec => []MembershipTypeOK
  BY TypesInit, TypesStep, PTL DEF MembershipSpec

-----------------------------------------------------------------------------
(* The last owner.                                                         *)

\* A request goes on with the entity it had, or an outdated one, or is over.
Carries(r) ==
  /\ req'[r].op = req[r].op /\ req'[r].user = req[r].user
  /\ req'[r].seen \in {req[r].seen, Outdated}

Completed(r) == req'[r].at = "idle"

\* A request whose departure, if it is still armed, has come no further.
Stays(r) ==
  \/ Completed(r)
  \/ Carries(r) /\ req'[r].at = req[r].at /\ req'[r].asked = req[r].asked

Away(r) == req'[r].at \in {"idle", "read", "revoke"}

\* Fresh survives a step that writes at most the row of u, when the requests
\* that had read that row hold an outdated entity.
LEMMA FreshKept ==
  ASSUME MembershipTypeOK, Fresh, NEW u \in Users,
         \A v \in Users \ {u} : row'[v] = row[v],
         \A r \in Requests : Completed(r) \/ (Carries(r) /\ req[r].at # "idle"),
         row'[u] = row[u] \/ \A r \in Requests :
            Completed(r) \/ req[r].user # u \/ req'[r].seen \in {None, Outdated}
  PROVE  Fresh'
<1> SUFFICES ASSUME NEW r \in Requests, req'[r].at # "idle", req'[r].seen # Outdated
             PROVE  /\ StatusOf(req'[r].seen) \in Accepted(req'[r].op)
                    /\ req'[r].seen # None => row'[req'[r].user] = req'[r].seen
  BY DEF Fresh
<1>1. /\ req[r].at # "idle" /\ req'[r].seen = req[r].seen
      /\ req'[r].op = req[r].op /\ req'[r].user = req[r].user
  BY DEF Completed, Carries
<1>2. /\ StatusOf(req[r].seen) \in Accepted(req[r].op)
      /\ req[r].seen # None => row[req[r].user] = req[r].seen
  BY <1>1 DEF Fresh
<1>3. req[r].user \in Users
  BY SeenType
<1> QED
  BY <1>1, <1>2, <1>3 DEF Completed

LEMMA ArmedStays ==
  ASSUME NEW r \in Requests, Stays(r), Armed(r)'
  PROVE  Armed(r) /\ req'[r].at = req[r].at /\ req'[r].asked = req[r].asked
         /\ req'[r].user = req[r].user
  BY DEF Armed, Stays, Completed, Carries

\* The guard survives a step that brings no departure further, takes no lock
\* from one that still has it, and ends no ownership.
LEMMA GuardedKept ==
  ASSUME Guarded, \A r \in Requests : Stays(r) \/ Away(r),
         \A r \in Requests, u \in Users : Away(r) \/ lock[u] # r \/ lock'[u] = r,
         MembershipTypeOK,
         \/ ActiveOwners \subseteq ActiveOwners'
         \/ \A r \in Requests : HoldingLocks(r) => Away(r)
  PROVE  Guarded'
<1>1. ASSUME NEW r \in Requests, Armed(r)'
      PROVE  Armed(r) /\ req'[r].at = req[r].at /\ req'[r].asked = req[r].asked
             /\ req'[r].user = req[r].user /\ ~Away(r)
  BY <1>1, ArmedStays DEF Away, Armed
<1>2. \A r \in Requests : (Asking(r)' => Asking(r)) /\ (HoldingLocks(r)' => HoldingLocks(r))
  BY <1>1 DEF Asking, HoldingLocks
<1>3. Asked'
  BY <1>1, <1>2 DEF Asked, Guarded, Asking
<1>4. \A r \in Requests : req[r].user \in Users
  BY SeenType
<1>5. Held'
  BY <1>1, <1>2, <1>4 DEF Held, Guarded, HoldingLocks
<1>6. Ordered'
  <2> SUFFICES ASSUME NEW r \in Requests, NEW s \in Requests, r # s
               PROVE  /\ Asking(r)' /\ Asking(s)' =>
                           req'[r].user \in req'[s].asked \/ req'[s].user \in req'[r].asked
                      /\ HoldingLocks(r)' /\ Asking(s)' =>
                           req'[r].user \in req'[s].asked \/ lock'[req'[s].user] = r
                      /\ ~(HoldingLocks(r)' /\ HoldingLocks(s)')
    BY DEF Ordered
  <2>1. /\ Asking(r) /\ Asking(s) => req[r].user \in req[s].asked \/ req[s].user \in req[r].asked
        /\ HoldingLocks(r) /\ Asking(s) => req[r].user \in req[s].asked \/ lock[req[s].user] = r
        /\ ~(HoldingLocks(r) /\ HoldingLocks(s))
    BY DEF Guarded, Ordered
  <2>2. (Asking(r)' \/ HoldingLocks(r)' => Armed(r)') /\ (Asking(s)' \/ HoldingLocks(s)' => Armed(s)')
    BY DEF Asking, HoldingLocks
  <2> QED
    BY <1>1, <1>2, <1>4, <2>1, <2>2
<1>7. Another'
  BY <1>1 DEF Another, Guarded, HoldingLocks
<1> QED
  BY <1>3, <1>5, <1>6, <1>7 DEF Guarded

LEMMA RestStays ==
  ASSUME MembershipTypeOK, NEW r \in Requests
  PROVE  /\ Finished(r) \in [Requests -> Req] /\ Finished(r)[r].at = "idle"
         /\ \A s \in Requests \ {r} : Finished(r)[s] = req[s]
  BY FinishedFacts, RequestAtRest DEF MembershipTypeOK

\* A grant to an active member leaves an active member, and an owner an owner.
LEMMA GrantKeeps ==
  ASSUME NEW m \in Rows, IsActive(m), NEW op \in {"add", "owner"}
  PROVE  IsActive(Saved(op, m)) /\ (m.owner => Saved(op, m).owner)
<1>1. WasOwner(m) \in BOOLEAN /\ (m.owner => WasOwner(m) = TRUE)
  <2>1. m.owner \in BOOLEAN
    BY DEF Rows
  <2> QED
    BY <2>1 DEF WasOwner, IsActive
<1>2. PICK o \in BOOLEAN : Saved(op, m) = [status |-> "Active", owner |-> o]
                          /\ (m.owner => o = TRUE)
  BY <1>1 DEF Saved
<1>3. ASSUME NEW q, q = [status |-> "Active", owner |-> o]
      PROVE  q \in Rows /\ q.status = "Active" /\ q.owner = o
  BY <1>3 DEF Rows
<1>4. Saved(op, m) \in Rows /\ Saved(op, m).status = "Active" /\ Saved(op, m).owner = o
  BY <1>2, <1>3
<1> QED
  BY <1>2, <1>4, RowsApart DEF IsActive

\* No review or admission takes an ownership away.
LEMMA SaveFacts ==
  ASSUME MembershipTypeOK, Fresh, NEW r \in Requests, Save(r)
  PROVE  /\ ActiveOwners \subseteq ActiveOwners' /\ lock' = lock
         /\ \A s \in Requests : Stays(s)
         /\ Fresh'
<1> DEFINE u == req[r].user
<1>1. u \in Users /\ req[r].op \in Operations \ Departures
  BY SeenType DEF Save
<1>2. CASE ~Current(r)
  <2>1. req' = Finished(r) /\ row' = row /\ lock' = lock
    BY <1>2 DEF Save
  <2>2. \A s \in Requests : Stays(s)
    BY <2>1, RestStays DEF Stays, Completed, Carries
  <2>3. Fresh'
    BY <2>1, RestStays DEF Fresh
  <2> QED
    BY <2>1, <2>2, <2>3 DEF ActiveOwners
<1>3. CASE Current(r)
  <2>1. /\ row' = [row EXCEPT ![u] = Saved(req[r].op, req[r].seen)]
        /\ req' = Stale(Finished(r), u) /\ lock' = lock
    BY <1>3 DEF Save
  <2>2. \A s \in Requests :
          /\ req'[s].op = Finished(r)[s].op /\ req'[s].user = Finished(r)[s].user
          /\ req'[s].at = Finished(r)[s].at /\ req'[s].asked = Finished(r)[s].asked
          /\ req'[s].seen \in {Finished(r)[s].seen, Outdated}
          /\ Finished(r)[s].user = u /\ Finished(r)[s].at # "idle" /\ Finished(r)[s].seen # None
             => req'[s].seen = Outdated
    BY <1>1, <2>1, RestStays, StaleFacts
  <2>3. \A s \in Requests : Stays(s)
    BY <2>2, RestStays DEF Stays, Completed, Carries
  <2>4. Fresh'
    <3>1. \A s \in Requests : Completed(s) \/ (Carries(s) /\ req[s].at # "idle")
      BY <2>2, RestStays DEF Completed, Carries
    <3>2. \A s \in Requests : Completed(s) \/ req[s].user # u \/ req'[s].seen \in {None, Outdated}
      BY <2>2, RestStays DEF Completed
    <3>3. \A v \in Users \ {u} : row'[v] = row[v]
      BY <2>1 DEF MembershipTypeOK
    <3> QED
      BY <1>1, <3>1, <3>2, <3>3, FreshKept
  <2>5. ActiveOwners \subseteq ActiveOwners'
    <3> SUFFICES ASSUME NEW v \in ActiveOwners PROVE v \in ActiveOwners'
      OBVIOUS
    <3>1. v \in Users /\ IsActive(row[v]) /\ row[v].owner
      BY DEF ActiveOwners
    <3>2. CASE v # u
      BY <2>1, <3>1, <3>2 DEF ActiveOwners, MembershipTypeOK
    <3>3. CASE v = u
      <4> DEFINE m == req[r].seen
      <4>1. m \notin {None, Outdated} /\ row[u] = m /\ StatusOf(m) \in Accepted(req[r].op)
        BY <1>3, <3>1, <3>3, SeenType DEF Current, Fresh, IsActive, Save
      <4>2. m # None /\ m.status = "Active" /\ m.owner
        BY <3>1, <3>3, <4>1 DEF IsActive
      <4>3. req[r].op \in {"add", "owner"}
        BY <1>1, <4>1, <4>2
           DEF StatusOf, Accepted, Operations, Reviews, Admissions, Departures
      <4>4. row'[u] = Saved(req[r].op, m)
        BY <1>1, <2>1 DEF MembershipTypeOK
      <4> QED
        BY <3>1, <3>3, <4>1, <4>3, <4>4, SeenType, GrantKeeps DEF ActiveOwners
    <3> QED
      BY <3>2, <3>3
  <2> QED
    BY <2>1, <2>3, <2>4, <2>5
<1> QED
  BY <1>2, <1>3

\* A departure that ends an ownership has counted another owner, and no other
\* departure of an owner holds locks; the rest stay as they are.
LEMMA DepartFacts ==
  ASSUME MembershipTypeOK, Fresh, Guarded, NEW r \in Requests, Depart(r)
  PROVE  Fresh' /\ Guarded' /\ (ActiveOwners # {} => ActiveOwners' # {})
<1> DEFINE u == req[r].user
           m == req[r].seen
           departs == Current(r) /\ (req[r].op = "suspend" => IsActive(m))
<1>1. u \in Users /\ req[r].at = "counted" /\ req[r].op \in Operations
  BY SeenType DEF Depart
<1>2. \A s \in Requests, v \in Users : s = r \/ lock[v] # s \/ lock'[v] = s
  BY UnlockedFacts DEF Depart, MembershipTypeOK
<1>3. CASE ~departs
  <2>1. req' = Finished(r) /\ row' = row
    BY <1>3 DEF Depart
  <2>2. \A s \in Requests : Stays(s) \/ Away(s)
    BY <2>1, RestStays DEF Stays, Away, Carries
  <2>3. Away(r)
    BY <2>1, RestStays DEF Away
  <2>4. Fresh'
    BY <2>1, RestStays DEF Fresh
  <2>5. ActiveOwners' = ActiveOwners
    BY <2>1 DEF ActiveOwners
  <2> QED
    BY <1>2, <2>2, <2>3, <2>4, <2>5, GuardedKept
<1>4. CASE departs
  <2>1. /\ row' = [row EXCEPT ![u] = Saved(req[r].op, m)]
        /\ req' = Stale(Moved(r, "revoke", {}), u)
    BY <1>4 DEF Depart
  <2>2. MovedTo(Moved(r, "revoke", {}), r, "revoke", {})
    BY MoveFacts DEF MembershipTypeOK, Stages
  <2>3. \A s \in Requests :
          LET q == Moved(r, "revoke", {})[s]
          IN /\ req'[s].op = q.op /\ req'[s].user = q.user
             /\ req'[s].at = q.at /\ req'[s].asked = q.asked
             /\ req'[s].seen \in {q.seen, Outdated}
             /\ q.user = u /\ q.at # "idle" /\ q.seen # None => req'[s].seen = Outdated
    BY <1>1, <2>1, <2>2, StaleFacts DEF MovedTo
  <2>4. /\ \A s \in Requests \ {r} : Carries(s) /\ req'[s].at = req[s].at
                                     /\ req'[s].asked = req[s].asked
        /\ Carries(r) /\ req'[r].at = "revoke"
    BY <2>2, <2>3 DEF MovedTo, Carries
  <2>5. \A s \in Requests : Stays(s) \/ Away(s)
    BY <2>4 DEF Stays, Away
  <2>6. Away(r)
    BY <2>4 DEF Away
  <2>7. Fresh'
    <3>1. \A s \in Requests : Completed(s) \/ (Carries(s) /\ req[s].at # "idle")
      BY <1>1, <2>4 DEF Completed
    <3>2. \A s \in Requests : Completed(s) \/ req[s].user # u \/ req'[s].seen \in {None, Outdated}
      BY <1>1, <2>2, <2>3, <3>1 DEF MovedTo, Completed
    <3>3. \A v \in Users \ {u} : row'[v] = row[v]
      BY <2>1 DEF MembershipTypeOK
    <3> QED
      BY <1>1, <3>1, <3>2, <3>3, FreshKept
  <2>8. ASSUME NEW v \in ActiveOwners, v \notin ActiveOwners' PROVE v = u /\ HoldingLocks(r)
    <3>1. v \in Users /\ IsActive(row[v]) /\ row[v].owner
      BY <2>8 DEF ActiveOwners
    <3>2. v = u
      BY <2>1, <2>8, <3>1 DEF ActiveOwners, MembershipTypeOK
    <3>3. m \notin {None, Outdated} /\ row[u] = m
      BY <1>1, <1>4, <3>1, <3>2, SeenType DEF Current, Fresh, IsActive
    <3>4. req[r].op \in {"add", "owner"} \cup Departures
      BY <1>1, <1>4, <3>1, <3>2, <3>3
         DEF Fresh, StatusOf, IsActive, Accepted, Operations, Reviews, Admissions, Departures
    <3>5. row'[u] = Saved(req[r].op, m)
      BY <1>1, <2>1 DEF MembershipTypeOK
    <3>6. req[r].op \notin {"add", "owner"}
      <4> SUFFICES ASSUME req[r].op \in {"add", "owner"} PROVE u \in ActiveOwners'
        BY <2>8, <3>2
      <4> QED
        BY <1>1, <3>1, <3>2, <3>3, <3>5, SeenType, GrantKeeps DEF ActiveOwners
    <3> QED
      BY <1>1, <3>1, <3>2, <3>3, <3>4, <3>6 DEF HoldingLocks, Armed, Departures
  <2>9. ActiveOwners \subseteq ActiveOwners' \/ HoldingLocks(r)
    BY <2>8
  <2>10. Guarded'
    <3>1. HoldingLocks(r) => \A s \in Requests : HoldingLocks(s) => Away(s)
      BY <2>6 DEF Guarded, Ordered
    <3> QED
      BY <1>2, <2>5, <2>6, <2>9, <3>1, GuardedKept
  <2>11. ASSUME ActiveOwners # {} PROVE ActiveOwners' # {}
    <3>1. CASE ActiveOwners \subseteq ActiveOwners'
      BY <2>11, <3>1
    <3>2. CASE HoldingLocks(r)
      <4>1. PICK v \in ActiveOwners : v # u
        BY <1>1, <3>2 DEF Guarded, Another, HoldingLocks
      <4> QED
        BY <2>8, <4>1
    <3> QED
      BY <2>9, <3>1, <3>2
  <2> QED
    BY <2>7, <2>10, <2>11
<1> QED
  BY <1>3, <1>4

\* The locking SELECT finds every other owner on its way out.
LEMMA AskFacts ==
  ASSUME MembershipTypeOK, Fresh, Guarded, NEW r \in Requests, Ask(r)
  PROVE  Fresh' /\ Guarded' /\ ActiveOwners' = ActiveOwners
<1>1. MovedTo(req', r, "asking", ActiveOwners) /\ row' = row /\ lock' = lock
  BY MoveFacts DEF Ask, MembershipTypeOK, Stages, ActiveOwners
<1>2. ActiveOwners' = ActiveOwners
  BY <1>1 DEF ActiveOwners
<1>3. Fresh'
  BY <1>1 DEF Fresh, MovedTo, Ask
<1>4. \A s \in Requests \ {r} : /\ req'[s] = req[s] /\ (Armed(s)' <=> Armed(s))
                               /\ (Asking(s)' <=> Asking(s)) /\ (HoldingLocks(s)' <=> HoldingLocks(s))
  BY <1>1 DEF MovedTo, Armed, Asking, HoldingLocks
<1>5. ~HoldingLocks(r)' /\ req'[r].asked = ActiveOwners /\ req'[r].user = req[r].user
      /\ req'[r].at = "asking"
  BY <1>1 DEF MovedTo, HoldingLocks
<1>6. \A s \in Requests : Armed(s)' => req'[s].user \in ActiveOwners
  <2> SUFFICES ASSUME NEW s \in Requests, Armed(s)' PROVE req'[s].user \in ActiveOwners
    OBVIOUS
  <2>1. req'[s].at # "idle" /\ req'[s].seen \notin {None, Outdated}
        /\ IsActive(req'[s].seen) /\ req'[s].seen.owner
    BY DEF Armed
  <2>2. row'[req'[s].user] = req'[s].seen
    BY <1>3, <2>1 DEF Fresh
  <2>3. req'[s].user \in Users
    BY <1>1, SeenType DEF MovedTo
  <2> QED
    BY <1>1, <2>1, <2>2, <2>3 DEF ActiveOwners
<1>7. \A s \in Requests : Asking(s)' => Armed(s)'
  BY DEF Asking
<1>8. \A s \in Requests : HoldingLocks(s)' => Armed(s)'
  BY DEF HoldingLocks
<1>9. Asked'
  BY <1>4, <1>5, <1>6, <1>7 DEF Asked, Guarded
<1>10. Held'
  BY <1>1, <1>4, <1>5 DEF Held, Guarded
<1>11. Ordered'
  <2> SUFFICES ASSUME NEW s \in Requests, NEW t \in Requests, s # t
               PROVE  /\ Asking(s)' /\ Asking(t)' =>
                           req'[s].user \in req'[t].asked \/ req'[t].user \in req'[s].asked
                      /\ HoldingLocks(s)' /\ Asking(t)' =>
                           req'[s].user \in req'[t].asked \/ lock'[req'[t].user] = s
                      /\ ~(HoldingLocks(s)' /\ HoldingLocks(t)')
    BY DEF Ordered
  <2>1. CASE s = r \/ t = r
    BY <1>4, <1>5, <1>6, <1>7, <1>8, <2>1
  <2>2. CASE s # r /\ t # r
    BY <1>1, <1>4, <2>2 DEF Guarded, Ordered
  <2> QED
    BY <2>1, <2>2
<1>12. Another'
  BY <1>2, <1>4, <1>5 DEF Another, Guarded
<1> QED
  BY <1>2, <1>3, <1>9, <1>10, <1>11, <1>12 DEF Guarded

\* Whoever gets the locks of the owners it found shuts every other owner out.
LEMMA LockFacts ==
  ASSUME MembershipTypeOK, Fresh, Guarded, NEW r \in Requests, LockOwners(r)
  PROVE  Fresh' /\ Guarded' /\ ActiveOwners' = ActiveOwners
<1>1. MovedTo(req', r, "locked", {}) /\ row' = row
  BY MoveFacts DEF LockOwners, MembershipTypeOK, Stages
<1>2. ActiveOwners' = ActiveOwners
  BY <1>1 DEF ActiveOwners
<1>3. Fresh'
  BY <1>1 DEF Fresh, MovedTo, LockOwners
<1>4. \A s \in Requests \ {r} : /\ req'[s] = req[s] /\ (Armed(s)' <=> Armed(s))
                               /\ (Asking(s)' <=> Asking(s)) /\ (HoldingLocks(s)' <=> HoldingLocks(s))
  BY <1>1 DEF MovedTo, Armed, Asking, HoldingLocks
<1>5. /\ ~Asking(r)' /\ (HoldingLocks(r)' => Asking(r)) /\ req'[r].user = req[r].user
      /\ req'[r].at = "locked"
  BY <1>1 DEF MovedTo, HoldingLocks, Asking, Armed, LockOwners
<1>6. \A s \in Requests : req[s].user \in Users
  BY SeenType
<1>7. \A s \in Requests : Armed(s) => req[s].user \in ActiveOwners
  BY <1>6 DEF Armed, Fresh, ActiveOwners
<1>8. \A u \in Users : /\ lock[u] # None => lock'[u] = lock[u] /\ u \notin req[r].asked
                       /\ u \in req[r].asked \cap ActiveOwners => lock'[u] = r
  BY DEF LockOwners
<1>9. \A s \in Requests : Asking(s) \/ HoldingLocks(s) => Armed(s)
  BY DEF Asking, HoldingLocks
<1>10. Asked'
  BY <1>4, <1>5 DEF Asked, Guarded
<1>11. Held'
  <2> SUFFICES ASSUME NEW s \in Requests, HoldingLocks(s)' PROVE lock'[req'[s].user] = s
    BY DEF Held
  <2>1. CASE s = r
    BY <1>5, <1>6, <1>7, <1>8, <1>9, <2>1 DEF Guarded, Asked
  <2>2. CASE s # r
    BY <1>4, <1>6, <1>8, <2>2, RowsApart DEF Guarded, Held
  <2> QED
    BY <2>1, <2>2
<1>12. Ordered'
  <2>1. ASSUME NEW s \in Requests, s # r, HoldingLocks(r)'
        PROVE  ~HoldingLocks(s)' /\ (Asking(s)' => \/ req'[r].user \in req'[s].asked
                                                   \/ lock'[req'[s].user] = r)
    <3>1. Asking(r) /\ req[r].user \in req[r].asked
      BY <1>5, <2>1 DEF Guarded, Asked
    <3>2. HoldingLocks(s) => \/ req[s].user \in req[r].asked
                             \/ lock[req[r].user] = s
      BY <2>1, <3>1 DEF Guarded, Ordered
    <3>3. HoldingLocks(s) => lock[req[s].user] = s
      BY DEF Guarded, Held
    <3>4. ~HoldingLocks(s)
      BY <1>6, <1>8, <3>1, <3>2, <3>3, RowsApart
    <3>5. Asking(s) => req[r].user \in req[s].asked \/ req[s].user \in req[r].asked
      BY <2>1, <3>1 DEF Guarded, Ordered
    <3> QED
      BY <1>4, <1>5, <1>6, <1>7, <1>8, <1>9, <2>1, <3>4, <3>5
  <2>2. ASSUME NEW s \in Requests, NEW t \in Requests, s # t, s # r, t # r
        PROVE  /\ Asking(s)' /\ Asking(t)' =>
                    req'[s].user \in req'[t].asked \/ req'[t].user \in req'[s].asked
               /\ HoldingLocks(s)' /\ Asking(t)' =>
                    req'[s].user \in req'[t].asked \/ lock'[req'[t].user] = s
               /\ ~(HoldingLocks(s)' /\ HoldingLocks(t)')
    BY <1>4, <1>6, <1>8, <2>2, RowsApart DEF Guarded, Ordered
  <2> QED
    BY <1>5, <2>1, <2>2 DEF Ordered
<1>13. Another'
  BY <1>2, <1>4, <1>5 DEF Another, Guarded
<1> QED
  BY <1>2, <1>3, <1>10, <1>11, <1>12, <1>13 DEF Guarded

LEMMA CountFacts ==
  ASSUME MembershipTypeOK, Fresh, Guarded, NEW r \in Requests, CountOwners(r)
  PROVE  Fresh' /\ Guarded' /\ ActiveOwners' = ActiveOwners
<1>1. row' = row /\ ActiveOwners' = ActiveOwners
  BY DEF CountOwners, ActiveOwners
<1>2. CASE ActiveOwners = {req[r].user}
  <2>1. req' = Finished(r) /\ lock' = Unlocked(r)
    BY <1>2 DEF CountOwners
  <2>2. \A s \in Requests : Stays(s) \/ Away(s)
    BY <2>1, RestStays DEF Stays, Away, Carries
  <2>3. \A s \in Requests, v \in Users : Away(s) \/ lock[v] # s \/ lock'[v] = s
    BY <2>1, RestStays, UnlockedFacts DEF Away, MembershipTypeOK
  <2>4. Fresh'
    BY <1>1, <2>1, RestStays DEF Fresh
  <2> QED
    BY <1>1, <2>2, <2>3, <2>4, GuardedKept
<1>3. CASE ActiveOwners # {req[r].user}
  <2>1. MovedTo(req', r, "counted", {}) /\ lock' = lock
    BY <1>3, MoveFacts DEF CountOwners, MembershipTypeOK, Stages
  <2>2. Fresh'
    BY <1>1, <2>1 DEF Fresh, MovedTo, CountOwners
  <2>3. \A s \in Requests : /\ req'[s].user = req[s].user /\ (s # r => req'[s] = req[s])
                           /\ (Armed(s)' <=> Armed(s)) /\ (Asking(s)' <=> Asking(s))
                           /\ (HoldingLocks(s)' <=> HoldingLocks(s))
    BY <2>1 DEF MovedTo, Armed, Asking, HoldingLocks, CountOwners
  <2>4. ~Asking(r)
    BY DEF Asking, CountOwners
  <2>5. Asked' /\ Held'
    BY <2>1, <2>3, <2>4 DEF Asked, Held, Guarded
  <2>6. Ordered'
    BY <2>1, <2>3, <2>4 DEF Ordered, Guarded
  <2>7. Armed(r) => \E u \in ActiveOwners : u # req[r].user
    <3>1. req[r].user \in Users
      BY SeenType
    <3>2. Armed(r) => req[r].user \in ActiveOwners
      BY <3>1 DEF Armed, Fresh, ActiveOwners
    <3> QED
      BY <1>3, <3>2
  <2>8. Another'
    BY <1>1, <2>3, <2>7 DEF Another, Guarded
  <2> QED
    BY <1>1, <2>2, <2>5, <2>6, <2>8 DEF Guarded
<1> QED
  BY <1>2, <1>3

LEMMA BeginFacts ==
  ASSUME MembershipTypeOK, Fresh, Guarded,
         NEW r \in Requests, NEW op \in Operations, NEW u \in Users, Begin(r, op, u)
  PROVE  Fresh' /\ Guarded' /\ ActiveOwners' = ActiveOwners
<1>1. /\ \A s \in Requests \ {r} : req'[s] = req[s]
      /\ req'[r].op = op /\ req'[r].user = u /\ req'[r].at = "read" /\ req'[r].seen = row[u]
  BY BeginType
<1>2. row' = row /\ lock' = lock /\ StatusOf(row[u]) \in Accepted(op) /\ req[r].at = "idle"
  BY DEF Begin, Idle
<1>3. Fresh'
  BY <1>1, <1>2 DEF Fresh
<1>4. ActiveOwners' = ActiveOwners
  BY <1>2 DEF ActiveOwners
<1>5. \A s \in Requests : Stays(s) \/ Away(s)
  BY <1>1 DEF Stays, Carries, Away
<1> QED
  BY <1>2, <1>3, <1>4, <1>5, GuardedKept

LEMMA EndFacts ==
  ASSUME MembershipTypeOK, Fresh, Guarded, NEW r \in Requests, row' = row,
         req' = Finished(r) \/ (req' = Moved(r, "read", {}) /\ req[r].at # "idle"),
         lock' \in {lock, Unlocked(r)}
  PROVE  Fresh' /\ Guarded' /\ ActiveOwners' = ActiveOwners
<1>1. /\ \A s \in Requests \ {r} : req'[s] = req[s]
      /\ \/ Completed(r)
         \/ Carries(r) /\ req'[r].at = "read" /\ req[r].at # "idle"
  BY RestStays, MoveFacts DEF MovedTo, Completed, Carries, MembershipTypeOK, Stages
<1>2. ActiveOwners' = ActiveOwners
  BY DEF ActiveOwners
<1>3. Fresh'
  BY <1>1, SeenType DEF Fresh, Completed, Carries
<1>4. \A s \in Requests : Stays(s) \/ Away(s)
  BY <1>1 DEF Stays, Carries, Away, Completed
<1>5. \A s \in Requests, v \in Users : Away(s) \/ lock[v] # s \/ lock'[v] = s
  BY <1>1, UnlockedFacts DEF Away, Completed, MembershipTypeOK
<1> QED
  BY <1>2, <1>3, <1>4, <1>5, GuardedKept

LEMMA IdleFacts ==
  ASSUME MembershipTypeOK, Fresh, Guarded, UNCHANGED <<row, req, lock>>
  PROVE  Fresh' /\ Guarded' /\ ActiveOwners' = ActiveOwners
  BY DEF Fresh, Guarded, Asked, Held, Ordered, Another, Asking, HoldingLocks, Armed, ActiveOwners

LEMMA OwnersInit == MembershipInit => Fresh /\ Guarded
  BY RequestAtRest DEF MembershipInit, Fresh, Guarded, Asked, Held, Ordered, Another,
                   Asking, HoldingLocks, Armed

LEMMA OwnersStep ==
  MembershipTypeOK /\ Fresh /\ Guarded /\ [MembershipNext]_memberVars
  => Fresh' /\ Guarded' /\ (ActiveOwners # {} => ActiveOwners' # {})
<1> SUFFICES ASSUME MembershipTypeOK, Fresh, Guarded, [MembershipNext]_memberVars
             PROVE  Fresh' /\ Guarded' /\ (ActiveOwners # {} => ActiveOwners' # {})
  OBVIOUS
<1>1. ASSUME NEW r \in Requests, NEW op \in Operations, NEW u \in Users, Begin(r, op, u)
      PROVE  Fresh' /\ Guarded' /\ ActiveOwners' = ActiveOwners
  BY <1>1, BeginFacts
<1>2. ASSUME NEW r \in Requests, Save(r)
      PROVE  Fresh' /\ Guarded' /\ ActiveOwners \subseteq ActiveOwners'
  BY <1>2, SaveFacts, GuardedKept
<1>3. ASSUME NEW r \in Requests, Ask(r)
      PROVE  Fresh' /\ Guarded' /\ ActiveOwners' = ActiveOwners
  BY <1>3, AskFacts
<1>4. ASSUME NEW r \in Requests, LockOwners(r)
      PROVE  Fresh' /\ Guarded' /\ ActiveOwners' = ActiveOwners
  BY <1>4, LockFacts
<1>5. ASSUME NEW r \in Requests, CountOwners(r)
      PROVE  Fresh' /\ Guarded' /\ ActiveOwners' = ActiveOwners
  BY <1>5, CountFacts
<1>6. ASSUME NEW r \in Requests, Depart(r)
      PROVE  Fresh' /\ Guarded' /\ (ActiveOwners # {} => ActiveOwners' # {})
  BY <1>6, DepartFacts
<1>7. ASSUME NEW r \in Requests, Revoke(r)
      PROVE  Fresh' /\ Guarded' /\ ActiveOwners' = ActiveOwners
  BY <1>7, EndFacts DEF Revoke
<1>8. ASSUME NEW r \in Requests, Retry(r)
      PROVE  Fresh' /\ Guarded' /\ ActiveOwners' = ActiveOwners
  <2>1. req[r].at # "idle" /\ row' = row /\ lock' = Unlocked(r) /\ req' = Moved(r, "read", {})
    BY <1>8 DEF Retry
  <2> QED
    BY <2>1, EndFacts
<1>9. ASSUME NEW r \in Requests, Abandon(r)
      PROVE  Fresh' /\ Guarded' /\ ActiveOwners' = ActiveOwners
  BY <1>9, EndFacts DEF Abandon
<1>10. ASSUME NEW u \in Users,
              \/ Authorize(u) \/ StoreGrant(u) \/ Redeem(u)
              \/ CheckMember(u) \/ Mint(u) \/ TokenExpires(u)
       PROVE  Fresh' /\ Guarded' /\ ActiveOwners' = ActiveOwners
  BY <1>10, IdleFacts
     DEF Authorize, StoreGrant, Redeem, CheckMember, Mint, TokenExpires
<1>11. CASE UNCHANGED memberVars
  BY <1>11, IdleFacts DEF memberVars
<1> QED
  BY <1>1, <1>2, <1>3, <1>4, <1>5, <1>6, <1>7, <1>8, <1>9, <1>10, <1>11, RowsApart
     DEF MembershipNext, RequestStep

\* No interleaving of departures, reviews, admissions and faults takes an
\* organisation's last active owner away (LastOwnerGuard).
THEOREM LastOwnerStays == MembershipSpec => OwnersKept
<1>1. MembershipInit => MembershipTypeOK /\ Fresh /\ Guarded
  BY TypesInit, OwnersInit
<1>2. MembershipTypeOK /\ Fresh /\ Guarded /\ [MembershipNext]_memberVars
      => (MembershipTypeOK /\ Fresh /\ Guarded)'
  BY TypesStep, OwnersStep
<1>3. MembershipTypeOK /\ Fresh /\ Guarded /\ [MembershipNext]_memberVars
      => [ActiveOwners # {} => ActiveOwners' # {}]_memberVars
  BY OwnersStep
<1> QED
  BY <1>1, <1>2, <1>3, PTL DEF MembershipSpec, OwnersKept

-----------------------------------------------------------------------------
(* Reviews and revocation.                                                 *)

\* Only departures go through the guard.
InGuard ==
  \A r \in Requests : req[r].at \in {"asking", "locked", "counted"} => req[r].op \in Departures

LEMMA InGuardStep ==
  MembershipTypeOK /\ Fresh /\ InGuard /\ [MembershipNext]_memberVars => InGuard'
<1> SUFFICES ASSUME MembershipTypeOK, Fresh, InGuard, [MembershipNext]_memberVars PROVE InGuard'
  OBVIOUS
<1>1. ASSUME NEW r \in Requests, NEW op \in Operations, NEW u \in Users, Begin(r, op, u)
      PROVE  InGuard'
  BY <1>1, BeginType DEF InGuard
<1>2. ASSUME NEW r \in Requests, Save(r) PROVE InGuard'
  BY <1>2, SaveFacts DEF InGuard, Stays, Completed, Carries
<1>3. ASSUME NEW r \in Requests, Ask(r) PROVE InGuard'
  <2>1. MovedTo(req', r, "asking", ActiveOwners)
    BY <1>3, MoveFacts DEF Ask, MembershipTypeOK, Stages, ActiveOwners
  <2> QED
    BY <1>3, <2>1 DEF InGuard, MovedTo, Ask
<1>4. ASSUME NEW r \in Requests, LockOwners(r) PROVE InGuard'
  <2>1. MovedTo(req', r, "locked", {})
    BY <1>4, MoveFacts DEF LockOwners, MembershipTypeOK, Stages
  <2> QED
    BY <1>4, <2>1 DEF InGuard, MovedTo, LockOwners
<1>5. ASSUME NEW r \in Requests, CountOwners(r) PROVE InGuard'
  <2>1. MovedTo(req', r, "counted", {}) \/ req' = Finished(r)
    BY <1>5, MoveFacts DEF CountOwners, MembershipTypeOK, Stages
  <2> QED
    BY <1>5, <2>1, RestStays DEF InGuard, MovedTo, CountOwners
<1>6. ASSUME NEW r \in Requests, Depart(r) PROVE InGuard'
  <2>1. CASE req' = Finished(r)
    BY <2>1, RestStays DEF InGuard
  <2>2. CASE req' = Stale(Moved(r, "revoke", {}), req[r].user)
    <3>1. MovedTo(Moved(r, "revoke", {}), r, "revoke", {})
      BY MoveFacts DEF MembershipTypeOK, Stages
    <3>2. \A s \in Requests : /\ req'[s].op = Moved(r, "revoke", {})[s].op
                             /\ req'[s].at = Moved(r, "revoke", {})[s].at
      BY <2>2, <3>1, SeenType, StaleFacts DEF MovedTo
    <3> QED
      BY <3>1, <3>2 DEF InGuard, MovedTo
  <2> QED
    BY <1>6, <2>1, <2>2 DEF Depart
<1>7. ASSUME NEW r \in Requests, Revoke(r) \/ Abandon(r) PROVE InGuard'
  BY <1>7, RestStays DEF InGuard, Revoke, Abandon
<1>8. ASSUME NEW r \in Requests, Retry(r) PROVE InGuard'
  <2>1. MovedTo(req', r, "read", {})
    BY <1>8, MoveFacts DEF Retry, MembershipTypeOK, Stages
  <2> QED
    BY <2>1 DEF InGuard, MovedTo
<1>9. ASSUME req' = req PROVE InGuard'
  BY <1>9 DEF InGuard
<1>10. ASSUME NEW u \in Users,
              \/ Authorize(u) \/ StoreGrant(u) \/ Redeem(u)
              \/ CheckMember(u) \/ Mint(u) \/ TokenExpires(u)
       PROVE  req' = req
  BY <1>10 DEF Authorize, StoreGrant, Redeem, CheckMember, Mint, TokenExpires
<1> QED
  BY <1>1, <1>2, <1>3, <1>4, <1>5, <1>6, <1>7, <1>8, <1>9, <1>10, RowsApart
     DEF MembershipNext, RequestStep, memberVars

LEMMA ReviewStep ==
  ASSUME MembershipTypeOK, Fresh, InGuard, [MembershipNext]_memberVars, NEW u \in Users,
         StatusOf(row[u]) = "Suspended", IsActive(row'[u])
  PROVE  \E r \in Requests : req[r].user = u /\ req[r].at = "read"
                            /\ req[r].op \in {"reinstate", "add", "owner"}
<1>1. row'[u] # row[u]
  BY DEF StatusOf, IsActive
<1>2. PICK r \in Requests : Save(r) \/ Depart(r)
  BY <1>1 DEF MembershipNext, RequestStep, memberVars, Begin, Ask, LockOwners, CountOwners,
     Revoke, Retry, Abandon, Authorize, StoreGrant, Redeem, CheckMember, Mint, TokenExpires
<1>3. /\ req[r].user \in Users /\ req[r].op \in Operations
      /\ req[r].seen \in Rows \cup {None, Outdated} /\ req[r].at # "idle"
  BY <1>2, SeenType DEF Save, Depart
<1>4. /\ req[r].user = u /\ Current(r)
      /\ row'[u] = Saved(req[r].op, req[r].seen)
  BY <1>1, <1>2, <1>3 DEF Save, Depart, MembershipTypeOK
<1>5. req[r].seen # Outdated /\ req[r].seen = row[u]
  BY <1>3, <1>4 DEF Current, Fresh, StatusOf
<1>6. "Suspended" \in Accepted(req[r].op)
  BY <1>3, <1>5 DEF Fresh
<1>7. req[r].op \in {"reinstate", "add", "owner"} \cup Departures
  BY <1>3, <1>6 DEF Accepted, Operations, Reviews, Admissions, Departures
<1>8. req[r].op # "remove"
  BY <1>4, RowsApart DEF Saved, IsActive
<1>9. req[r].op # "suspend"
  <2>1. req[r].op = "suspend" => Depart(r) /\ ~IsActive(req[r].seen)
    BY <1>2, <1>5 DEF Save, Departures, IsActive, StatusOf
  <2> QED
    BY <1>1, <1>4, <2>1, <1>3 DEF Depart
<1>10. req[r].at = "read"
  BY <1>2, <1>7, <1>8, <1>9 DEF Save, Depart, Departures, InGuard
<1> QED
  BY <1>4, <1>7, <1>8, <1>9, <1>10 DEF Departures

\* A suspended member is active again only by a review or an administrator's
\* grant that read the suspension (MembershipReviewService, InvitationService).
THEOREM ReviewsStand == MembershipSpec => ReviewStands
<1>1. MembershipInit => MembershipTypeOK /\ Fresh /\ Guarded /\ InGuard
  BY TypesInit, OwnersInit, RequestAtRest DEF MembershipInit, InGuard
<1>2. MembershipTypeOK /\ Fresh /\ Guarded /\ InGuard /\ [MembershipNext]_memberVars
      => (MembershipTypeOK /\ Fresh /\ Guarded /\ InGuard)'
  BY TypesStep, OwnersStep, InGuardStep
<1>3. MembershipTypeOK /\ Fresh /\ Guarded /\ InGuard /\ [MembershipNext]_memberVars
      => [\A u \in Users :
            StatusOf(row[u]) = "Suspended" /\ IsActive(row'[u])
            => \E r \in Requests : req[r].user = u /\ req[r].at = "read"
                                  /\ req[r].op \in {"reinstate", "add", "owner"}]_memberVars
  BY ReviewStep
<1> QED
  BY <1>1, <1>2, <1>3, PTL DEF MembershipSpec, ReviewStands

-----------------------------------------------------------------------------
(* The roster: Membership implements Roster.                               *)

\* The owner mark is set on an active row and outlives nothing but a suspension.
OwnersInside == \A u \in Users : WasOwner(row[u]) => StatusOf(row[u]) \in {"Active", "Suspended"}

Statuses == {"None", "Pending", "Active", "Suspended", "Denied"}

LEMMA RowFacts ==
  ASSUME NEW m \in Rows \cup {None}
  PROVE  /\ StatusOf(m) \in Statuses /\ WasOwner(m) \in BOOLEAN
         /\ IsActive(m) <=> StatusOf(m) = "Active"
         /\ m = None <=> StatusOf(m) = "None"
         /\ m = None => ~WasOwner(m)
  BY RowsApart DEF Rows, StatusOf, WasOwner, IsActive, Statuses

\* What each operation makes of a row it accepts.
LEMMA SavedFacts ==
  ASSUME NEW m \in Rows \cup {None}, NEW op \in Operations
  PROVE  /\ Saved(op, m) \in Rows \cup {None}
         /\ op \in {"clear", "remove"} => Saved(op, m) = None
         /\ op = "deny" => StatusOf(Saved(op, m)) = "Denied"
         /\ op = "request" => StatusOf(Saved(op, m)) = "Pending"
         /\ op = "suspend" => StatusOf(Saved(op, m)) = "Suspended"
         /\ op \notin {"clear", "remove", "deny", "request", "suspend"}
            => StatusOf(Saved(op, m)) = "Active"
         /\ op \notin {"clear", "remove", "owner"} => WasOwner(Saved(op, m)) = WasOwner(m)
         /\ op = "owner" => WasOwner(Saved(op, m))
<1>1. PICK o \in BOOLEAN : o = WasOwner(m)
  BY RowFacts
<1>2. ASSUME NEW s \in {"Pending", "Active", "Suspended", "Denied"}, NEW p \in BOOLEAN,
             NEW q, q = [status |-> s, owner |-> p]
      PROVE  q \in Rows /\ StatusOf(q) = s /\ WasOwner(q) = p
  <2>1. q \in Rows /\ q.status = s /\ q.owner = p
    BY <1>2 DEF Rows
  <2> QED
    BY <2>1, RowsApart DEF StatusOf, WasOwner
<1> QED
  BY <1>1, <1>2 DEF Saved

\* The only writes of rows: one row, by a save that has seen it, or by a departure
\* that has counted the owners.
LEMMA WriteFacts ==
  ASSUME MembershipTypeOK, Fresh, InGuard, [MembershipNext]_memberVars, row' # row
  PROVE  \E r \in Requests, u \in Users, op \in Operations :
           /\ req[r].user = u /\ req[r].op = op /\ StatusOf(row[u]) \in Accepted(op)
           /\ row' = [row EXCEPT ![u] = Saved(op, row[u])]
           /\ op \in Departures => req[r].at = "counted" /\ req[r].seen = row[u]
           /\ op = "suspend" => IsActive(row[u])
<1>1. PICK r \in Requests : Save(r) \/ Depart(r)
  BY DEF MembershipNext, RequestStep, memberVars, Begin, Ask, LockOwners, CountOwners,
     Revoke, Retry, Abandon, Authorize, StoreGrant, Redeem, CheckMember, Mint, TokenExpires
<1>2. /\ req[r].user \in Users /\ req[r].op \in Operations
      /\ req[r].seen \in Rows \cup {None, Outdated} /\ req[r].at # "idle"
  BY <1>1, SeenType DEF Save, Depart
<1>3. /\ Current(r) /\ row' = [row EXCEPT ![req[r].user] = Saved(req[r].op, req[r].seen)]
      /\ req[r].op \in Departures => req[r].at = "counted"
      /\ req[r].op = "suspend" => IsActive(req[r].seen)
  BY <1>1, <1>2 DEF Save, Depart, Departures, InGuard
<1>4. req[r].seen = row[req[r].user] /\ StatusOf(req[r].seen) \in Accepted(req[r].op)
  BY <1>2, <1>3 DEF Current, Fresh
<1> QED
  BY <1>2, <1>3, <1>4

LEMMA OwnersInsideStep ==
  MembershipTypeOK /\ Fresh /\ InGuard /\ OwnersInside /\ [MembershipNext]_memberVars
  => OwnersInside'
<1> SUFFICES ASSUME MembershipTypeOK, Fresh, InGuard, OwnersInside, [MembershipNext]_memberVars
             PROVE  OwnersInside'
  OBVIOUS
<1>1. CASE row' = row
  BY <1>1 DEF OwnersInside
<1>2. CASE row' # row
  <2>1. PICK r \in Requests, u \in Users, op \in Operations :
          /\ StatusOf(row[u]) \in Accepted(op)
          /\ row' = [row EXCEPT ![u] = Saved(op, row[u])]
    BY <1>2, WriteFacts
  <2>2. row[u] \in Rows \cup {None} /\ row'[u] = Saved(op, row[u])
        /\ \A v \in Users \ {u} : row'[v] = row[v]
    BY <2>1 DEF MembershipTypeOK
  <2>3. WasOwner(row[u]) => StatusOf(row[u]) \in {"Active", "Suspended"}
    BY DEF OwnersInside
  <2>4. op \in {"deny", "request"} => ~WasOwner(row[u])
    BY <2>1, <2>3 DEF Accepted, Departures
  <2>5. WasOwner(row'[u]) => StatusOf(row'[u]) \in {"Active", "Suspended"}
    BY <2>2, <2>4, SavedFacts, RowFacts
  <2> QED
    BY <2>2, <2>5 DEF OwnersInside
<1> QED
  BY <1>1, <1>2

\* A write of one row moves its user only.
LEMMA MovedMember ==
  ASSUME MembershipTypeOK, NEW u \in Users, NEW m \in Rows \cup {None},
         row' = [row EXCEPT ![u] = m]
  PROVE  /\ Members' = IF StatusOf(m) = "Active" THEN Members \cup {u} ELSE Members \ {u}
         /\ SuspendedUsers' = IF StatusOf(m) = "Suspended"
                              THEN SuspendedUsers \cup {u} ELSE SuspendedUsers \ {u}
         /\ Owners' = IF WasOwner(m) THEN Owners \cup {u} ELSE Owners \ {u}
<1>1. row'[u] = m /\ \A v \in Users \ {u} : row'[v] = row[v]
  BY DEF MembershipTypeOK
<1>2. IsActive(m) <=> StatusOf(m) = "Active"
  BY RowFacts
<1> QED
  BY <1>1, <1>2 DEF Members, SuspendedUsers, Owners

LEMMA Placed ==
  ASSUME MembershipTypeOK, NEW u \in Users
  PROVE  /\ u \in Members <=> StatusOf(row[u]) = "Active"
         /\ u \in SuspendedUsers <=> StatusOf(row[u]) = "Suspended"
         /\ u \in Owners <=> WasOwner(row[u])
  BY RowFacts DEF MembershipTypeOK, Members, SuspendedUsers, Owners

\* An owner's departure that has counted the owners is dispensable: Another.
LEMMA CountedDispensable ==
  ASSUME MembershipTypeOK, Guarded, NEW r \in Requests, NEW u \in Users,
         req[r].user = u, req[r].op \in Departures, req[r].at = "counted",
         req[r].seen = row[u]
  PROVE  Roster!Dispensable(u)
<1> SUFFICES ASSUME u \in Members, u \in Owners
             PROVE  \E v \in Members \cap Owners : v # u
  BY DEF Roster!Dispensable, Roster!ActiveOwner
<1>1. row[u] \in Rows /\ IsActive(row[u]) /\ row[u].owner
  BY DEF Members, Owners, MembershipTypeOK, WasOwner, IsActive
<1>2. Armed(r)
  BY <1>1, RowsApart DEF Armed
<1>3. PICK v \in ActiveOwners : v # u
  BY <1>2 DEF Guarded, Another
<1> QED
  BY <1>3 DEF ActiveOwners, Members, Owners, WasOwner, IsActive

LEMMA RosterInitial == MembershipInit => Roster!RosterInit /\ OwnersInside
<1> SUFFICES ASSUME MembershipInit PROVE Roster!RosterInit /\ OwnersInside
  OBVIOUS
<1>1. \A u \in Users : row[u] = IF u = Creator THEN [status |-> "Active", owner |-> TRUE] ELSE None
  BY DEF MembershipInit
<1>2. PICK m : m = [status |-> "Active", owner |-> TRUE]
  OBVIOUS
<1>3. m \in Rows /\ m.status = "Active" /\ m.owner = TRUE
  BY <1>2 DEF Rows
<1>4. m # None
  BY <1>3, RowsApart
<1>5. \A u \in Users : /\ u = Creator => IsActive(row[u]) /\ StatusOf(row[u]) = "Active"
                                         /\ WasOwner(row[u])
                       /\ u # Creator => ~IsActive(row[u]) /\ StatusOf(row[u]) = "None"
                                         /\ ~WasOwner(row[u])
  BY <1>1, <1>2, <1>3, <1>4 DEF IsActive, StatusOf, WasOwner
<1> QED
  BY <1>5, RowsApart DEF Roster!RosterInit, Members, SuspendedUsers, Owners, OwnersInside

\* Every step of Membership is one change of the roster, or none.
LEMMA RosterStep ==
  ASSUME MembershipTypeOK, Fresh, Guarded, InGuard, OwnersInside, [MembershipNext]_memberVars
  PROVE  [Roster!RosterNext]_(Roster!rosterVars)
<1>1. CASE row' = row
  BY <1>1 DEF Roster!rosterVars, Members, SuspendedUsers, Owners
<1>2. CASE row' # row
  <2>1. PICK r \in Requests, u \in Users, op \in Operations :
           /\ req[r].user = u /\ req[r].op = op /\ StatusOf(row[u]) \in Accepted(op)
           /\ row' = [row EXCEPT ![u] = Saved(op, row[u])]
           /\ op \in Departures => req[r].at = "counted" /\ req[r].seen = row[u]
           /\ op = "suspend" => IsActive(row[u])
    BY <1>2, WriteFacts
  <2> DEFINE n == Saved(op, row[u])
  <2>2. row[u] \in Rows \cup {None}
    BY DEF MembershipTypeOK
  <2>3. n \in Rows \cup {None}
    BY <2>2, SavedFacts
  <2> HIDE DEF n
  <2>4. /\ Members' = IF StatusOf(n) = "Active" THEN Members \cup {u} ELSE Members \ {u}
        /\ SuspendedUsers' = IF StatusOf(n) = "Suspended"
                             THEN SuspendedUsers \cup {u} ELSE SuspendedUsers \ {u}
        /\ Owners' = IF WasOwner(n) THEN Owners \cup {u} ELSE Owners \ {u}
    BY <2>1, <2>3, MovedMember DEF n
  <2>5. /\ u \in Members <=> StatusOf(row[u]) = "Active"
        /\ u \in SuspendedUsers <=> StatusOf(row[u]) = "Suspended"
        /\ u \in Owners <=> WasOwner(row[u])
        /\ u \in Owners => u \in Members \/ u \in SuspendedUsers
    BY Placed DEF OwnersInside
  <2>6. CASE op \in {"deny", "request", "clear"}
    <3>1. u \notin Members /\ u \notin SuspendedUsers /\ u \notin Owners
      BY <2>1, <2>5, <2>6 DEF Accepted, Departures
    <3>2. StatusOf(n) \notin {"Active", "Suspended"} /\ ~WasOwner(n)
      BY <2>2, <2>3, <2>5, <2>6, <3>1, SavedFacts, RowFacts DEF n
    <3> QED
      BY <2>4, <3>1, <3>2 DEF Roster!rosterVars
  <2>7. CASE op = "owner"
    <3>1. StatusOf(n) = "Active" /\ WasOwner(n)
      BY <2>2, <2>7, SavedFacts DEF n
    <3>2. Roster!Promote(u)
      BY <2>4, <3>1 DEF Roster!Promote
    <3> QED
      BY <3>2 DEF Roster!RosterNext
  <2>8. CASE op \in {"approve", "reinstate", "add", "enroll", "accept"}
    <3>1. StatusOf(n) = "Active" /\ WasOwner(n) = WasOwner(row[u])
      BY <2>2, <2>8, SavedFacts DEF n
    <3>2. Members' = Members \cup {u} /\ SuspendedUsers' = SuspendedUsers \ {u}
          /\ Owners' = Owners
      BY <2>4, <2>5, <3>1
    <3>3. CASE u \in SuspendedUsers
      BY <3>2, <3>3 DEF Roster!RosterNext, Roster!Readmit
    <3>4. CASE u \notin SuspendedUsers /\ u \notin Members
      BY <3>2, <3>4 DEF Roster!RosterNext, Roster!Join, Roster!Inside
    <3>5. CASE u \notin SuspendedUsers /\ u \in Members
      BY <3>2, <3>5 DEF Roster!rosterVars
    <3> QED
      BY <3>3, <3>4, <3>5
  <2>9. CASE op = "suspend"
    <3>1. StatusOf(n) = "Suspended" /\ WasOwner(n) = WasOwner(row[u])
      BY <2>2, <2>9, SavedFacts DEF n
    <3>2. u \in Members
      BY <2>1, <2>9 DEF Members
    <3>3. Roster!Dispensable(u)
      BY <2>1, <2>9, CountedDispensable DEF Departures
    <3>4. Members' = Members \ {u} /\ SuspendedUsers' = SuspendedUsers \cup {u}
          /\ Owners' = Owners
      BY <2>4, <2>5, <3>1
    <3> QED
      BY <3>2, <3>3, <3>4 DEF Roster!RosterNext, Roster!Suspend
  <2>10. CASE op = "remove"
    <3>1. StatusOf(n) = "None" /\ ~WasOwner(n)
      BY <2>2, <2>10, SavedFacts, RowFacts DEF n
    <3>2. Roster!Dispensable(u)
      BY <2>1, <2>10, CountedDispensable DEF Departures
    <3>3. Members' = Members \ {u} /\ SuspendedUsers' = SuspendedUsers \ {u}
          /\ Owners' = Owners \ {u}
      BY <2>4, <3>1
    <3>4. CASE u \in Members \cup SuspendedUsers
      BY <3>2, <3>3, <3>4 DEF Roster!RosterNext, Roster!Leave, Roster!Inside
    <3>5. CASE u \notin Members \cup SuspendedUsers
      BY <2>5, <3>3, <3>5 DEF Roster!rosterVars
    <3> QED
      BY <3>4, <3>5
  <2> QED
    BY <2>6, <2>7, <2>8, <2>9, <2>10 DEF Operations, Reviews, Admissions, Departures
<1> QED
  BY <1>1, <1>2

LEMMA RosterInvariant ==
  /\ MembershipInit => MembershipTypeOK /\ Fresh /\ Guarded /\ InGuard /\ OwnersInside
  /\ MembershipTypeOK /\ Fresh /\ Guarded /\ InGuard /\ OwnersInside /\ [MembershipNext]_memberVars
     => (MembershipTypeOK /\ Fresh /\ Guarded /\ InGuard /\ OwnersInside)'
<1>1. MembershipInit => InGuard
  BY RequestAtRest DEF MembershipInit, InGuard
<1> QED
  BY <1>1, TypesInit, OwnersInit, RosterInitial, TypesStep, OwnersStep, InGuardStep,
     OwnersInsideStep

\* The reads, locks, counts, saves, faults and retries of any number of requests
\* amount to changes made at once, each departure of an active owner with another
\* one there at that moment (LastOwnerGuard, xmin of MembershipConfiguration).
THEOREM ImplementsTheRoster == MembershipSpec => ImplementsRoster
<1>1. MembershipInit => Roster!RosterInit
  BY RosterInitial
<1>2. MembershipTypeOK /\ Fresh /\ Guarded /\ InGuard /\ OwnersInside /\ [MembershipNext]_memberVars
      => [Roster!RosterNext]_(Roster!rosterVars)
  BY RosterStep
<1> QED
  BY <1>1, <1>2, RosterInvariant, PTL DEF MembershipSpec, ImplementsRoster, Roster!RosterSpec

\* What the roster promises: from its creation on, the organisation has an active
\* owner, and nobody owns it who is neither admitted nor suspended.
LEMMA RosterLed == ASSUME Creator \in Users PROVE Roster!RosterSpec => []Roster!Led
<1>1. Roster!RosterInit => Roster!Led
  BY DEF Roster!RosterInit, Roster!Led, Roster!Inside
<1>2. Roster!Led /\ [Roster!RosterNext]_(Roster!rosterVars) => Roster!Led'
  <2> SUFFICES ASSUME Roster!Led, [Roster!RosterNext]_(Roster!rosterVars) PROVE Roster!Led'
    OBVIOUS
  <2>1. CASE UNCHANGED Roster!rosterVars
    BY <2>1 DEF Roster!rosterVars, Roster!Led, Roster!Inside
  <2>2. ASSUME NEW u \in Users, Roster!Join(u) \/ Roster!Promote(u) \/ Roster!Readmit(u)
        PROVE  Roster!Led'
    BY <2>2 DEF Roster!Join, Roster!Promote, Roster!Readmit, Roster!Led, Roster!Inside
  <2>3. ASSUME NEW u \in Users, Roster!Suspend(u) \/ Roster!Leave(u)
        PROVE  Roster!Led'
    BY <2>3 DEF Roster!Suspend, Roster!Leave, Roster!Dispensable, Roster!ActiveOwner,
                Roster!Led, Roster!Inside
  <2> QED
    BY <2>1, <2>2, <2>3 DEF Roster!RosterNext
<1> QED
  BY <1>1, <1>2, PTL DEF Roster!RosterSpec

THEOREM AlwaysLed == MembershipSpec => []Roster!Led
  BY RowsApart, RosterLed, ImplementsTheRoster, PTL DEF ImplementsRoster

-----------------------------------------------------------------------------
(* Tokens of former members.                                               *)

\* An exchange that has checked the membership is of an active member still.
CheckedActive == \A u \in Users : exchange[u] = "checked" => IsActive(row[u])

LEMMA NeverInactive ==
  ASSUME MembershipTypeOK, Fresh, InGuard, [MembershipNext]_memberVars, NEW u \in Users,
         IsActive(row[u]), ~IsActive(row'[u])
  PROVE  \E r \in Requests : Depart(r) /\ req[r].user = u /\ row' # row
<1>1. row'[u] # row[u]
  OBVIOUS
<1>2. PICK r \in Requests : Save(r) \/ Depart(r)
  BY <1>1 DEF MembershipNext, RequestStep, memberVars, Begin, Ask, LockOwners, CountOwners,
     Revoke, Retry, Abandon, Authorize, StoreGrant, Redeem, CheckMember, Mint, TokenExpires
<1>3. /\ req[r].user \in Users /\ req[r].op \in Operations
      /\ req[r].seen \in Rows \cup {None, Outdated} /\ req[r].at # "idle"
  BY <1>2, SeenType DEF Save, Depart
<1>4. /\ req[r].user = u /\ Current(r)
      /\ row'[u] = Saved(req[r].op, req[r].seen)
  BY <1>1, <1>2, <1>3 DEF Save, Depart, MembershipTypeOK
<1>5. CASE Save(r)
  <2>1. /\ req[r].seen = row[u] /\ row[u] \in Rows
        /\ "Active" \in Accepted(req[r].op)
    BY <1>3, <1>4 DEF Current, Fresh, IsActive, StatusOf
  <2>2. req[r].op \in {"add", "owner"}
    BY <1>3, <1>5, <2>1 DEF Save, Accepted, Operations, Reviews, Admissions, Departures
  <2> QED
    BY <1>3, <1>4, <2>1, <2>2, GrantKeeps
<1> QED
  BY <1>1, <1>2, <1>4, <1>5

\* A departure past its commit revokes, or is cut short.
LEMMA PendingStep ==
  ASSUME MembershipTypeOK, Fresh, [MembershipNext]_memberVars,
         NEW r \in Requests, req[r].at = "revoke"
  PROVE  \/ req'[r].at = "revoke" /\ req'[r].user = req[r].user
         \/ Revoke(r) \/ Abandon(r)
<1> DEFINE Stands == req'[r].at = "revoke" /\ req'[r].user = req[r].user
<1>1. ASSUME NEW s \in Requests, NEW op \in Operations, NEW u \in Users, Begin(s, op, u)
      PROVE  Stands
  BY <1>1, BeginType DEF Begin, Idle
<1>2. ASSUME NEW s \in Requests, Save(s) PROVE Stands
  <2>1. Stays(r) /\ r # s
    BY <1>2, SaveFacts DEF Save
  <2>2. ~Completed(r)
    <3>1. /\ Finished(s) \in [Requests -> Req] /\ Finished(s)[r] = req[r]
      BY <2>1, RestStays
    <3>2. req' = Finished(s) \/ req' = Stale(Finished(s), req[s].user)
      BY <1>2 DEF Save
    <3> QED
      BY <3>1, <3>2, SeenType, StaleFacts DEF Completed
  <2> QED
    BY <2>1, <2>2 DEF Stays, Carries
<1>3. ASSUME NEW s \in Requests, Ask(s) \/ LockOwners(s) \/ CountOwners(s) \/ Retry(s)
      PROVE  Stands
  <2>1. r # s
    BY <1>3 DEF Ask, LockOwners, CountOwners, Retry
  <2>2. PICK at \in Stages, asked \in SUBSET Users :
          req' = Moved(s, at, asked) \/ req' = Finished(s)
    BY <1>3 DEF Ask, LockOwners, CountOwners, Retry, ActiveOwners, Stages
  <2>3. req'[r] = req[r]
    BY <2>1, <2>2, RestStays, MoveFacts DEF MovedTo, MembershipTypeOK
  <2> QED
    BY <2>3
<1>4. ASSUME NEW s \in Requests, Depart(s) PROVE Stands
  <2>1. r # s
    BY <1>4 DEF Depart
  <2>2. CASE req' = Finished(s)
    BY <2>1, <2>2, RestStays
  <2>3. CASE req' = Stale(Moved(s, "revoke", {}), req[s].user)
    <3>1. MovedTo(Moved(s, "revoke", {}), s, "revoke", {})
      BY MoveFacts DEF MembershipTypeOK, Stages
    <3> QED
      BY <2>1, <2>3, <3>1, SeenType, StaleFacts DEF MovedTo
  <2> QED
    BY <1>4, <2>2, <2>3 DEF Depart
<1>5. ASSUME NEW s \in Requests, Revoke(s) \/ Abandon(s), s # r PROVE Stands
  BY <1>5, RestStays DEF Revoke, Abandon
<1>6. ASSUME req' = req PROVE Stands
  BY <1>6
<1>7. ASSUME NEW u \in Users,
              \/ Authorize(u) \/ StoreGrant(u) \/ Redeem(u)
              \/ CheckMember(u) \/ Mint(u) \/ TokenExpires(u)
       PROVE  req' = req
  BY <1>7 DEF Authorize, StoreGrant, Redeem, CheckMember, Mint, TokenExpires
<1> QED
  BY <1>1, <1>2, <1>3, <1>4, <1>5, <1>6, <1>7, RowsApart
     DEF MembershipNext, RequestStep, memberVars

\* A token is good, and an exchange past its check, only for an active member;
\* a departure that was cut stays so until another one revokes.
LEMMA TokenStep ==
  ASSUME MembershipTypeOK, [MembershipNext]_memberVars, NEW u \in Users
  PROVE  /\ exchange'[u] = "checked" => \/ exchange[u] = "checked"
                                        \/ IsActive(row[u]) /\ row' = row
         /\ token'[u] = "good" => \/ token[u] = "good"
                                  \/ exchange[u] = "checked" /\ row' = row
         /\ cut[u] /\ token'[u] = "good" => cut'[u]
<1> DEFINE Goal == /\ exchange'[u] = "checked" => \/ exchange[u] = "checked"
                                                  \/ IsActive(row[u]) /\ row' = row
                   /\ token'[u] = "good" => \/ token[u] = "good"
                                            \/ exchange[u] = "checked" /\ row' = row
                   /\ cut[u] /\ token'[u] = "good" => cut'[u]
<1>1. ASSUME UNCHANGED <<exchange, token, cut>> PROVE Goal
  BY <1>1
<1>2. ASSUME NEW r \in Requests, Depart(r) PROVE Goal
  BY <1>2, SeenType DEF Depart, Overtaken, MembershipTypeOK
<1>3. ASSUME NEW r \in Requests, Revoke(r) PROVE Goal
  BY <1>3, SeenType DEF Revoke, MembershipTypeOK
<1>4. ASSUME NEW r \in Requests, Abandon(r) PROVE Goal
  BY <1>4, SeenType DEF Abandon, MembershipTypeOK
<1>5. ASSUME NEW v \in Users, Authorize(v) \/ StoreGrant(v) \/ Redeem(v) PROVE Goal
  BY <1>5 DEF Authorize, StoreGrant, Redeem, MembershipTypeOK
<1>6. ASSUME NEW v \in Users, CheckMember(v) PROVE Goal
  BY <1>6 DEF CheckMember, MembershipTypeOK
<1>7. ASSUME NEW v \in Users, Mint(v) \/ TokenExpires(v) PROVE Goal
  BY <1>7 DEF Mint, TokenExpires, MembershipTypeOK
<1>8. ASSUME NEW r \in Requests, NEW op \in Operations, NEW v \in Users,
             \/ Begin(r, op, v) \/ Save(r) \/ Ask(r) \/ LockOwners(r)
             \/ CountOwners(r) \/ Retry(r)
      PROVE  UNCHANGED <<exchange, token, cut>>
  BY <1>8 DEF Begin, Save, Ask, LockOwners, CountOwners, Retry
<1>9. Operations # {} /\ Users # {}
  BY RowsApart DEF Operations, Reviews
<1> QED
  BY <1>1, <1>2, <1>3, <1>4, <1>5, <1>6, <1>7, <1>8, <1>9, RowsApart
     DEF MembershipNext, RequestStep, memberVars

\* What the tokens owe to the memberships.
TokensRevoked == RevocationComplete /\ CheckedActive

LEMMA RevokedStep ==
  MembershipTypeOK /\ Fresh /\ InGuard /\ TokensRevoked /\ [MembershipNext]_memberVars => TokensRevoked'
<1> SUFFICES ASSUME MembershipTypeOK, Fresh, InGuard, TokensRevoked, [MembershipNext]_memberVars,
                    NEW u \in Users
             PROVE  /\ (exchange[u] = "checked" => IsActive(row[u]))'
                    /\ token'[u] = "good" =>
                         \/ IsActive(row'[u]) \/ cut'[u]
                         \/ \E r \in Requests : req'[r].at = "revoke" /\ req'[r].user = u
  BY DEF TokensRevoked, RevocationComplete, CheckedActive
<1> DEFINE Withdrawing(r) == req[r].at = "revoke" /\ req[r].user = u
<1>1. /\ exchange[u] = "checked" => IsActive(row[u])
      /\ token[u] = "good" => IsActive(row[u]) \/ cut[u] \/ \E r \in Requests : Withdrawing(r)
  BY DEF TokensRevoked, RevocationComplete, CheckedActive
<1>2. CASE IsActive(row[u]) /\ ~IsActive(row'[u])
  <2>1. PICK r \in Requests : Depart(r) /\ req[r].user = u /\ row' # row
    BY <1>2, NeverInactive
  <2>2. req' = Stale(Moved(r, "revoke", {}), u) /\ exchange' = Overtaken(u)
    BY <2>1 DEF Depart
  <2>3. MovedTo(Moved(r, "revoke", {}), r, "revoke", {})
    BY MoveFacts DEF MembershipTypeOK, Stages
  <2>4. req'[r].at = "revoke" /\ req'[r].user = u
    BY <2>1, <2>2, <2>3, StaleFacts DEF MovedTo
  <2>5. exchange'[u] # "checked"
    BY <2>2 DEF Overtaken, MembershipTypeOK
  <2> QED
    BY <2>4, <2>5
<1>3. CASE ~(IsActive(row[u]) /\ ~IsActive(row'[u]))
  <2>1. ASSUME NEW r \in Requests, Withdrawing(r), ~(req'[r].at = "revoke" /\ req'[r].user = u)
        PROVE  cut'[u] \/ token'[u] # "good"
    <3>1. CASE Revoke(r)
      BY <2>1, <3>1 DEF Revoke, MembershipTypeOK
    <3>2. CASE Abandon(r)
      BY <2>1, <3>2 DEF Abandon, MembershipTypeOK
    <3> QED
      BY <2>1, <3>1, <3>2, PendingStep
  <2> QED
    BY <1>1, <1>3, <2>1, TokenStep
<1> QED
  BY <1>2, <1>3

\* A token that outlives a completed departure was handed out by an exchange
\* that had read the membership before it (AccessRevoker, TokenController).
THEOREM RevocationHolds == MembershipSpec => []RevocationComplete
<1>1. MembershipInit => MembershipTypeOK /\ Fresh /\ Guarded /\ InGuard /\ TokensRevoked
  BY TypesInit, OwnersInit, RequestAtRest
     DEF MembershipInit, InGuard, TokensRevoked, RevocationComplete, CheckedActive
<1>2. /\ MembershipTypeOK /\ Fresh /\ Guarded /\ InGuard /\ TokensRevoked
      /\ [MembershipNext]_memberVars
      => (MembershipTypeOK /\ Fresh /\ Guarded /\ InGuard /\ TokensRevoked)'
  BY TypesStep, OwnersStep, InGuardStep, RevokedStep
<1>3. TokensRevoked => RevocationComplete
  BY DEF TokensRevoked
<1> QED
  BY <1>1, <1>2, <1>3, PTL DEF MembershipSpec

-----------------------------------------------------------------------------
(* Invitations and enrolment.                                              *)

InviteStates == {"none", "pending", "accepted", "revoked", "expired"}

InviteTypes ==
  /\ invite \in [Invites -> InviteStates]
  /\ due \subseteq Invites /\ member \in BOOLEAN
  /\ clerk \in [Clerks -> Clerk]
  /\ crossed \subseteq Invites \cup {NoInvite}

\* A row that a request has read is pending still, or is marked as crossed.
ReadPending ==
  \A c \in Clerks : \A i \in clerk[c].rows :
    invite[i] # "none" /\ (invite[i] # "pending" => i \in crossed)

\* Who is about to add a row has seen none pending, and none has come since.
Creating(c) == clerk[c].task = "create" /\ clerk[c].rows = {}

Single ==
  NoInvite \notin crossed =>
    /\ \A i, j \in Pending : i = j
    /\ \A c \in Clerks : Creating(c) => Pending = {}

InviteInv == InviteTypes /\ ReadPending /\ Single

\* c has the task with the rows, the other requests go on as they were.
ClerkIs(c, task, rows) ==
  /\ clerk' \in [Clerks -> Clerk] /\ clerk'[c].task = task /\ clerk'[c].rows = rows
  /\ \A d \in Clerks \ {c} : clerk'[d] = clerk[d]

LEMMA ClerkFacts ==
  ASSUME InviteTypes, NEW c \in Clerks
  PROVE  /\ clerk[c] \in Clerk /\ clerk[c].rows \subseteq Invites
         /\ clerk[c].task \in Tasks /\ clerk[c].expired \in BOOLEAN /\ clerk[c].joined \in BOOLEAN
         /\ Rests(c) => ClerkIs(c, "rest", {})
<1>1. clerk[c] \in Clerk
  BY DEF InviteTypes
<1>2. ClerkAtRest \in Clerk /\ ClerkAtRest.task = "rest" /\ ClerkAtRest.rows = {}
  BY DEF ClerkAtRest, Clerk, Tasks
<1>3. Rests(c) => ClerkIs(c, "rest", {})
  BY <1>2 DEF Rests, ClerkIs, InviteTypes
<1>4. /\ clerk[c].rows \subseteq Invites /\ clerk[c].task \in Tasks
      /\ clerk[c].expired \in BOOLEAN /\ clerk[c].joined \in BOOLEAN
  BY <1>1 DEF Clerk
<1> QED
  BY <1>1, <1>3, <1>4

LEMMA TakesFacts ==
  ASSUME InviteTypes, NEW c \in Clerks, NEW task \in Tasks, NEW rows \in SUBSET Invites,
         NEW expired \in BOOLEAN, Takes(c, task, rows, expired)
  PROVE  ClerkIs(c, task, rows)
<1> DEFINE q == [task |-> task, rows |-> rows, expired |-> expired, joined |-> member]
<1>1. q \in Clerk /\ q.task = task /\ q.rows = rows
  BY DEF InviteTypes, Clerk
<1>2. clerk' = [clerk EXCEPT ![c] = q]
  BY DEF Takes
<1> HIDE DEF q
<1> QED
  BY <1>1, <1>2 DEF InviteTypes, ClerkIs

LEMMA InviteInitInv == InviteInit => InviteInv
<1> SUFFICES ASSUME InviteInit PROVE InviteInv
  OBVIOUS
<1>1. ClerkAtRest \in Clerk /\ ClerkAtRest.rows = {} /\ ClerkAtRest.task # "create"
  BY DEF ClerkAtRest, Clerk, Tasks
<1>2. InviteTypes
  BY <1>1 DEF InviteInit, InviteTypes, InviteStates
<1>3. ReadPending
  BY <1>1 DEF InviteInit, ReadPending
<1>4. Single
  BY DEF InviteInit, Single, Pending
<1> QED
  BY <1>2, <1>3, <1>4 DEF InviteInv

\* A request reads rows that are pending, every pending one if there is none to renew.
LEMMA TakeStep ==
  ASSUME InviteInv, NEW c \in Clerks, NEW task \in Tasks, NEW rows \in SUBSET Pending,
         ClerkIs(c, task, rows), UNCHANGED <<invite, due, member, crossed>>,
         task = "create" /\ rows = {} => Pending = {}
  PROVE  InviteInv'
<1>1. InviteTypes'
  BY DEF InviteInv, InviteTypes, ClerkIs
<1>2. ReadPending'
  BY DEF InviteInv, ReadPending, ClerkIs, Pending
<1>3. Single'
  BY DEF InviteInv, Single, ClerkIs, Creating, Pending
<1> QED
  BY <1>1, <1>2, <1>3 DEF InviteInv

LEMMA AskInviteStep ==
  ASSUME InviteInv, NEW c \in Clerks,
         \/ AskInvite(c) \/ ReadExpired(c)
         \/ \E i \in Invites : AskAccept(c, i) \/ AskRevoke(c, i)
  PROVE  InviteInv'
<1>1. CASE AskInvite(c)
  <2>1. PICK rows \in Outstanding(Pending) : Takes(c, "create", rows, FALSE)
    BY <1>1 DEF AskInvite
  <2>2. rows \in SUBSET Pending /\ (rows = {} => Pending = {})
    BY <2>1 DEF Outstanding
  <2>3. ClerkIs(c, "create", rows)
    BY <2>1, <2>2, TakesFacts DEF InviteInv, Tasks, Pending
  <2> QED
    BY <1>1, <2>2, <2>3, TakeStep DEF AskInvite, Tasks
<1>2. CASE ReadExpired(c)
  <2>1. ClerkIs(c, "sweep", Pending \cap due)
    BY <1>2, TakesFacts DEF ReadExpired, InviteInv, InviteTypes, Tasks
  <2> QED
    BY <1>2, <2>1, TakeStep DEF ReadExpired, Tasks
<1>3. ASSUME NEW i \in Invites, AskAccept(c, i) PROVE InviteInv'
  <2>1. {i} \in SUBSET Pending /\ {i} \in SUBSET Invites /\ (i \in due) \in BOOLEAN
    BY <1>3 DEF AskAccept, Decidable, Pending
  <2>2. ClerkIs(c, "accept", {i})
    BY <1>3, <2>1, TakesFacts DEF AskAccept, InviteInv, Tasks
  <2> QED
    BY <1>3, <2>1, <2>2, TakeStep DEF AskAccept, Tasks
<1>4. ASSUME NEW i \in Invites, AskRevoke(c, i) PROVE InviteInv'
  <2>1. {i} \in SUBSET Pending /\ {i} \in SUBSET Invites
    BY <1>4 DEF AskRevoke, Decidable, Pending
  <2>2. ClerkIs(c, "revoke", {i})
    BY <1>4, <2>1, TakesFacts DEF AskRevoke, InviteInv, Tasks
  <2> QED
    BY <1>4, <2>1, <2>2, TakeStep DEF AskRevoke, Tasks
<1> QED
  BY <1>1, <1>2, <1>3, <1>4

\* The rows of c get a status that is final, and those read by others are crossed.
Decides(c, status) ==
  /\ invite' = [i \in Invites |-> IF i \in clerk[c].rows THEN status ELSE invite[i]]
  /\ crossed' = crossed \cup (clerk[c].rows \cap HeldByOthers(c))
  /\ Rests(c)

LEMMA DecideStep ==
  ASSUME InviteInv, NEW c \in Clerks, NEW status \in {"accepted", "revoked", "expired"},
         Decides(c, status), due' = due, member' \in BOOLEAN
  PROVE  InviteInv'
<1>1. ClerkIs(c, "rest", {}) /\ clerk[c].rows \subseteq Invites
  BY ClerkFacts DEF InviteInv, Decides
<1>2. /\ invite' \in [Invites -> InviteStates]
      /\ \A i \in Invites : invite'[i] = IF i \in clerk[c].rows THEN status ELSE invite[i]
  BY DEF Decides, InviteInv, InviteTypes, InviteStates
<1>3. \A d \in Clerks \ {c} : \A i \in clerk[c].rows \cap clerk[d].rows : i \in crossed'
  BY DEF Decides, HeldByOthers
<1>4. crossed \subseteq crossed' /\ crossed' \subseteq Invites \cup {NoInvite}
      /\ (NoInvite \in crossed' => NoInvite \in crossed)
  BY <1>1, InviteAssumption DEF Decides, InviteInv, InviteTypes
<1>5. InviteTypes'
  BY <1>1, <1>2, <1>4 DEF InviteInv, InviteTypes, ClerkIs
<1>6. ReadPending'
  <2> SUFFICES ASSUME NEW d \in Clerks, NEW i \in clerk'[d].rows
               PROVE  invite'[i] # "none" /\ (invite'[i] # "pending" => i \in crossed')
    BY DEF ReadPending
  <2>1. d # c /\ clerk'[d] = clerk[d]
    BY <1>1 DEF ClerkIs
  <2>2. i \in Invites /\ invite[i] # "none" /\ (invite[i] # "pending" => i \in crossed)
    BY <2>1, ClerkFacts DEF InviteInv, ReadPending
  <2> QED
    BY <1>2, <1>3, <1>4, <2>1, <2>2
<1>7. Single'
  <2>1. Pending' \subseteq Pending
    BY <1>2 DEF Pending
  <2>2. \A d \in Clerks : Creating(d)' => Creating(d)
    BY <1>1 DEF Creating, ClerkIs
  <2> QED
    BY <1>4, <2>1, <2>2 DEF InviteInv, Single
<1> QED
  BY <1>5, <1>6, <1>7 DEF InviteInv

\* Nothing is decided: a request ends, or an expiry is set or passes.
LEMMA NoDecisionStep ==
  ASSUME InviteInv, UNCHANGED <<invite, crossed>>, due' \subseteq Invites, member' \in BOOLEAN,
         clerk' = clerk \/ \E c \in Clerks : Rests(c)
  PROVE  InviteInv'
<1>1. /\ clerk' \in [Clerks -> Clerk]
      /\ \A d \in Clerks :
           clerk'[d] = clerk[d] \/ (clerk'[d].task = "rest" /\ clerk'[d].rows = {})
  <2>1. CASE clerk' = clerk
    BY <2>1 DEF InviteInv, InviteTypes
  <2>2. ASSUME NEW c \in Clerks, Rests(c) PROVE ClerkIs(c, "rest", {})
    BY <2>2, ClerkFacts DEF InviteInv
  <2> QED
    BY <2>1, <2>2 DEF ClerkIs
<1> QED
  BY <1>1 DEF InviteInv, InviteTypes, ReadPending, Single, Creating, Pending

LEMMA AddInviteStep ==
  ASSUME InviteInv, NEW c \in Clerks, SaveInvite(c) PROVE InviteInv'
<1>0. InviteTypes /\ due \subseteq Invites /\ member \in BOOLEAN
  BY DEF InviteInv, InviteTypes
<1>1. CASE clerk[c].rows # {}
  BY <1>0, <1>1, NoDecisionStep DEF SaveInvite
<1>2. CASE clerk[c].rows = {}
  <2>1. PICK i \in Invites : invite[i] = "none" /\ invite' = [invite EXCEPT ![i] = "pending"]
    BY <1>2 DEF SaveInvite
  <2>2. /\ invite' \in [Invites -> InviteStates] /\ invite'[i] = "pending"
        /\ \A j \in Invites \ {i} : invite'[j] = invite[j]
    BY <2>1 DEF InviteInv, InviteTypes, InviteStates
  <2>3. ClerkIs(c, "rest", {}) /\ due' = due /\ member' = member /\ Creating(c)
    BY <1>2, ClerkFacts DEF InviteInv, SaveInvite, Creating
  <2>4. /\ crossed \subseteq crossed' /\ crossed' \subseteq Invites \cup {NoInvite}
        /\ (\E d \in Clerks \ {c} : Creating(d)) => NoInvite \in crossed'
    BY <1>2 DEF SaveInvite, InviteInv, InviteTypes, Creating
  <2>5. InviteTypes'
    BY <2>2, <2>3, <2>4 DEF InviteInv, InviteTypes, ClerkIs
  <2>6. ReadPending'
    <3> SUFFICES ASSUME NEW d \in Clerks, NEW j \in clerk'[d].rows
                 PROVE  invite'[j] # "none" /\ (invite'[j] # "pending" => j \in crossed')
      BY DEF ReadPending
    <3>1. clerk'[d] = clerk[d]
      BY <2>3 DEF ClerkIs
    <3>2. j \in Invites /\ invite[j] # "none" /\ (invite[j] # "pending" => j \in crossed)
      BY <3>1, ClerkFacts DEF InviteInv, ReadPending
    <3> QED
      BY <2>1, <2>2, <2>4, <3>2
  <2>7. Single'
    <3> SUFFICES ASSUME NoInvite \notin crossed'
                 PROVE  /\ \A j, k \in Pending' : j = k
                        /\ \A d \in Clerks : ~Creating(d)'
      BY DEF Single
    <3>1. Pending = {}
      BY <2>3, <2>4 DEF InviteInv, Single
    <3>2. Pending' = {i}
      BY <2>2, <3>1 DEF Pending
    <3>3. \A d \in Clerks : ~Creating(d)'
      BY <2>3, <2>4 DEF Creating, ClerkIs
    <3> QED
      BY <3>2, <3>3
  <2> QED
    BY <2>5, <2>6, <2>7 DEF InviteInv
<1> QED
  BY <1>1, <1>2

\* Every save of a decision.
LEMMA Deciding ==
  ASSUME InviteInv, NEW c \in Clerks, SaveAccept(c) \/ SaveRevoke(c) \/ SaveExpired(c)
  PROVE  /\ due' = due /\ member' \in BOOLEAN
         /\ \/ \E status \in {"accepted", "revoked", "expired"} : Decides(c, status)
            \/ UNCHANGED <<invite, crossed>> /\ Rests(c)
<1>1. member \in BOOLEAN /\ clerk[c].joined \in BOOLEAN
  BY ClerkFacts DEF InviteInv, InviteTypes
<1>2. CASE SaveAccept(c)
  BY <1>1, <1>2 DEF SaveAccept, Decides
<1>3. CASE SaveRevoke(c)
  BY <1>1, <1>3 DEF SaveRevoke, Decides
<1>4. CASE SaveExpired(c)
  BY <1>1, <1>4 DEF SaveExpired, Decides
<1> QED
  BY <1>2, <1>3, <1>4

LEMMA InviteStep == InviteInv /\ [InviteNext]_inviteVars => InviteInv'
<1> SUFFICES ASSUME InviteInv, [InviteNext]_inviteVars PROVE InviteInv'
  OBVIOUS
<1>0. due \subseteq Invites /\ member \in BOOLEAN
  BY DEF InviteInv, InviteTypes
<1>1. CASE UNCHANGED inviteVars
  BY <1>0, <1>1, NoDecisionStep DEF inviteVars
<1>2. ASSUME NEW c \in Clerks, SaveAccept(c) \/ SaveRevoke(c) \/ SaveExpired(c) PROVE InviteInv'
  BY <1>0, <1>2, Deciding, DecideStep, NoDecisionStep
<1>3. ASSUME NEW c \in Clerks, DropTask(c) PROVE InviteInv'
  BY <1>0, <1>3, NoDecisionStep DEF DropTask
<1>4. CASE (\E i \in Invites : InviteFallsDue(i)) \/ MemberLeaves
  BY <1>0, <1>4, NoDecisionStep DEF InviteFallsDue, MemberLeaves
<1> QED
  BY <1>1, <1>2, <1>3, <1>4, AskInviteStep, AddInviteStep DEF InviteNext

\* The rows, the requests and the membership keep their types (InvitationService).
THEOREM InviteTypesHold == InviteSpec => []InviteTypeOK
<1>1. InviteInv => InviteTypeOK
  BY DEF InviteInv, InviteTypes, InviteTypeOK, InviteStates
<1> QED
  BY <1>1, InviteInitInv, InviteStep, PTL DEF InviteSpec

\* As long as no two creations overlap there is at most one pending invitation for
\* the address: the creation renews the pending row where there is one.
THEOREM OneInvitationOutstanding == InviteSpec => []OneOutstanding
<1>1. InviteInv => OneOutstanding
  <2> SUFFICES ASSUME InviteInv, NoInvite \notin crossed PROVE Cardinality(Pending) <= 1
    BY DEF OneOutstanding
  <2>1. CASE Pending = {}
    BY <2>1, FS_EmptySet
  <2>2. CASE Pending # {}
    <3>1. PICK i \in Pending : Pending = {i}
      BY <2>2 DEF InviteInv, Single
    <3>2. Cardinality({i}) = 1
      BY FS_Singleton
    <3> QED
      BY <3>1, <3>2
  <2> QED
    BY <2>1, <2>2
<1> QED
  BY <1>1, InviteInitInv, InviteStep, PTL DEF InviteSpec

\* A decided invitation stays as it is, whoever tries to accept, revoke or expire it,
\* unless that request had read it pending before the decision was saved.
THEOREM DecisionIsFinal == InviteSpec => DecidedOnce
<1>1. InviteInv /\ [InviteNext]_inviteVars =>
        [\A i \in Invites \ crossed :
           invite[i] \in {"accepted", "revoked", "expired"} => invite'[i] = invite[i]]_inviteVars
  <2> SUFFICES ASSUME InviteInv, InviteNext, NEW i \in Invites \ crossed,
                      invite[i] \in {"accepted", "revoked", "expired"}
               PROVE  invite'[i] = invite[i]
    OBVIOUS
  <2>1. \A c \in Clerks : i \notin clerk[c].rows
    BY DEF InviteInv, ReadPending
  <2>2. ASSUME NEW c \in Clerks, SaveAccept(c) \/ SaveRevoke(c) \/ SaveExpired(c)
        PROVE  invite'[i] = invite[i]
    BY <2>1, <2>2, Deciding DEF Decides
  <2>3. ASSUME NEW c \in Clerks, SaveInvite(c) PROVE invite'[i] = invite[i]
    BY <2>3 DEF SaveInvite, InviteInv, InviteTypes
  <2> QED
    BY <2>2, <2>3 DEF InviteNext, AskInvite, AskAccept, AskRevoke, ReadExpired, DropTask,
                      InviteFallsDue, MemberLeaves
<1> QED
  BY <1>1, InviteInitInv, InviteStep, PTL DEF InviteSpec, DecidedOnce

\* An invitation is not spent without the membership it is for: both are in one save
\* of AcceptInvitationAsync.
THEOREM NotSpentForNothing == InviteSpec => SpentForMembership
<1>1. InviteInv /\ [InviteNext]_inviteVars =>
        [\A i \in Invites :
           invite[i] # "accepted" /\ invite'[i] = "accepted"
           => member' \/ \E c \in Clerks : clerk[c].joined /\ i \in clerk[c].rows]_inviteVars
  <2> SUFFICES ASSUME InviteInv, InviteNext, NEW i \in Invites,
                      invite[i] # "accepted", invite'[i] = "accepted"
               PROVE  member' \/ \E c \in Clerks : clerk[c].joined /\ i \in clerk[c].rows
    OBVIOUS
  <2>1. \A c \in Clerks : clerk[c].joined \in BOOLEAN
    BY ClerkFacts DEF InviteInv
  <2>2. ASSUME NEW c \in Clerks, SaveAccept(c)
        PROVE  member' \/ \E d \in Clerks : clerk[d].joined /\ i \in clerk[d].rows
    <3>1. i \in clerk[c].rows /\ member' = (member \/ ~clerk[c].joined)
      BY <2>2 DEF SaveAccept
    <3> QED
      BY <2>1, <3>1
  <2>3. \A c \in Clerks : ~SaveRevoke(c) /\ ~SaveExpired(c)
    BY DEF SaveRevoke, SaveExpired
  <2>4. \A c \in Clerks : ~SaveInvite(c)
    BY DEF SaveInvite, InviteInv, InviteTypes
  <2> QED
    BY <2>2, <2>3, <2>4 DEF InviteNext, AskInvite, AskAccept, AskRevoke, ReadExpired, DropTask,
                            InviteFallsDue, MemberLeaves
<1> QED
  BY <1>1, InviteInitInv, InviteStep, PTL DEF InviteSpec, SpentForMembership
=============================================================================
