------------------------------ MODULE Membership ------------------------------
(***************************************************************************)
(* The memberships of one organisation: MembershipReviewService, the       *)
(* member operations of OrganizationService, UserEnrollmentService and     *)
(* the joining half of InvitationService, over the rows of                 *)
(* identity.memberships; the last-owner guard around a departure; and what *)
(* AccessRevoker leaves of the tokens that TokenController hands out.      *)
(*                                                                         *)
(* Every request reads the row, checks the entity, and saves it.  A save   *)
(* carries the xmin its read saw (MembershipConfiguration.cs:56), so it    *)
(* fails when another save came between; an insert fails on the unique     *)
(* index.  A departure does its save in a transaction that first locks the *)
(* active owners' rows FOR UPDATE and then counts them.                    *)
(***************************************************************************)
EXTENDS FiniteSets

CONSTANTS
  Users,       \* the people who have or ask for a membership
  Requests,    \* requests in progress at the same time
  Callers,     \* the users whose sign-ins and tokens are followed
  Creator,     \* the user who created the organisation, its first owner
  None,        \* no row; no holder of a lock
  Outdated     \* an entity whose row has been written since it was read

VARIABLES
  row,      \* the membership row of each user, or None
  req,      \* the requests
  lock,     \* the transaction holding each row FOR UPDATE, or None
  exchange, \* how far a sign-in or token exchange of each user has come
  grant,    \* whether the user has a valid authorization and refresh token
  token,    \* the user's access token for the organisation
  cut       \* a departure of the user ended after its commit, before Revoke

memberVars == <<row, req, lock, exchange, grant, token, cut>>

Rows == [status : {"Pending", "Active", "Suspended", "Denied"}, owner : BOOLEAN]

ASSUME MembershipAssumption ==
  /\ Creator \in Users /\ Callers \subseteq Users
  /\ None \notin Requests /\ None # Outdated
  /\ {None, Outdated} \cap Rows = {}

Departures == {"suspend", "remove"}
Reviews == {"approve", "deny", "clear", "reinstate"}
Admissions == {"add", "owner", "enroll", "request", "accept"}
Operations == Reviews \cup Admissions \cup Departures

Stages == {"idle", "read", "asking", "locked", "counted", "revoke"}

\* seen: the entity as it was read, or Outdated once its row has another xmin.
\* asked: the rows the locking SELECT found, while it waits for them.
Req == [op : Operations, user : Users, at : Stages,
        seen : Rows \cup {None, Outdated}, asked : SUBSET Users]

AtRest == [op |-> "add", user |-> Creator, at |-> "idle", seen |-> None, asked |-> {}]

Idle(r) == req[r].at = "idle"

IsActive(m) == m # None /\ m.status = "Active"

ActiveOwners == {u \in Users : IsActive(row[u]) /\ row[u].owner}

MembershipInit ==
  /\ row = [u \in Users |-> IF u = Creator
                            THEN [status |-> "Active", owner |-> TRUE] ELSE None]
  /\ req = [r \in Requests |-> AtRest]
  /\ lock = [u \in Users |-> None]
  /\ exchange = [u \in Users |-> "none"]
  /\ grant = [u \in Users |-> FALSE]
  /\ token = [u \in Users |-> "none"]
  /\ cut = [u \in Users |-> FALSE]

-----------------------------------------------------------------------------
(* What each operation requires of the entity, and what it makes of it.    *)

StatusOf(m) == IF m = None THEN "None" ELSE m.status

\* The statuses an operation accepts.  A denial may be spent or still standing:
\* its 30 days are not modelled, and enrolment over a denied row may happen at
\* any time.  Suspend checks its entity later, inside the guard.
Accepted(op) ==
  CASE op \in {"approve", "deny"}   -> {"Pending"}
    [] op = "clear"                 -> {"Denied"}
    [] op = "reinstate"             -> {"Suspended"}
    [] op \in {"add", "owner"}      -> {"None", "Pending", "Active", "Suspended", "Denied"}
    [] op \in {"enroll", "request"} -> {"None", "Denied"}
    [] op = "accept"                -> {"None", "Pending"}
    [] op \in Departures            -> {"Pending", "Active", "Suspended", "Denied"}

\* IsOwner is set by MarkOwner only, and survives suspension and denial.
WasOwner(m) == m # None /\ m.owner

\* Mutant: a suspension saves a status the code does not know.
SavedBarred(op, m) ==
  IF op \in {"clear", "remove"} THEN None
  ELSE [status |-> IF op = "suspend" THEN "Barred" ELSE "Active", owner |-> WasOwner(m)]

Saved(op, m) ==
  CASE op \in {"clear", "remove"} -> None
    [] op = "deny"    -> [status |-> "Denied", owner |-> WasOwner(m)]
    [] op = "request" -> [status |-> "Pending", owner |-> WasOwner(m)]
    [] op = "suspend" -> [status |-> "Suspended", owner |-> WasOwner(m)]
    [] op = "owner"   -> [status |-> "Active", owner |-> TRUE]
    [] OTHER          -> [status |-> "Active", owner |-> WasOwner(m)]

\* The save's WHERE clause (id and xmin), or the unique index, lets it through.
Current(r) ==
  /\ req[r].seen # Outdated
  /\ req[r].seen = None => row[req[r].user] = None

\* The request r, come to another stage, with the rows it waits for.
Moved(r, stage, asked) == [req EXCEPT ![r].at = stage, ![r].asked = asked]

Finished(r) == [req EXCEPT ![r] = AtRest]

\* Mutant: the row has no concurrency token.
StaleUnnoticed(rs, u) == rs

\* A committed write of u's row gives it a new xmin.
Stale(rs, u) ==
  [r \in Requests |-> IF rs[r].user = u /\ rs[r].at # "idle" /\ rs[r].seen # None
                      THEN [rs[r] EXCEPT !.seen = Outdated] ELSE rs[r]]

Unlocked(r) == [u \in Users |-> IF lock[u] = r THEN None ELSE lock[u]]

\* A lock the request's own UPDATE need not wait for.
RowFree(r) == lock[req[r].user] \in {None, r}

-----------------------------------------------------------------------------
(* Requests outside the guard.                                             *)

Begin(r, op, u) ==
  /\ Idle(r)
  /\ StatusOf(row[u]) \in Accepted(op)
  /\ req' = [req EXCEPT ![r] = [op |-> op, user |-> u, at |-> "read",
                                seen |-> row[u], asked |-> {}]]
  /\ UNCHANGED <<row, lock, exchange, grant, token, cut>>

Save(r) ==
  /\ req[r].at = "read" /\ req[r].op \notin Departures /\ RowFree(r)
  /\ \/ /\ Current(r)
        /\ row' = [row EXCEPT ![req[r].user] = Saved(req[r].op, req[r].seen)]
        /\ req' = Stale(Finished(r), req[r].user)
     \/ /\ ~Current(r)
        /\ req' = Finished(r)
        /\ row' = row
  /\ UNCHANGED <<lock, exchange, grant, token, cut>>

-----------------------------------------------------------------------------
(* Departures: LastOwnerGuard around Suspend, Leave and RemoveMember.      *)

\* The locking SELECT takes its snapshot ...
Ask(r) ==
  /\ req[r].at = "read" /\ req[r].op \in Departures
  /\ req' = Moved(r, "asking", ActiveOwners)
  /\ UNCHANGED <<row, lock, exchange, grant, token, cut>>

\* Mutant: the owners are selected without FOR UPDATE.
LockOwnersWithoutLock(r) ==
  /\ req[r].at = "asking"
  /\ req' = Moved(r, "locked", {})
  /\ UNCHANGED <<row, lock, exchange, grant, token, cut>>

\* ... waits for the rows it found, and locks those that still match.
LockOwners(r) ==
  /\ req[r].at = "asking"
  /\ \A u \in req[r].asked : lock[u] = None
  /\ lock' = [u \in Users |-> IF u \in req[r].asked \cap ActiveOwners
                              THEN r ELSE lock[u]]
  /\ req' = Moved(r, "locked", {})
  /\ UNCHANGED <<row, exchange, grant, token, cut>>

\* Mutant: the count asks whether there are owners, not whether one stays.
CountOwnersAny(r) ==
  /\ req[r].at = "locked"
  /\ \/ /\ ActiveOwners = {}
        /\ req' = Finished(r)
        /\ lock' = Unlocked(r)
     \/ /\ ActiveOwners # {}
        /\ req' = Moved(r, "counted", {})
        /\ lock' = lock
  /\ UNCHANGED <<row, exchange, grant, token, cut>>

\* The owners are counted by a second statement, with a snapshot of its own.
CountOwners(r) ==
  /\ req[r].at = "locked"
  /\ \/ /\ ActiveOwners = {req[r].user}
        /\ req' = Finished(r)
        /\ lock' = Unlocked(r)
     \/ /\ ActiveOwners # {req[r].user}
        /\ req' = Moved(r, "counted", {})
        /\ lock' = lock
  /\ UNCHANGED <<row, exchange, grant, token, cut>>

\* A token exchange that has passed the membership check when the departure
\* commits will still hand out its token.
Overtaken(u) == [exchange EXCEPT ![u] = IF @ = "checked" THEN "overtaken" ELSE @]

\* The departure and the commit.  Suspend requires an active entity.
Depart(r) ==
  LET u == req[r].user
      departs == Current(r) /\ (req[r].op = "suspend" => IsActive(req[r].seen))
  IN /\ req[r].at = "counted" /\ RowFree(r)
     /\ lock' = Unlocked(r)
     /\ \/ /\ departs
           /\ row' = [row EXCEPT ![u] = Saved(req[r].op, req[r].seen)]
           /\ req' = Stale(Moved(r, "revoke", {}), u)
           /\ exchange' = Overtaken(u)
        \/ /\ ~departs
           /\ req' = Finished(r)
           /\ UNCHANGED <<row, exchange>>
     /\ UNCHANGED <<grant, token, cut>>

\* AccessRevoker.RevokeMembershipAsync, after the commit.
Revoke(r) ==
  /\ req[r].at = "revoke"
  /\ grant' = [grant EXCEPT ![req[r].user] = FALSE]
  /\ token' = [token EXCEPT ![req[r].user] = "none"]
  /\ cut' = [cut EXCEPT ![req[r].user] = FALSE]
  /\ req' = Finished(r)
  /\ UNCHANGED <<row, lock, exchange>>

\* The execution strategy runs a transaction again that a transient fault cut
\* short.  (When Suspend has already changed the entity, the second run refuses
\* it: that is Abandon.)
Retry(r) ==
  /\ req[r].at \in {"asking", "locked", "counted"}
  /\ req' = Moved(r, "read", {})
  /\ lock' = Unlocked(r)
  /\ UNCHANGED <<row, exchange, grant, token, cut>>

\* The process stops, the caller gives up, or the commit's answer is lost and
\* the second run throws: what was committed stays, nothing more is done.
Abandon(r) ==
  /\ ~Idle(r)
  /\ cut' = [cut EXCEPT ![req[r].user] = @ \/ req[r].at = "revoke"]
  /\ req' = Finished(r)
  /\ lock' = Unlocked(r)
  /\ UNCHANGED <<row, exchange, grant, token>>

-----------------------------------------------------------------------------
(* Sign-ins and token exchanges of the members (one per user at a time).   *)

\* /connect/authorize: an active membership is admitted ...
Authorize(u) ==
  /\ exchange[u] = "none" /\ IsActive(row[u])
  /\ exchange' = [exchange EXCEPT ![u] = "admitted"]
  /\ UNCHANGED <<row, req, lock, grant, token, cut>>

\* ... and the authorization and its code are stored.
StoreGrant(u) ==
  /\ exchange[u] = "admitted"
  /\ grant' = [grant EXCEPT ![u] = TRUE]
  /\ exchange' = [exchange EXCEPT ![u] = "none"]
  /\ UNCHANGED <<row, req, lock, token, cut>>

\* /connect/token: the code or refresh token and its authorization are valid,
Redeem(u) ==
  /\ exchange[u] = "none" /\ grant[u]
  /\ exchange' = [exchange EXCEPT ![u] = "validated"]
  /\ UNCHANGED <<row, req, lock, grant, token, cut>>

\* Mutant: the exchange trusts the grant.
CheckMemberNotAtAll(u) ==
  /\ exchange[u] = "validated"
  /\ exchange' = [exchange EXCEPT ![u] = "checked"]
  /\ UNCHANGED <<row, req, lock, grant, token, cut>>

\* the membership is read,
CheckMember(u) ==
  /\ exchange[u] = "validated"
  /\ exchange' = [exchange EXCEPT ![u] = IF IsActive(row[u]) THEN "checked" ELSE "none"]
  /\ UNCHANGED <<row, req, lock, grant, token, cut>>

\* and the new tokens are stored.
Mint(u) ==
  /\ exchange[u] \in {"checked", "overtaken"}
  /\ token' = [token EXCEPT ![u] = IF exchange[u] = "checked" /\ @ # "stray"
                                   THEN "good" ELSE "stray"]
  /\ exchange' = [exchange EXCEPT ![u] = "none"]
  /\ UNCHANGED <<row, req, lock, grant, cut>>

\* Access tokens live for 15 minutes.
TokenExpires(u) ==
  /\ token[u] # "none"
  /\ token' = [token EXCEPT ![u] = "none"]
  /\ UNCHANGED <<row, req, lock, exchange, grant, cut>>

RequestStep(r) ==
  \/ Save(r) \/ Ask(r) \/ LockOwners(r) \/ CountOwners(r) \/ Depart(r) \/ Revoke(r)

MembershipNext ==
  \/ \E r \in Requests :
       \/ \E op \in Operations, u \in Users : Begin(r, op, u)
       \/ RequestStep(r) \/ Retry(r) \/ Abandon(r)
  \/ \E u \in Callers :
       \/ Authorize(u) \/ StoreGrant(u) \/ Redeem(u) \/ CheckMember(u)
       \/ Mint(u) \/ TokenExpires(u)

MembershipSpec == MembershipInit /\ [][MembershipNext]_memberVars

-----------------------------------------------------------------------------
(* What the organisation relies on.                                        *)

\* The type of the state.
MembershipTypeOK ==
  /\ row \in [Users -> Rows \cup {None}]
  /\ req \in [Requests -> Req]
  /\ lock \in [Users -> Requests \cup {None}]
  /\ exchange \in [Users -> {"none", "admitted", "validated", "checked", "overtaken"}]
  /\ grant \in [Users -> BOOLEAN]
  /\ token \in [Users -> {"none", "good", "stray"}]
  /\ cut \in [Users -> BOOLEAN]

\* An organisation that has an active owner keeps one, whatever departures,
\* reviews and admissions run at the same time: the promise of LastOwnerGuard
\* ("concurrent departures serialize").
OwnersKept == [][ActiveOwners # {} => ActiveOwners' # {}]_memberVars

\* Only an explicit review (reinstatement, or an administrator adding the user
\* or making them owner) makes a suspended member active; an invitation or an
\* enrolment that read the row before the suspension never undoes it
\* (InvitationService.ApplyMembershipAsync).
ReviewStands ==
  [][\A u \in Users :
       StatusOf(row[u]) = "Suspended" /\ IsActive(row'[u])
       => \E r \in Requests : req[r].user = u /\ req[r].at = "read"
                             /\ req[r].op \in {"reinstate", "add", "owner"}]_memberVars

\* Once a departure has run to its end, no token is left in use that a sign-in
\* or exchange obtained for the membership, save by an exchange that had read
\* the membership before the departure committed ("overtaken").
RevocationComplete ==
  \A u \in Users :
    token[u] = "good"
    => \/ IsActive(row[u]) \/ cut[u]
       \/ \E r \in Requests : req[r].at = "revoke" /\ req[r].user = u
\* The requests, whatever their reads, locks, counts and retries, change the
\* memberships as Roster does at once: a departure of an owner is let through only
\* while another active owner is there at its commit (LastOwnerGuard), and nobody
\* outside owns anything.
Members == {u \in Users : IsActive(row[u])}
SuspendedUsers == {u \in Users : StatusOf(row[u]) = "Suspended"}
Owners == {u \in Users : WasOwner(row[u])}

Roster == INSTANCE Roster WITH
            members <- Members, suspended <- SuspendedUsers, owners <- Owners
ImplementsRoster == Roster!RosterSpec
=============================================================================
