------------------------------ MODULE Invitations ------------------------------
(***************************************************************************)
(* The invitations of one email address to one organisation: the           *)
(* operations of InvitationService over identity.invitations, the sweep of *)
(* ExpiredInvitationPruningJob, and what an acceptance does to the         *)
(* membership of the user with that address (Membership has the rest).     *)
(*                                                                         *)
(* An invitation's row has no concurrency token: every save writes what it *)
(* changed over whatever the row holds by then.                            *)
(***************************************************************************)
EXTENDS Integers, FiniteSets

CONSTANTS
  Invites,   \* the rows that may be added
  Clerks,    \* requests and sweeps in progress at the same time
  NoInvite

VARIABLES
  invite,   \* the status of each row
  due,      \* the rows whose expiry has passed
  member,   \* whether the user is an active member
  clerk,    \* the requests
  crossed   \* rows decided while another request had them pending
            \* (NoInvite: two creations overlapped)

inviteVars == <<invite, due, member, clerk, crossed>>

ASSUME InviteAssumption == NoInvite \notin Invites

Tasks == {"rest", "create", "accept", "revoke", "sweep"}

\* rows: the rows read; was, joined: the row's status and expiry, and the
\* membership, as they were read.
Clerk == [task : Tasks, rows : SUBSET Invites, expired : BOOLEAN, joined : BOOLEAN]

ClerkAtRest == [task |-> "rest", rows |-> {}, expired |-> FALSE, joined |-> FALSE]

InviteInit ==
  /\ invite = [i \in Invites |-> "none"]
  /\ due = {} /\ member = FALSE /\ crossed = {}
  /\ clerk = [c \in Clerks |-> ClerkAtRest]

Pending == {i \in Invites : invite[i] = "pending"}

Takes(c, task, rows, expired) ==
  clerk' = [clerk EXCEPT ![c] =
              [task |-> task, rows |-> rows, expired |-> expired, joined |-> member]]

Rests(c) == clerk' = [clerk EXCEPT ![c] = ClerkAtRest]

\* The rows that other requests have read pending too.
HeldByOthers(c) == UNION {clerk[d].rows : d \in Clerks \ {c}}

-----------------------------------------------------------------------------

\* Mutant: a new row for every invitation.
OutstandingNone(rows) == {{}}

\* GetPendingByEmailAsync: the first pending row, expired or not, or none.
Outstanding(rows) == IF rows = {} THEN {{}} ELSE {{i} : i \in rows}

\* An active member is not invited.
AskInvite(c) ==
  /\ clerk[c].task = "rest" /\ ~member
  /\ \E rows \in Outstanding(Pending) : Takes(c, "create", rows, FALSE)
  /\ UNCHANGED <<invite, due, member, crossed>>

\* A renewal writes the new expiry only.
SaveInvite(c) ==
  /\ clerk[c].task = "create"
  /\ \/ /\ clerk[c].rows # {}
        /\ due' = due \ clerk[c].rows
        /\ UNCHANGED <<invite, crossed>>
     \/ /\ clerk[c].rows = {}
        /\ \E i \in Invites :
             /\ invite[i] = "none"
             /\ invite' = [invite EXCEPT ![i] = "pending"]
        /\ crossed' = IF \E d \in Clerks \ {c} : clerk[d].task = "create" /\ clerk[d].rows = {}
                       THEN crossed \cup {NoInvite} ELSE crossed
        /\ due' = due
  /\ Rests(c)
  /\ UNCHANGED member

\* Mutant: a decided invitation can be accepted.
AcceptableAlways(i) == invite[i] # "none"

\* Accept and Revoke require a pending row.
Decidable(i) == invite[i] = "pending"

AskAccept(c, i) ==
  /\ clerk[c].task = "rest" /\ Decidable(i)
  /\ Takes(c, "accept", {i}, i \in due)
  /\ UNCHANGED <<invite, due, member, crossed>>

\* Mutant: the invitation is saved before the membership.
AcceptedAlone(c) ==
  /\ clerk[c].task = "accept" /\ ~clerk[c].expired
  /\ invite' = [i \in Invites |-> IF i \in clerk[c].rows THEN "accepted" ELSE invite[i]]
  /\ crossed' = crossed \cup (clerk[c].rows \cap HeldByOthers(c))
  /\ Rests(c)
  /\ UNCHANGED <<due, member>>

\* One save: the unique index of memberships fails a second insert, and with it
\* the acceptance.
SaveAccept(c) ==
  /\ clerk[c].task = "accept" /\ ~clerk[c].expired
  /\ \/ /\ member => clerk[c].joined
        /\ invite' = [i \in Invites |-> IF i \in clerk[c].rows THEN "accepted" ELSE invite[i]]
        /\ member' = (member \/ ~clerk[c].joined)
        /\ crossed' = crossed \cup (clerk[c].rows \cap HeldByOthers(c))
     \/ /\ member /\ ~clerk[c].joined
        /\ UNCHANGED <<invite, member, crossed>>
  /\ Rests(c)
  /\ UNCHANGED due

AskRevoke(c, i) ==
  /\ clerk[c].task = "rest" /\ Decidable(i)
  /\ Takes(c, "revoke", {i}, FALSE)
  /\ UNCHANGED <<invite, due, member, crossed>>

SaveRevoke(c) ==
  /\ clerk[c].task = "revoke"
  /\ invite' = [i \in Invites |-> IF i \in clerk[c].rows THEN "revoked" ELSE invite[i]]
  /\ crossed' = crossed \cup (clerk[c].rows \cap HeldByOthers(c))
  /\ Rests(c)
  /\ UNCHANGED <<due, member>>

\* CleanupExpiredAsync.
ReadExpired(c) ==
  /\ clerk[c].task = "rest" /\ Pending \cap due # {}
  /\ Takes(c, "sweep", Pending \cap due, TRUE)
  /\ UNCHANGED <<invite, due, member, crossed>>

\* The sweep, or an acceptance that came too late.
SaveExpired(c) ==
  /\ clerk[c].expired
  /\ invite' = [i \in Invites |-> IF i \in clerk[c].rows THEN "expired" ELSE invite[i]]
  /\ crossed' = crossed \cup (clerk[c].rows \cap HeldByOthers(c))
  /\ Rests(c)
  /\ UNCHANGED <<due, member>>

DropTask(c) ==
  /\ clerk[c].task # "rest"
  /\ Rests(c)
  /\ UNCHANGED <<invite, due, member, crossed>>

InviteFallsDue(i) ==
  /\ invite[i] = "pending" /\ i \notin due
  /\ due' = due \cup {i}
  /\ UNCHANGED <<invite, member, clerk, crossed>>

MemberLeaves ==
  /\ member
  /\ member' = FALSE
  /\ UNCHANGED <<invite, due, clerk, crossed>>

InviteNext ==
  \/ \E c \in Clerks :
       \/ AskInvite(c) \/ SaveInvite(c) \/ SaveAccept(c) \/ SaveRevoke(c)
       \/ ReadExpired(c) \/ SaveExpired(c) \/ DropTask(c)
       \/ \E i \in Invites : AskAccept(c, i) \/ AskRevoke(c, i)
  \/ \E i \in Invites : InviteFallsDue(i)
  \/ MemberLeaves

InviteSpec == InviteInit /\ [][InviteNext]_inviteVars

-----------------------------------------------------------------------------
(* What inviters and invitees rely on.                                     *)

\* The type of the state.
InviteTypeOK ==
  /\ invite \in [Invites -> {"none", "pending", "accepted", "revoked", "expired"}]
  /\ due \subseteq Invites /\ member \in BOOLEAN
  /\ clerk \in [Clerks -> Clerk]
  /\ crossed \subseteq Invites \cup {NoInvite}

\* An invitation is spent only together with a membership ("Separate saves could
\* consume the token without granting membership"), or by a user who was a member
\* when the acceptance read it and has left since.
SpentForMembership ==
  [][\A i \in Invites :
       invite[i] # "accepted" /\ invite'[i] = "accepted"
       => member' \/ \E c \in Clerks : clerk[c].joined /\ i \in clerk[c].rows]_inviteVars

\* A revoked, expired or accepted invitation stays what it is, unless another
\* request had read it pending when it was decided.
DecidedOnce ==
  [][\A i \in Invites \ crossed :
       invite[i] \in {"accepted", "revoked", "expired"} => invite'[i] = invite[i]]_inviteVars

\* Revoking the one pending invitation leaves no other token at work: there is
\* never a second one, unless two creations overlapped.
OneOutstanding == NoInvite \notin crossed => Cardinality(Pending) <= 1
=============================================================================
