-------------------------------- MODULE Roster --------------------------------
(***************************************************************************)
(* What an organisation is promised of its members, with no requests,      *)
(* entities, locks or retries in it: every change is made at once.  Those  *)
(* outside have no membership, or one that is pending or denied, and own   *)
(* nothing.  An active owner is let go only if another one stays.          *)
(***************************************************************************)
CONSTANTS Users, Creator

VARIABLES members,    \* users with an active membership
          suspended,  \* users whose membership is suspended
          owners      \* users with the owner mark, which a suspension leaves

rosterVars == <<members, suspended, owners>>

RosterInit ==
  /\ members = {Creator} /\ owners = {Creator}
  /\ suspended = {}

Inside == members \cup suspended
ActiveOwner(u) == u \in members /\ u \in owners

\* Approval, invitation, enrolment or an administrator's addition.
Join(u) ==
  /\ u \notin Inside
  /\ members' = members \cup {u}
  /\ UNCHANGED <<suspended, owners>>

Promote(u) ==
  /\ members' = members \cup {u}
  /\ suspended' = suspended \ {u}
  /\ owners' = owners \cup {u}

\* Reinstatement, or an administrator's addition of a suspended user.
Readmit(u) ==
  /\ u \in suspended
  /\ members' = members \cup {u}
  /\ suspended' = suspended \ {u}
  /\ UNCHANGED owners

\* What LastOwnerGuard asks of a departure.
Dispensable(u) == ActiveOwner(u) => \E v \in members \cap owners : v # u

Suspend(u) ==
  /\ u \in members /\ Dispensable(u)
  /\ members' = members \ {u}
  /\ suspended' = suspended \cup {u}
  /\ UNCHANGED owners

Leave(u) ==
  /\ u \in Inside /\ Dispensable(u)
  /\ members' = members \ {u}
  /\ suspended' = suspended \ {u}
  /\ owners' = owners \ {u}

RosterNext ==
  \E u \in Users : Join(u) \/ Promote(u) \/ Readmit(u) \/ Suspend(u) \/ Leave(u)

RosterSpec == RosterInit /\ [][RosterNext]_rosterVars

\* At every moment somebody who is active owns the organisation, and nobody is
\* both admitted and suspended or owns it from outside.
Led ==
  /\ members \cap owners # {}
  /\ members \cap suspended = {}
  /\ owners \subseteq Inside
=============================================================================
