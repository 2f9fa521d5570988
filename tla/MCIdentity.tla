------------------------------ MODULE MCIdentity ------------------------------
(***************************************************************************)
(* Instances for TLC of the components of the API that guard access.  They *)
(* share no state, so they are not interleaved: a behaviour is one of one  *)
(* component, named by part, while the others stay as they start.          *)
(***************************************************************************)
EXTENDS Membership, LoginSessions, ApiKeys, OrgLifecycle, MfaLockout, Invitations, TLC

CONSTANTS
  Parts,  \* the components to check
  n1, n2, m1, m2, u1, u2

VARIABLE part

MCSids == 1..2

\* n1 and n2 stand for interchangeable requests, browsers, keys, invitations.
Interchangeable == Permutations({n1, n2})

IdentityInit ==
  /\ part \in Parts
  /\ MembershipInit /\ LoginInit /\ KeyInit /\ OrgInit /\ MfaInit /\ InviteInit

IdentityNext ==
  /\ part' = part
  /\ \/ /\ part = "membership" /\ MembershipNext
        /\ UNCHANGED <<loginVars, keyVars, orgVars, mfaVars, inviteVars>>
     \/ /\ part = "login" /\ LoginNext
        /\ UNCHANGED <<memberVars, keyVars, orgVars, mfaVars, inviteVars>>
     \/ /\ part = "keys" /\ KeyNext
        /\ UNCHANGED <<memberVars, loginVars, orgVars, mfaVars, inviteVars>>
     \/ /\ part = "organisation" /\ OrgNext
        /\ UNCHANGED <<memberVars, loginVars, keyVars, mfaVars, inviteVars>>
     \/ /\ part = "mfa" /\ MfaNext
        /\ UNCHANGED <<memberVars, loginVars, keyVars, orgVars, inviteVars>>
     \/ /\ part = "invitations" /\ InviteNext
        /\ UNCHANGED <<memberVars, loginVars, keyVars, orgVars, mfaVars>>

identityVars == <<part, memberVars, loginVars, keyVars, orgVars, mfaVars, inviteVars>>

IdentitySpec == IdentityInit /\ [][IdentityNext]_identityVars

\* The type of the state of every component, where it is not as it starts.
IdentityTypeOK ==
  /\ part = "membership"   => MembershipTypeOK
  /\ part = "login"        => LoginTypeOK
  /\ part = "keys"         => KeyTypeOK
  /\ part = "organisation" => OrgTypeOK
  /\ part = "mfa"          => MfaTypeOK
  /\ part = "invitations"  => InviteTypeOK
=============================================================================
