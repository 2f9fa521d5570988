---------------------------- MODULE IdentityProofs ----------------------------
(***************************************************************************)
(* The instances that TLC checks together, for every value of the          *)
(* constants: what holds of each component of MCIdentity alone holds of    *)
(* the behaviours of all of them, and so do the properties of that run.    *)
(***************************************************************************)
EXTENDS MCIdentity, MembershipProofs, SignInProofs, RevocationProofs

-----------------------------------------------------------------------------
(* The components share no variable: a step of one leaves the others as    *)
(* they are.                                                               *)

LEMMA EachInit ==
  IdentityInit =>
    /\ MembershipInit /\ LoginInit /\ KeyInit /\ OrgInit /\ MfaInit /\ InviteInit
  BY DEF IdentityInit

LEMMA EachStep ==
  ASSUME [IdentityNext]_identityVars
  PROVE  /\ [MembershipNext]_memberVars /\ [LoginNext]_loginVars /\ [KeyNext]_keyVars
         /\ [OrgNext]_orgVars /\ [MfaNext]_mfaVars /\ [InviteNext]_inviteVars
<1>1. CASE MembershipNext /\ UNCHANGED <<loginVars, keyVars, orgVars, mfaVars, inviteVars>>
  BY <1>1
<1>2. CASE LoginNext /\ UNCHANGED <<memberVars, keyVars, orgVars, mfaVars, inviteVars>>
  BY <1>2
<1>3. CASE KeyNext /\ UNCHANGED <<memberVars, loginVars, orgVars, mfaVars, inviteVars>>
  BY <1>3
<1>4. CASE OrgNext /\ UNCHANGED <<memberVars, loginVars, keyVars, mfaVars, inviteVars>>
  BY <1>4
<1>5. CASE MfaNext /\ UNCHANGED <<memberVars, loginVars, keyVars, orgVars, inviteVars>>
  BY <1>5
<1>6. CASE InviteNext /\ UNCHANGED <<memberVars, loginVars, keyVars, orgVars, mfaVars>>
  BY <1>6
<1>7. CASE UNCHANGED identityVars
  BY <1>7 DEF identityVars
<1> QED
  BY <1>1, <1>2, <1>3, <1>4, <1>5, <1>6, <1>7 DEF IdentityNext

\* Memberships, logins, keys, organisations, MFA and invitations, checked as one
\* specification, are each a behaviour of the component's own.
THEOREM EachOnItsOwn ==
  IdentitySpec =>
    /\ MembershipSpec /\ LoginSpec /\ KeySpec /\ OrgSpec /\ MfaSpec /\ InviteSpec
  BY EachInit, EachStep, PTL
  DEF IdentitySpec, MembershipSpec, LoginSpec, KeySpec, OrgSpec, MfaSpec, InviteSpec

\* Every component of the Identity module and the API keys keeps its types, whichever
\* of them takes the steps.
THEOREM IdentityTypesHold == IdentitySpec => []IdentityTypeOK
<1>1. /\ MembershipTypeOK /\ LoginTypeOK /\ KeyTypeOK
      /\ OrgTypeOK /\ MfaTypeOK /\ InviteTypeOK
      => IdentityTypeOK
  BY DEF IdentityTypeOK
<1> QED
  BY <1>1, EachOnItsOwn, MembershipTypes, LoginTypesHold, KeyTypes, OrgTypesHold,
     MfaTypesHold, InviteTypesHold, PTL

\* The rest of what TLC checks of them: revoked, ended, barred and locked-out access
\* stays so, the limits hold, codes and invitations are spent once, and no step takes
\* an organisation its last owner, lifts a suspension without a review, or loses a
\* legal hold.
THEOREM IdentityIsSafe ==
  IdentitySpec =>
    /\ [](/\ RevocationComplete /\ CappedWithoutOverlap /\ EndedSessionsUnused
          /\ RevocationDrops /\ KeyLimitHolds /\ ServedOnly
          /\ LockoutReached /\ BackupCodeOnce /\ OneOutstanding)
    /\ OwnersKept /\ ReviewStands /\ ImplementsRoster
    /\ HoldOutlivesOwner /\ SpentForMembership /\ DecidedOnce
<1>1. IdentitySpec => /\ []RevocationComplete /\ OwnersKept /\ ReviewStands
                      /\ ImplementsRoster
  BY EachOnItsOwn, RevocationHolds, LastOwnerStays, ReviewsStand, ImplementsTheRoster, PTL
<1>2. IdentitySpec => []CappedWithoutOverlap /\ []EndedSessionsUnused
  BY EachOnItsOwn, SessionsCappedAlone, EndedSessionsStayEnded, PTL
<1>3. IdentitySpec => []RevocationDrops /\ []KeyLimitHolds
  BY EachOnItsOwn, RevocationReachesCache, KeysLimitedAlone, PTL
<1>4. IdentitySpec => []ServedOnly /\ HoldOutlivesOwner
  BY EachOnItsOwn, BarredUnserved, HoldWins, PTL
<1>5. IdentitySpec => []LockoutReached /\ []BackupCodeOnce
  BY EachOnItsOwn, FailuresLockTheUser, BackupCodeSpentOnce, PTL
<1>6. IdentitySpec => []OneOutstanding /\ SpentForMembership /\ DecidedOnce
  BY EachOnItsOwn, OneInvitationOutstanding, NotSpentForNothing, DecisionIsFinal, PTL
<1> QED
  BY <1>1, <1>2, <1>3, <1>4, <1>5, <1>6, PTL
=============================================================================
