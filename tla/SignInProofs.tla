----------------------------- MODULE SignInProofs ------------------------------
(*****************************************************************************)
(* Proofs about LoginSessions and MfaLockout, for any number of sessions,    *)
(* browsers, requests and verifiers: the types; that an ended session renews *)
(* nothing, and that logins that do not overlap keep to the cap; that a      *)
(* backup code is spent once, and that enough failures lock the user.        *)
(*****************************************************************************)
EXTENDS LoginSessions, MfaLockout, FiniteSetTheorems, WellFoundedInduction, TLAPS

LoginTypes ==
  /\ ledger \in [Sids -> RowStates]
  /\ sidGrant \in [Sids -> {"none", "good", "stray"}]
  /\ cookie \in [Browsers -> Sids \cup {NoSid}]
  /\ login \in [Browsers -> Login]
  /\ ender \in [Enders -> Ender]
  /\ overlapped \in BOOLEAN

\* Who is past its first step names a session that was created.
SidsNamed ==
  /\ \A b \in Browsers :
       login[b].at \in {"evict", "admitted", "overtaken"} => login[b].sid \in Sids
  /\ \A e \in Enders : ender[e].at # "idle" => ender[e].sid \in Sids

\* The row of an admitted sign-in has not been revoked since it was found live.
AdmittedAlive ==
  \A b \in Browsers : login[b].at = "admitted" => ledger[login[b].sid] # "revoked"

\* What is being ended, and what has been, keeps no grant but stray ones.
Unused(s) == sidGrant[s] # "good"

EndingUnused == \A s \in Sids : EndingUnderWay(s) => Unused(s)

EndedUnused == \A s \in Sids : ledger[s] = "revoked" => Unused(s)

LoginInv == LoginTypes /\ SidsNamed /\ AdmittedAlive /\ EndingUnused /\ EndedUnused

-----------------------------------------------------------------------------
\* b is at a stage with sid s; other sign-ins are where they were, or overtaken.
LoginIs(b, at, s) ==
  /\ login' \in [Browsers -> Login] /\ login'[b].at = at /\ login'[b].sid = s
  /\ \A c \in Browsers \ {b} : login'[c] = login[c]

LEMMA LoginFacts ==
  ASSUME LoginTypes, NEW b \in Browsers, NEW at \in LoginStages, NEW s \in Sids \cup {NoSid}
  PROVE  /\ [login EXCEPT ![b] = [at |-> at, sid |-> s]] = login' => LoginIs(b, at, s)
         /\ [at |-> at, sid |-> s] \in Login
<1> DEFINE q == [at |-> at, sid |-> s]
<1>1. q \in Login /\ q.at = at /\ q.sid = s
  BY DEF Login
<1> HIDE DEF q
<1>2. [login EXCEPT ![b] = q] = login' => LoginIs(b, at, s)
  BY <1>1 DEF LoginTypes, LoginIs
<1> QED
  BY <1>1, <1>2 DEF q

LEMMA LoginTyped ==
  ASSUME LoginTypes
  PROVE  /\ \A b \in Browsers : login[b] \in Login /\ login[b].at \in LoginStages
                                /\ login[b].sid \in Sids \cup {NoSid}
         /\ \A e \in Enders : ender[e] \in Ender /\ ender[e].sid \in Sids \cup {NoSid}
<1>1. \A b \in Browsers : login[b] \in Login
  BY DEF LoginTypes
<1>2. \A e \in Enders : ender[e] \in Ender
  BY DEF LoginTypes
<1> QED
  BY <1>1, <1>2 DEF Login, Ender

\* The stage and the session of every sign-in after those of s were overtaken.
LEMMA OvertakeFacts ==
  ASSUME LoginTypes, NEW s, NEW ls \in [Browsers -> Login]
  PROVE  /\ Overtake(ls, s) \in [Browsers -> Login]
         /\ \A b \in Browsers :
              /\ Overtake(ls, s)[b].sid = ls[b].sid
              /\ Overtake(ls, s)[b].at = ls[b].at
                 \/ (ls[b].at = "admitted" /\ ls[b].sid = s /\ Overtake(ls, s)[b].at = "overtaken")
              /\ Overtake(ls, s)[b].at = "admitted" => ls[b].sid # s
<1> SUFFICES ASSUME NEW b \in Browsers
             PROVE  /\ Overtake(ls, s)[b] \in Login
                    /\ Overtake(ls, s)[b].sid = ls[b].sid
                    /\ Overtake(ls, s)[b].at = ls[b].at
                       \/ (ls[b].at = "admitted" /\ ls[b].sid = s /\ Overtake(ls, s)[b].at = "overtaken")
                    /\ Overtake(ls, s)[b].at = "admitted" => ls[b].sid # s
  BY DEF Overtake
<1>1. Overtake(ls, s)[b] = IF ls[b].at = "admitted" /\ ls[b].sid = s
                           THEN [ls[b] EXCEPT !.at = "overtaken"] ELSE ls[b]
  BY DEF Overtake
<1>2. ls[b] \in Login
  OBVIOUS
<1>3. \A q \in Login : /\ [q EXCEPT !.at = "overtaken"] \in Login
                       /\ [q EXCEPT !.at = "overtaken"].at = "overtaken"
                       /\ [q EXCEPT !.at = "overtaken"].sid = q.sid
  BY DEF Login, LoginStages
<1> QED
  BY <1>1, <1>2, <1>3

EnderIs(e, at, s) ==
  /\ ender' \in [Enders -> Ender] /\ ender'[e].at = at /\ ender'[e].sid = s
  /\ \A d \in Enders \ {e} : ender'[d] = ender[d]

LEMMA EnderFacts ==
  ASSUME LoginTypes, NEW e \in Enders
  PROVE  /\ \A at \in {"idle", "read", "scanned"}, s \in Sids \cup {NoSid} :
              ender' = [ender EXCEPT ![e] = [at |-> at, sid |-> s]] => EnderIs(e, at, s)
         /\ ender' = [ender EXCEPT ![e].at = "scanned"] => EnderIs(e, "scanned", ender[e].sid)
<1>1. ASSUME NEW at \in {"idle", "read", "scanned"}, NEW s \in Sids \cup {NoSid},
             ender' = [ender EXCEPT ![e] = [at |-> at, sid |-> s]]
      PROVE  EnderIs(e, at, s)
  <2> DEFINE q == [at |-> at, sid |-> s]
  <2>1. q \in Ender /\ q.at = at /\ q.sid = s
    BY DEF Ender
  <2>2. ender' = [ender EXCEPT ![e] = q]
    BY <1>1
  <2> HIDE DEF q
  <2> QED
    BY <2>1, <2>2 DEF LoginTypes, EnderIs
<1>2. ASSUME ender' = [ender EXCEPT ![e].at = "scanned"] PROVE EnderIs(e, "scanned", ender[e].sid)
  <2> DEFINE q == [ender[e] EXCEPT !.at = "scanned"]
  <2>1. q \in Ender /\ q.at = "scanned" /\ q.sid = ender[e].sid
    BY LoginTyped DEF Ender
  <2>2. ender' = [ender EXCEPT ![e] = q]
    BY <1>2
  <2> HIDE DEF q
  <2> QED
    BY <2>1, <2>2 DEF LoginTypes, EnderIs
<1> QED
  BY <1>1, <1>2

LEMMA RevokedFacts ==
  ASSUME LoginTypes, NEW s \in Sids
  PROVE  /\ Revoked(s) \in [Sids -> RowStates]
         /\ \A t \in Sids \ {s} : Revoked(s)[t] = ledger[t]
         /\ Revoked(s)[s] = IF ledger[s] \in {"live", "expired"} THEN "revoked" ELSE ledger[s]
  BY DEF LoginTypes, Revoked, RowStates

LEMMA GrantsFacts ==
  ASSUME LoginTypes, NEW s \in Sids
  PROVE  /\ GrantsRevoked(s) \in [Sids -> {"none", "good", "stray"}]
         /\ \A t \in Sids : GrantsRevoked(s)[t] = IF t = s THEN "none" ELSE sidGrant[t]
  BY DEF LoginTypes, GrantsRevoked

LEMMA LoginInitInv == LoginInit => LoginInv
<1> SUFFICES ASSUME LoginInit PROVE LoginInv
  OBVIOUS
<1>1. /\ LoginAtRest \in Login /\ LoginAtRest.at = "idle"
      /\ EnderAtRest \in Ender /\ EnderAtRest.at = "idle"
  BY DEF LoginAtRest, EnderAtRest, Login, Ender, LoginStages
<1>2. LoginTypes
  BY <1>1 DEF LoginInit, LoginTypes, RowStates
<1>3. SidsNamed /\ AdmittedAlive
  BY <1>1 DEF LoginInit, SidsNamed, AdmittedAlive
<1>4. EndingUnused /\ EndedUnused
  BY DEF LoginInit, EndingUnused, EndedUnused, Unused
<1> QED
  BY <1>2, <1>3, <1>4 DEF LoginInv

-----------------------------------------------------------------------------
\* A sign-in moves on, and no row or grant changes.
LEMMA MoveStep ==
  ASSUME LoginInv, NEW b \in Browsers, NEW at \in LoginStages, NEW s \in Sids \cup {NoSid},
         LoginIs(b, at, s), UNCHANGED <<ledger, sidGrant, cookie, ender, overlapped>>,
         at \in {"evict", "admitted", "overtaken"} => s \in Sids,
         at = "admitted" => ledger[s] # "revoked",
         at = "add" => s = NoSid
  PROVE  LoginInv'
<1>1. LoginTypes' /\ SidsNamed' /\ AdmittedAlive' /\ EndedUnused'
  BY DEF LoginInv, LoginTypes, SidsNamed, AdmittedAlive, EndedUnused, Unused, LoginIs
<1>2. \A t \in Sids : EndingUnderWay(t)' => EndingUnderWay(t)
  BY LoginAssumption DEF EndingUnderWay, LoginIs
<1>3. EndingUnused'
  BY <1>2 DEF LoginInv, EndingUnused, Unused
<1> QED
  BY <1>1, <1>3 DEF LoginInv

LEMMA MinFacts ==
  ASSUME NEW S \in SUBSET Nat, S # {} PROVE Min(S) \in S
<1> DEFINE R == {p \in Nat \X Nat : p[1] < p[2]}
<1>1. IsWellFoundedOn(R, Nat)
  <2>1. R = OpToRel(<, Nat)
    BY DEF OpToRel
  <2> QED
    BY <2>1, NatLessThanWellFounded
<1> HIDE DEF R
<1>2. PICK x \in S : \A y \in S : ~(<<y, x>> \in R)
  BY <1>1, WFMin
<1>3. ASSUME NEW y \in S PROVE x =< y
  <2>1. x \in Nat /\ y \in Nat /\ <<y, x>> \in Nat \X Nat
    OBVIOUS
  <2>2. ~(y < x)
    BY <1>2, <2>1 DEF R
  <2> QED
    BY <2>1, <2>2
<1> QED
  BY <1>3 DEF Min

LEMMA LiveFacts ==
  /\ Live \in SUBSET Sids /\ IsFiniteSet(Live) /\ Cardinality(Live) \in Nat
  /\ MustEvict(Live) => Min(Live) \in Live
<1>1. Live \in SUBSET Sids /\ IsFiniteSet(Live) /\ Cardinality(Live) \in Nat
  BY LoginAssumption, FS_Subset, FS_CardinalityType DEF Live
<1>2. ASSUME MustEvict(Live) PROVE Min(Live) \in Live
  <2>1. Live # {}
    BY <1>2, FS_EmptySet, LoginAssumption DEF MustEvict
  <2>2. Live \in SUBSET Nat
    BY <1>1, LoginAssumption
  <2> QED
    BY <2>1, <2>2, MinFacts
<1> QED
  BY <1>1, <1>2

LEMMA SignInStep ==
  ASSUME LoginInv, NEW b \in Browsers, CheckCookie(b) \/ ReadLive(b) \/ GiveUpLogin(b)
  PROVE  LoginInv'
<1>1. CASE CheckCookie(b)
  <2>1. CASE cookie[b] \in Live
    <3>1. LoginIs(b, "admitted", cookie[b]) /\ cookie[b] \in Sids /\ ledger[cookie[b]] # "revoked"
      BY <1>1, <2>1, LoginFacts DEF CheckCookie, Live, LoginInv, LoginStages
    <3> QED
      BY <1>1, <3>1, MoveStep DEF CheckCookie, LoginStages
  <2>2. CASE cookie[b] \notin Live
    <3>1. LoginIs(b, "create", NoSid)
      BY <1>1, <2>2, LoginFacts DEF CheckCookie, LoginInv, LoginStages
    <3> QED
      BY <1>1, <3>1, MoveStep DEF CheckCookie, LoginStages
  <2> QED
    BY <2>1, <2>2
<1>2. CASE ReadLive(b)
  <2>1. CASE MustEvict(Live)
    <3>1. Min(Live) \in Sids
      BY <2>1, LiveFacts
    <3>2. LoginIs(b, "evict", Min(Live))
      BY <1>2, <2>1, <3>1, LoginFacts DEF ReadLive, LoginInv, LoginStages
    <3> QED
      BY <1>2, <3>1, <3>2, MoveStep DEF ReadLive, LoginStages
  <2>2. CASE ~MustEvict(Live)
    <3>1. LoginIs(b, "add", NoSid)
      BY <1>2, <2>2, LoginFacts DEF ReadLive, LoginInv, LoginStages
    <3> QED
      BY <1>2, <3>1, MoveStep DEF ReadLive, LoginStages
  <2> QED
    BY <2>1, <2>2
<1>3. CASE GiveUpLogin(b)
  <2>1. LoginIs(b, "idle", NoSid)
    BY <1>3, LoginFacts DEF GiveUpLogin, LoginAtRest, LoginInv, LoginStages
  <2> QED
    BY <1>3, <2>1, MoveStep DEF GiveUpLogin, LoginStages
<1> QED
  BY <1>1, <1>2, <1>3

\* No session gets a good grant; what is revoked or about to be has none.
LEMMA EndStep ==
  ASSUME LoginInv, LoginTypes', SidsNamed', AdmittedAlive',
         \A t \in Sids : Unused(t) => Unused(t)',
         \A t \in Sids : ledger'[t] = "revoked" => ledger[t] = "revoked" \/ Unused(t)',
         \A t \in Sids : EndingUnderWay(t)' => EndingUnderWay(t) \/ Unused(t)'
  PROVE  LoginInv'
  BY DEF LoginInv, EndingUnused, EndedUnused

LEMMA EvictStep == ASSUME LoginInv, NEW b \in Browsers, Evict(b) PROVE LoginInv'
<1> DEFINE s == login[b].sid
           q == [login[b] EXCEPT !.at = "add"]
           moved == [login EXCEPT ![b] = q]
<1>1. s \in Sids /\ LoginTypes /\ login[b].at = "evict"
      /\ UNCHANGED <<cookie, ender, overlapped>>
  BY DEF Evict, LoginInv, SidsNamed
<1>2. CASE login' = [login EXCEPT ![b] = LoginAtRest] /\ UNCHANGED <<ledger, sidGrant>>
  <2>1. LoginIs(b, "idle", NoSid)
    BY <1>1, <1>2, LoginFacts DEF LoginAtRest, LoginStages
  <2> QED
    BY <1>1, <1>2, <2>1, MoveStep DEF LoginStages
<1>3. CASE /\ sidGrant' = GrantsRevoked(s)
           /\ \/ login' = moved /\ ledger' = ledger
              \/ login' = Overtake(moved, s) /\ ledger' = Revoked(s)
  <2>1. q \in Login /\ q.at = "add" /\ q.sid = s
    BY LoginTyped, <1>1 DEF Login, LoginStages
  <2> HIDE DEF q
  <2>2. /\ moved \in [Browsers -> Login] /\ moved[b] = q
        /\ \A c \in Browsers \ {b} : moved[c] = login[c]
    BY <1>1, <2>1 DEF LoginTypes
  <2> HIDE DEF moved
  <2>3. /\ login' \in [Browsers -> Login]
        /\ \A c \in Browsers :
             /\ login'[c].sid = moved[c].sid
             /\ login'[c].at = moved[c].at \/ (moved[c].at = "admitted" /\ login'[c].at = "overtaken")
             /\ login'[c].at = "admitted" /\ ledger' # ledger => moved[c].sid # s
    BY <1>1, <1>3, <2>2, OvertakeFacts
  <2>4. /\ ledger' \in [Sids -> RowStates]
        /\ \A t \in Sids \ {s} : ledger'[t] = ledger[t]
    BY <1>1, <1>3, RevokedFacts DEF LoginTypes
  <2>5. /\ sidGrant' \in [Sids -> {"none", "good", "stray"}] /\ sidGrant'[s] = "none"
        /\ \A t \in Sids \ {s} : sidGrant'[t] = sidGrant[t]
    BY <1>1, <1>3, GrantsFacts
  <2>6. LoginTypes'
    BY <1>1, <2>3, <2>4, <2>5 DEF LoginTypes
  <2>7. SidsNamed'
    BY <1>1, <2>1, <2>2, <2>3 DEF LoginInv, SidsNamed
  <2>8. AdmittedAlive'
    <3> SUFFICES ASSUME NEW c \in Browsers, login'[c].at = "admitted"
                 PROVE  ledger'[login'[c].sid] # "revoked"
      BY DEF AdmittedAlive
    <3>1. c # b /\ login[c].at = "admitted" /\ login'[c].sid = login[c].sid
      BY <2>1, <2>2, <2>3
    <3>2. login[c].sid \in Sids /\ ledger[login[c].sid] # "revoked"
      BY <3>1 DEF LoginInv, SidsNamed, AdmittedAlive
    <3> QED
      BY <2>2, <2>3, <2>4, <3>1, <3>2
  <2>9. \A t \in Sids : /\ Unused(t) => Unused(t)'
                        /\ ledger'[t] = "revoked" => ledger[t] = "revoked" \/ Unused(t)'
    BY <2>4, <2>5 DEF Unused
  <2>10. \A t \in Sids : EndingUnderWay(t)' => EndingUnderWay(t) \/ Unused(t)'
    BY <1>1, <2>1, <2>2, <2>3, <2>5 DEF EndingUnderWay, Unused
  <2> QED
    BY <2>6, <2>7, <2>8, <2>9, <2>10, EndStep
<1> QED
  BY <1>2, <1>3, <1>1 DEF Evict

\* The row of s is saved as revoked; sign-ins that found it live are overtaken.
LEMMA EnderStep ==
  ASSUME LoginInv, NEW e \in Enders, EndGrants(e) \/ EndSave(e) PROVE LoginInv'
<1>0. PICK s \in Sids : s = ender[e].sid
  BY DEF EndGrants, EndSave, LoginInv, SidsNamed
<1>1. LoginTypes /\ ender[e].at # "idle" /\ UNCHANGED <<cookie, overlapped>>
      /\ (ender[e].at = "scanned" => Unused(s))
  BY <1>0 DEF EndGrants, EndSave, LoginInv, SidsNamed, EndingUnused, EndingUnderWay
<1>2. ASSUME /\ \/ EnderIs(e, "idle", NoSid)
                \/ EnderIs(e, "scanned", s)
             /\ \/ UNCHANGED <<ledger, login>>
                \/ ledger' = Revoked(s) /\ login' = Overtake(login, s) /\ Unused(s)'
             /\ sidGrant' = sidGrant \/ sidGrant' = GrantsRevoked(s)
             /\ EnderIs(e, "scanned", s) => Unused(s)'
      PROVE  LoginInv'
  <2>1. /\ ender' \in [Enders -> Ender]
        /\ \A d \in Enders \ {e} : ender'[d] = ender[d]
        /\ ender'[e].at = "idle" \/ (ender'[e].at = "scanned" /\ ender'[e].sid = s /\ Unused(s)')
    BY <1>2 DEF EnderIs
  <2>2. /\ login' \in [Browsers -> Login]
        /\ \A c \in Browsers :
             /\ login'[c].sid = login[c].sid
             /\ login'[c].at = login[c].at \/ (login[c].at = "admitted" /\ login'[c].at = "overtaken")
             /\ login'[c].at = "admitted" /\ ledger' # ledger => login[c].sid # s
    BY <1>1, <1>2, OvertakeFacts DEF LoginTypes
  <2>3. /\ ledger' \in [Sids -> RowStates]
        /\ \A t \in Sids \ {s} : ledger'[t] = ledger[t]
        /\ ledger' = ledger \/ Unused(s)'
    BY <1>1, <1>2, RevokedFacts DEF LoginTypes
  <2>4. /\ sidGrant' \in [Sids -> {"none", "good", "stray"}]
        /\ \A t \in Sids : Unused(t) => Unused(t)'
    BY <1>1, <1>2, GrantsFacts DEF LoginTypes, Unused
  <2>5. LoginTypes'
    BY <1>1, <2>1, <2>2, <2>3, <2>4 DEF LoginTypes
  <2>6. SidsNamed'
    BY <1>1, <2>1, <2>2 DEF LoginInv, SidsNamed
  <2>7. AdmittedAlive'
    <3> SUFFICES ASSUME NEW c \in Browsers, login'[c].at = "admitted"
                 PROVE  ledger'[login'[c].sid] # "revoked"
      BY DEF AdmittedAlive
    <3>1. login[c].at = "admitted" /\ login'[c].sid = login[c].sid
      BY <2>2
    <3>2. login[c].sid \in Sids /\ ledger[login[c].sid] # "revoked"
      BY <3>1 DEF LoginInv, SidsNamed, AdmittedAlive
    <3> QED
      BY <2>2, <2>3, <3>1, <3>2
  <2>8. \A t \in Sids : ledger'[t] = "revoked" => ledger[t] = "revoked" \/ Unused(t)'
    BY <2>3
  <2>9. \A t \in Sids : EndingUnderWay(t)' => EndingUnderWay(t) \/ Unused(t)'
    BY <1>0, <2>1, <2>2 DEF EndingUnderWay
  <2> QED
    BY <2>4, <2>5, <2>6, <2>7, <2>8, <2>9, EndStep
<1>3. GrantsRevoked(s)[s] = "none"
  BY <1>1, GrantsFacts
<1>4. CASE EndGrants(e)
  <2>1. CASE ender' = [ender EXCEPT ![e] = EnderAtRest] /\ UNCHANGED <<ledger, sidGrant, login>>
    <3>1. EnderIs(e, "idle", NoSid)
      BY <1>1, <2>1, EnderFacts DEF EnderAtRest
    <3>2. ~EnderIs(e, "scanned", s)
      BY <3>1 DEF EnderIs
    <3> QED
      BY <1>2, <2>1, <3>1, <3>2
  <2>2. CASE /\ sidGrant' = GrantsRevoked(s) /\ ender' = [ender EXCEPT ![e].at = "scanned"]
             /\ \/ UNCHANGED <<ledger, login>>
                \/ ledger' = Revoked(s) /\ login' = Overtake(login, s)
    <3>1. EnderIs(e, "scanned", s)
      BY <1>0, <1>1, <2>2, EnderFacts
    <3>2. Unused(s)'
      BY <1>3, <2>2, <3>1 DEF Unused, EnderIs
    <3> QED
      BY <1>2, <2>2, <3>1, <3>2
  <2> QED
    BY <1>0, <1>4, <2>1, <2>2 DEF EndGrants
<1>5. CASE EndSave(e)
  <2>1. EnderIs(e, "idle", NoSid) /\ ~EnderIs(e, "scanned", s)
    BY <1>1, <1>5, EnderFacts DEF EndSave, EnderAtRest, EnderIs
  <2>2. Unused(s)' /\ sidGrant' = sidGrant
    BY <1>1, <1>5 DEF EndSave, Unused
  <2> QED
    BY <1>0, <1>2, <1>5, <2>1, <2>2 DEF EndSave
<1> QED
  BY <1>4, <1>5

LEMMA NewSid ==
  ASSUME \E s \in Sids : ledger[s] = "unused"
  PROVE  Min({s \in Sids : ledger[s] = "unused"}) \in {s \in Sids : ledger[s] = "unused"}
  BY MinFacts, LoginAssumption

\* The new session is live and b is admitted with it; the evicted one is revoked, and
\* who had found it live is overtaken.
LEMMA AddFacts ==
  ASSUME LoginInv, NEW b \in Browsers, AddSession(b), login' # [login EXCEPT ![b] = LoginAtRest]
  PROVE  \E new \in Sids :
           /\ ledger[new] = "unused" /\ LoginTypes' /\ ledger'[new] = "live"
           /\ login'[b].at = "admitted" /\ login'[b].sid = new
           /\ \A t \in Sids \ {new} :
                /\ ledger'[t] = "revoked" =>
                     ledger[t] = "revoked" \/ (t = login[b].sid /\ Unused(t))
                /\ ledger'[t] = "live" => ledger[t] = "live" /\ t # login[b].sid
           /\ \A c \in Browsers \ {b} :
                /\ login'[c].sid = login[c].sid
                /\ login'[c].at = login[c].at
                   \/ (login[c].at = "admitted" /\ login'[c].at = "overtaken")
                /\ login'[c].at = "admitted" /\ login[b].sid \in Sids => login[c].sid # login[b].sid
           /\ UNCHANGED <<sidGrant, cookie, ender>>
           /\ overlapped' = (overlapped \/ \E c \in Browsers \ {b} : login[c].at \in {"evict", "add"})
<1> DEFINE old == login[b].sid
           busy == \E c \in Browsers \ {b} : login[c].at \in {"evict", "add"}
<1>1. PICK new \in Sids : ledger[new] = "unused" /\ new = Min({s \in Sids : ledger[s] = "unused"})
  BY NewSid DEF AddSession
<1>2. PICK q : q = [at |-> "admitted", sid |-> new]
  OBVIOUS
<1>3. q \in Login /\ q.at = "admitted" /\ q.sid = new
  BY <1>2 DEF Login, LoginStages
<1>4. LoginTypes /\ UNCHANGED <<sidGrant, cookie, ender>> /\ overlapped' = (overlapped \/ busy)
      /\ login[b].at = "add"
  BY DEF AddSession, LoginInv
<1>5. CASE /\ old = NoSid /\ ledger' = [ledger EXCEPT ![new] = "live"]
           /\ login' = [login EXCEPT ![b] = q]
  <2>1. LoginTypes' /\ login'[b] = q /\ \A c \in Browsers \ {b} : login'[c] = login[c]
    BY <1>3, <1>4, <1>5 DEF LoginTypes, RowStates
  <2>2. ledger'[new] = "live" /\ \A t \in Sids \ {new} : ledger'[t] = ledger[t]
    BY <1>4, <1>5 DEF LoginTypes
  <2>3. old \notin Sids
    BY <1>5, LoginAssumption
  <2> QED
    BY <1>1, <1>3, <1>4, <2>1, <2>2, <2>3
<1>6. CASE /\ old # NoSid /\ ledger' = [Revoked(old) EXCEPT ![new] = "live"]
           /\ login' = [Overtake(login, old) EXCEPT ![b] = q]
  <2>1. old \in Sids
    BY <1>4, <1>6, LoginTyped
  <2>2. Unused(old)
    BY <1>4, <2>1 DEF LoginInv, EndingUnused, EndingUnderWay
  <2>3. PICK over : over = Overtake(login, old)
    OBVIOUS
  <2>4. /\ over \in [Browsers -> Login]
        /\ \A c \in Browsers :
             /\ over[c].sid = login[c].sid
             /\ over[c].at = login[c].at \/ (login[c].at = "admitted" /\ over[c].at = "overtaken")
             /\ over[c].at = "admitted" => login[c].sid # old
    BY <1>4, <2>3, OvertakeFacts DEF LoginTypes
  <2>5. /\ login' \in [Browsers -> Login] /\ login'[b] = q
        /\ \A c \in Browsers \ {b} : login'[c] = over[c]
    BY <1>3, <1>6, <2>3, <2>4
  <2>6. /\ ledger' \in [Sids -> RowStates] /\ ledger'[new] = "live"
        /\ \A t \in Sids \ {new} :
             ledger'[t] = IF t = old /\ ledger[t] \in {"live", "expired"} THEN "revoked" ELSE ledger[t]
    BY <1>4, <1>6, <2>1, RevokedFacts DEF RowStates
  <2>7. LoginTypes'
    BY <1>4, <2>5, <2>6 DEF LoginTypes
  <2> QED
    BY <1>1, <1>3, <1>4, <2>2, <2>4, <2>5, <2>6, <2>7
<1> QED
  BY <1>1, <1>2, <1>5, <1>6 DEF AddSession

LEMMA AddStep == ASSUME LoginInv, NEW b \in Browsers, AddSession(b) PROVE LoginInv'
<1>1. CASE login' = [login EXCEPT ![b] = LoginAtRest]
  <2>1. LoginIs(b, "idle", NoSid)
    BY <1>1, LoginFacts DEF LoginAtRest, LoginStages, LoginInv
  <2>2. UNCHANGED <<ledger, sidGrant, cookie, ender, overlapped>>
    BY <2>1 DEF AddSession, LoginIs, LoginInv, LoginTypes
  <2> QED
    BY <2>1, <2>2, MoveStep DEF LoginStages
<1>2. CASE login' # [login EXCEPT ![b] = LoginAtRest]
  <2>1. PICK new \in Sids :
           /\ ledger[new] = "unused" /\ LoginTypes' /\ ledger'[new] = "live"
           /\ login'[b].at = "admitted" /\ login'[b].sid = new
           /\ \A t \in Sids \ {new} :
                /\ ledger'[t] = "revoked" =>
                     ledger[t] = "revoked" \/ (t = login[b].sid /\ Unused(t))
           /\ \A c \in Browsers \ {b} :
                /\ login'[c].sid = login[c].sid
                /\ login'[c].at = login[c].at
                   \/ (login[c].at = "admitted" /\ login'[c].at = "overtaken")
                /\ login'[c].at = "admitted" /\ login[b].sid \in Sids => login[c].sid # login[b].sid
           /\ UNCHANGED <<sidGrant, cookie, ender>>
    BY <1>2, AddFacts
  <2>2. SidsNamed'
    BY <2>1 DEF LoginInv, SidsNamed
  <2>3. AdmittedAlive'
    <3> SUFFICES ASSUME NEW c \in Browsers \ {b}, login'[c].at = "admitted"
                 PROVE  ledger'[login'[c].sid] # "revoked"
      BY <2>1 DEF AdmittedAlive
    <3>1. login[c].at = "admitted" /\ login'[c].sid = login[c].sid
      BY <2>1
    <3>2. login[c].sid \in Sids /\ ledger[login[c].sid] # "revoked"
      BY <3>1 DEF LoginInv, SidsNamed, AdmittedAlive
    <3> QED
      BY <2>1, <3>1, <3>2
  <2>4. \A t \in Sids : Unused(t)' <=> Unused(t)
    BY <2>1 DEF Unused
  <2>5. \A t \in Sids : ledger'[t] = "revoked" => ledger[t] = "revoked" \/ Unused(t)'
    BY <2>1, <2>4
  <2>6. \A t \in Sids : EndingUnderWay(t)' => EndingUnderWay(t)
    BY <2>1 DEF EndingUnderWay
  <2> QED
    BY <2>1, <2>2, <2>3, <2>4, <2>5, <2>6, EndStep
<1> QED
  BY <1>1, <1>2

\* The grant is stored: a good one only if the row was live when the sign-in was
\* admitted, has not been revoked since, and is not being ended.
LEMMA StoreStep == ASSUME LoginInv, NEW b \in Browsers, StoreSidGrant(b) PROVE LoginInv'
<1>0. PICK s \in Sids : s = login[b].sid
  BY DEF StoreSidGrant, LoginInv, SidsNamed
<1>1. /\ LoginIs(b, "idle", NoSid) /\ UNCHANGED <<ledger, ender, overlapped>>
      /\ cookie' \in [Browsers -> Sids \cup {NoSid}]
  BY <1>0, LoginFacts DEF StoreSidGrant, LoginAtRest, LoginStages, LoginInv, LoginTypes
<1>2. /\ sidGrant' \in [Sids -> {"none", "good", "stray"}]
      /\ \A t \in Sids \ {s} : sidGrant'[t] = sidGrant[t]
      /\ sidGrant'[s] = "good" => login[b].at = "admitted" /\ ~EndingUnderWay(s)
  BY <1>0 DEF StoreSidGrant, LoginInv, LoginTypes
<1>3. LoginTypes' /\ SidsNamed' /\ AdmittedAlive'
  BY <1>1, <1>2 DEF LoginInv, LoginTypes, SidsNamed, AdmittedAlive, LoginIs
<1>4. \A t \in Sids : EndingUnderWay(t)' => EndingUnderWay(t)
  BY <1>1 DEF EndingUnderWay, LoginIs
<1>5. EndingUnused'
  BY <1>2, <1>4 DEF LoginInv, EndingUnused, Unused
<1>6. EndedUnused'
  BY <1>0, <1>1, <1>2 DEF LoginInv, EndedUnused, Unused, AdmittedAlive
<1> QED
  BY <1>3, <1>5, <1>6 DEF LoginInv

\* Nothing is revoked: a request starts or stops, a session expires, rows are pruned,
\* a browser logs out.
LEMMA OtherStep ==
  ASSUME LoginInv,
         \/ \E b \in Browsers : LogOut(b)
         \/ \E e \in Enders : GiveUpEnding(e) \/ \E s \in Sids : EndRequested(e, s)
         \/ \E s \in Sids : SessionExpires(s)
         \/ PruneSessions
  PROVE  LoginInv'
<1>0. LoginTypes
  BY DEF LoginInv
<1>1. login' = login
  BY DEF LogOut, GiveUpEnding, EndRequested, SessionExpires, PruneSessions
<1>2. /\ ledger' \in [Sids -> RowStates]
      /\ \A t \in Sids : ledger'[t] = "revoked" => ledger[t] = "revoked"
  BY <1>0 DEF LogOut, GiveUpEnding, EndRequested, SessionExpires, PruneSessions, LoginTypes, RowStates
<1>3. /\ sidGrant' \in [Sids -> {"none", "good", "stray"}]
      /\ cookie' \in [Browsers -> Sids \cup {NoSid}] /\ overlapped' \in BOOLEAN
      /\ \A t \in Sids : Unused(t) => Unused(t)'
  <2>1. CASE \E b \in Browsers : LogOut(b)
    <3>1. PICK b \in Browsers : LogOut(b)
      BY <2>1
    <3>2. cookie[b] \in Sids
      BY <1>0, <3>1 DEF LogOut, LoginTypes
    <3> QED
      BY <1>0, <3>1, <3>2, GrantsFacts DEF LogOut, LoginTypes, Unused
  <2>2. CASE UNCHANGED <<sidGrant, cookie, overlapped>>
    BY <1>0, <2>2 DEF LoginTypes, Unused
  <2> QED
    BY <2>1, <2>2 DEF GiveUpEnding, EndRequested, SessionExpires, PruneSessions
<1>4. /\ ender' \in [Enders -> Ender]
      /\ \A e \in Enders : ender'[e] = ender[e] \/ ender'[e].at = "idle"
                           \/ (ender'[e].at = "read" /\ ender'[e].sid \in Sids)
  <2>1. ASSUME NEW e \in Enders, GiveUpEnding(e)
        PROVE  EnderIs(e, "idle", NoSid)
    BY <1>0, <2>1, EnderFacts DEF GiveUpEnding, EnderAtRest
  <2>2. ASSUME NEW e \in Enders, NEW s \in Sids, EndRequested(e, s)
        PROVE  EnderIs(e, "read", s)
    BY <1>0, <2>2, EnderFacts DEF EndRequested
  <2>3. CASE ender' = ender
    BY <1>0, <2>3 DEF LoginTypes
  <2> QED
    BY <2>1, <2>2, <2>3 DEF LogOut, SessionExpires, PruneSessions, EnderIs
<1>5. LoginTypes' /\ SidsNamed' /\ AdmittedAlive'
  BY <1>1, <1>2, <1>3, <1>4 DEF LoginInv, LoginTypes, SidsNamed, AdmittedAlive
<1>6. \A t \in Sids : EndingUnderWay(t)' => EndingUnderWay(t)
  BY <1>1, <1>4 DEF EndingUnderWay
<1> QED
  BY <1>2, <1>3, <1>5, <1>6, EndStep

LEMMA LoginStep == LoginInv /\ [LoginNext]_loginVars => LoginInv'
<1> SUFFICES ASSUME LoginInv, [LoginNext]_loginVars PROVE LoginInv'
  OBVIOUS
<1>1. CASE UNCHANGED loginVars
  BY <1>1 DEF loginVars, LoginInv, LoginTypes, SidsNamed, AdmittedAlive, EndingUnused,
              EndedUnused, EndingUnderWay, Unused
<1> QED
  BY <1>1, SignInStep, EvictStep, AddStep, StoreStep, EnderStep, OtherStep DEF LoginNext

\* The ledger, the grants, the cookies and the requests keep their types
\* (SessionService, AuthorizationController).
THEOREM LoginTypesHold == LoginSpec => []LoginTypeOK
<1>1. LoginInv => LoginTypeOK
  BY DEF LoginInv, LoginTypes, LoginTypeOK
<1> QED
  BY <1>1, LoginInitInv, LoginStep, PTL DEF LoginSpec

\* A session revoked in the ledger keeps no working grant, but for those stored by a
\* sign-in that had found it live before: the revocation scans the grants before it
\* saves the row (SessionService.RevokeSessionAsync, AccessRevoker).
THEOREM EndedSessionsStayEnded == LoginSpec => []EndedSessionsUnused
<1>1. LoginInv => EndedSessionsUnused
  BY DEF LoginInv, EndedUnused, Unused, EndedSessionsUnused
<1> QED
  BY <1>1, LoginInitInv, LoginStep, PTL DEF LoginSpec

-----------------------------------------------------------------------------
(* The limit of sessions.                                                  *)

\* Who is about to add a session has room for it, once the one it evicts is gone.
MakingRoom(b) == login[b].at \in {"evict", "add"}

Capped ==
  ~overlapped =>
    /\ Cardinality(Live) <= MaxSessions
    /\ \A b \in Browsers : MakingRoom(b) => Cardinality(Live \ {login[b].sid}) < MaxSessions

\* No session comes to life and nobody else goes to add one.
LEMMA NoAddition ==
  ASSUME LoginInv, Capped, overlapped' = overlapped, Live' \subseteq Live,
         \A b \in Browsers : MakingRoom(b)' => MakingRoom(b) /\ login'[b].sid = login[b].sid
  PROVE  Capped'
<1> SUFFICES ASSUME ~overlapped
             PROVE  /\ Cardinality(Live') <= MaxSessions
                    /\ \A b \in Browsers : MakingRoom(b)' =>
                         Cardinality(Live' \ {login'[b].sid}) < MaxSessions
  BY DEF Capped
<1>1. ASSUME NEW S \in SUBSET Live, NEW T \in SUBSET S
      PROVE  /\ Cardinality(S) \in Nat /\ Cardinality(T) \in Nat
             /\ Cardinality(T) <= Cardinality(S)
  <2>1. IsFiniteSet(S) /\ IsFiniteSet(T)
    BY LiveFacts, FS_Subset
  <2> QED
    BY <2>1, FS_Subset, FS_CardinalityType
<1>2. Cardinality(Live') <= MaxSessions
  BY <1>1, LoginAssumption DEF Capped
<1>3. ASSUME NEW b \in Browsers, MakingRoom(b)'
      PROVE  Cardinality(Live' \ {login'[b].sid}) < MaxSessions
  <2>1. Live' \ {login'[b].sid} \subseteq Live \ {login[b].sid} /\ Live \ {login[b].sid} \subseteq Live
    BY <1>3
  <2>2. Cardinality(Live \ {login[b].sid}) < MaxSessions
    BY <1>3 DEF Capped
  <2> QED
    BY <1>1, <2>1, <2>2, LoginAssumption
<1> QED
  BY <1>2, <1>3

LEMMA ReadLiveStep ==
  ASSUME LoginInv, Capped, NEW b \in Browsers, ReadLive(b) PROVE Capped'
<1> SUFFICES ASSUME ~overlapped
             PROVE  /\ Cardinality(Live) <= MaxSessions
                    /\ \A c \in Browsers : MakingRoom(c)' =>
                         Cardinality(Live \ {login'[c].sid}) < MaxSessions
  BY DEF Capped, ReadLive, Live
<1>1. Cardinality(Live) <= MaxSessions
  BY DEF Capped
<1>2. LoginTypes
  BY DEF LoginInv
<1>3. CASE MustEvict(Live)
  <2>1. Min(Live) \in Live /\ Min(Live) \in Sids
    BY <1>3, LiveFacts
  <2>2. LoginIs(b, "evict", Min(Live))
    BY <1>2, <1>3, <2>1, LoginFacts DEF ReadLive, LoginStages
  <2>3. Cardinality(Live \ {Min(Live)}) = Cardinality(Live) - 1
    BY <2>1, LiveFacts, FS_RemoveElement
  <2>4. Cardinality(Live \ {Min(Live)}) < MaxSessions
    BY <1>1, <2>3, LiveFacts, LoginAssumption
  <2> QED
    BY <1>1, <2>2, <2>4 DEF Capped, MakingRoom, LoginIs
<1>4. CASE ~MustEvict(Live)
  <2>1. LoginIs(b, "add", NoSid)
    BY <1>2, <1>4, LoginFacts DEF ReadLive, LoginStages
  <2>2. Live \ {NoSid} = Live
    BY LiveFacts, LoginAssumption
  <2>3. Cardinality(Live) < MaxSessions
    BY <1>4, LiveFacts, LoginAssumption DEF MustEvict
  <2> QED
    BY <1>1, <2>1, <2>2, <2>3 DEF Capped, MakingRoom, LoginIs
<1> QED
  BY <1>3, <1>4

LEMMA AddedStep ==
  ASSUME LoginInv, Capped, NEW b \in Browsers, AddSession(b) PROVE Capped'
<1>1. CASE login' = [login EXCEPT ![b] = LoginAtRest]
  <2>1. LoginIs(b, "idle", NoSid)
    BY <1>1, LoginFacts DEF LoginAtRest, LoginStages, LoginInv
  <2>2. UNCHANGED <<ledger, overlapped>>
    BY <2>1 DEF AddSession, LoginIs, LoginInv, LoginTypes
  <2> QED
    BY <2>1, <2>2, NoAddition DEF LoginIs, MakingRoom, Live
<1>2. CASE login' # [login EXCEPT ![b] = LoginAtRest]
  <2>1. PICK new \in Sids :
           /\ ledger[new] = "unused" /\ LoginTypes' /\ ledger'[new] = "live"
           /\ login'[b].at = "admitted"
           /\ \A t \in Sids \ {new} :
                ledger'[t] = "live" => ledger[t] = "live" /\ t # login[b].sid
           /\ \A c \in Browsers \ {b} :
                login'[c].at = login[c].at
                \/ (login[c].at = "admitted" /\ login'[c].at = "overtaken")
           /\ overlapped' = (overlapped \/ \E c \in Browsers \ {b} : login[c].at \in {"evict", "add"})
    BY <1>2, AddFacts
  <2> SUFFICES ASSUME ~overlapped' PROVE Capped'
    BY DEF Capped
  <2> DEFINE Old == Live \ {login[b].sid}
  <2>2. ~overlapped /\ \A c \in Browsers : ~MakingRoom(c)'
    BY <2>1 DEF MakingRoom
  <2>3. MakingRoom(b)
    BY DEF AddSession, MakingRoom
  <2>4. Cardinality(Old) < MaxSessions
    BY <2>2, <2>3 DEF Capped
  <2>5. Live' \subseteq Old \cup {new}
    BY <2>1 DEF Live
  <2>6. IsFiniteSet(Old) /\ Cardinality(Old) \in Nat
    BY LiveFacts, FS_Subset, FS_CardinalityType
  <2> HIDE DEF Old
  <2>7. IsFiniteSet(Old \cup {new}) /\ Cardinality(Old \cup {new}) \in Nat
        /\ Cardinality(Old \cup {new}) <= Cardinality(Old) + 1
    <3>1. /\ IsFiniteSet(Old \cup {new})
          /\ \/ Cardinality(Old \cup {new}) = Cardinality(Old)
             \/ Cardinality(Old \cup {new}) = Cardinality(Old) + 1
      BY <2>6, FS_AddElement
    <3> QED
      BY <2>6, <3>1
  <2>8. Cardinality(Live') \in Nat /\ Cardinality(Live') <= Cardinality(Old \cup {new})
    BY <2>5, <2>7, FS_Subset, FS_CardinalityType
  <2>9. Cardinality(Live') <= MaxSessions
    BY <2>4, <2>6, <2>7, <2>8, LoginAssumption
  <2> QED
    BY <2>2, <2>9 DEF Capped
<1> QED
  BY <1>1, <1>2

\* An eviction, and the end of a session by request.
LEMMA EvictedStep ==
  ASSUME LoginInv, Capped, NEW b \in Browsers, Evict(b) PROVE Capped'
<1> DEFINE q == [login[b] EXCEPT !.at = "add"]
           moved == [login EXCEPT ![b] = q]
<1>0. PICK s \in Sids : s = login[b].sid
  BY DEF Evict, LoginInv, SidsNamed
<1>1. LoginTypes /\ login[b].at = "evict" /\ overlapped' = overlapped
  BY DEF Evict, LoginInv
<1>2. q \in Login /\ q.at = "add" /\ q.sid = s
  BY LoginTyped, <1>0, <1>1 DEF Login, LoginStages
<1>3. \/ login' = [login EXCEPT ![b] = LoginAtRest] /\ ledger' = ledger
      \/ login' = moved /\ ledger' = ledger
      \/ login' = Overtake(moved, s) /\ ledger' = Revoked(s)
  BY <1>0 DEF Evict
<1> HIDE DEF q
<1>4. moved \in [Browsers -> Login] /\ moved[b] = q /\ \A c \in Browsers \ {b} : moved[c] = login[c]
  BY <1>1, <1>2 DEF LoginTypes
<1> HIDE DEF moved
<1>5. Live' \subseteq Live
  BY <1>1, <1>3, RevokedFacts DEF Live
<1>6. ASSUME NEW c \in Browsers, MakingRoom(c)'
      PROVE  MakingRoom(c) /\ login'[c].sid = login[c].sid
  <2>1. CASE login' = [login EXCEPT ![b] = LoginAtRest]
    BY <1>1, <1>6, <2>1 DEF MakingRoom, LoginTypes, LoginAtRest
  <2>2. CASE login' = moved \/ login' = Overtake(moved, s)
    <3>1. login'[c].sid = moved[c].sid /\ moved[c].at \in {"evict", "add"}
      BY <1>1, <1>4, <1>6, <2>2, OvertakeFacts DEF MakingRoom
    <3> QED
      BY <1>0, <1>1, <1>2, <1>4, <3>1 DEF MakingRoom
  <2> QED
    BY <1>3, <2>1, <2>2
<1> QED
  BY <1>1, <1>5, <1>6, NoAddition

LEMMA EndedStep ==
  ASSUME LoginInv, Capped, NEW e \in Enders, EndGrants(e) \/ EndSave(e) PROVE Capped'
<1>0. PICK s \in Sids : s = ender[e].sid
  BY DEF EndGrants, EndSave, LoginInv, SidsNamed
<1>1. LoginTypes /\ login \in [Browsers -> Login] /\ overlapped' = overlapped
  BY DEF LoginInv, LoginTypes, EndGrants, EndSave
<1>2. UNCHANGED <<ledger, login>> \/ (ledger' = Revoked(s) /\ login' = Overtake(login, s))
  BY <1>0 DEF EndGrants, EndSave
<1>3. Live' \subseteq Live
  BY <1>1, <1>2, RevokedFacts DEF Live
<1>4. \A c \in Browsers : MakingRoom(c)' => MakingRoom(c) /\ login'[c].sid = login[c].sid
  BY <1>1, <1>2, OvertakeFacts DEF MakingRoom
<1> QED
  BY <1>1, <1>3, <1>4, NoAddition

LEMMA RestingStep ==
  ASSUME LoginInv, Capped, NEW b \in Browsers, CheckCookie(b) \/ GiveUpLogin(b) \/ StoreSidGrant(b)
  PROVE  Capped'
<1>1. LoginTypes /\ UNCHANGED <<ledger, overlapped>>
  BY DEF LoginInv, CheckCookie, GiveUpLogin, StoreSidGrant
<1>2. \E s \in Sids \cup {NoSid}, at \in LoginStages \ {"evict", "add"} : LoginIs(b, at, s)
  <2>1. CASE CheckCookie(b)
    <3>1. CASE cookie[b] \in Live
      <4>1. LoginIs(b, "admitted", cookie[b]) /\ cookie[b] \in Sids
        BY <1>1, <2>1, <3>1, LoginFacts DEF CheckCookie, Live, LoginStages
      <4> QED
        BY <4>1 DEF LoginStages
    <3>2. CASE cookie[b] \notin Live
      <4>1. LoginIs(b, "create", NoSid)
        BY <1>1, <2>1, <3>2, LoginFacts DEF CheckCookie, LoginStages
      <4> QED
        BY <4>1 DEF LoginStages
    <3> QED
      BY <3>1, <3>2
  <2>2. CASE GiveUpLogin(b) \/ StoreSidGrant(b)
    <3>1. LoginIs(b, "idle", NoSid)
      BY <1>1, <2>2, LoginFacts DEF GiveUpLogin, StoreSidGrant, LoginAtRest, LoginStages
    <3> QED
      BY <3>1 DEF LoginStages
  <2> QED
    BY <2>1, <2>2
<1>3. \A c \in Browsers : MakingRoom(c)' => MakingRoom(c) /\ login'[c].sid = login[c].sid
  BY <1>2 DEF MakingRoom, LoginIs
<1> QED
  BY <1>1, <1>3, NoAddition DEF Live

LEMMA CapStep == LoginInv /\ Capped /\ [LoginNext]_loginVars => Capped'
<1> SUFFICES ASSUME LoginInv, Capped, [LoginNext]_loginVars PROVE Capped'
  OBVIOUS
<1>1. CASE UNCHANGED loginVars
  BY <1>1, NoAddition DEF loginVars, Live, MakingRoom
<1>2. CASE \/ \E b \in Browsers : LogOut(b)
           \/ \E e \in Enders : GiveUpEnding(e) \/ \E s \in Sids : EndRequested(e, s)
           \/ \E s \in Sids : SessionExpires(s)
           \/ PruneSessions
  <2>1. login' = login /\ overlapped' = overlapped
    BY <1>2 DEF LogOut, GiveUpEnding, EndRequested, SessionExpires, PruneSessions
  <2>2. Live' \subseteq Live
    BY <1>2 DEF LogOut, GiveUpEnding, EndRequested, SessionExpires, PruneSessions, Live,
                LoginInv, LoginTypes
  <2> QED
    BY <2>1, <2>2, NoAddition DEF MakingRoom
<1> QED
  BY <1>1, <1>2, RestingStep, ReadLiveStep, EvictedStep, AddedStep, EndedStep DEF LoginNext

LEMMA CapInit == LoginInit => Capped
<1> SUFFICES ASSUME LoginInit PROVE Capped
  OBVIOUS
<1>1. Live = {} /\ \A b \in Browsers : ~MakingRoom(b)
  BY DEF LoginInit, Live, MakingRoom, LoginAtRest
<1> QED
  BY <1>1, FS_EmptySet, LoginAssumption DEF Capped

\* The user has at most MaxSessions live sessions, as long as no session is created
\* while another sign-in is between its count and its save
\* (SessionService.CreateSessionAsync).
THEOREM SessionsCappedAlone == LoginSpec => []CappedWithoutOverlap
<1>1. LoginInv /\ Capped /\ [LoginNext]_loginVars => (LoginInv /\ Capped)'
  BY LoginStep, CapStep
<1>2. Capped => CappedWithoutOverlap
  BY DEF Capped, CappedWithoutOverlap
<1> QED
  BY <1>1, <1>2, LoginInitInv, CapInit, PTL DEF LoginSpec

-----------------------------------------------------------------------------
(* MFA lockout.                                                            *)

VerifierStages == {"idle", "read", "failing", "locked", "resetting", "clearing"}

Verification == [at : VerifierStages, seen : Row, stale : BOOLEAN, backup : BOOLEAN]

MfaTypes ==
  /\ user \in Row /\ lockKey \in BOOLEAN /\ raced \in BOOLEAN
  /\ verifier \in [Verifiers -> Verification]
  /\ failures \in 0..MaxAttempts /\ spent \in Nat

\* v has taken the backup code from the row and can still sign in with it.
Holder(v) == verifier[v].at = "resetting" /\ verifier[v].backup /\ ~verifier[v].stale

BackupUse ==
  /\ spent \in {0, 1}
  /\ user.backup => spent = 0 /\ \A v \in Verifiers : ~Holder(v)
  /\ \A v, w \in Verifiers : Holder(v) /\ Holder(w) => v = w
  /\ \A v \in Verifiers : Holder(v) => spent = 0

\* Who has only read the row has used no code, and has seen the code if it is there.
Reading ==
  \A v \in Verifiers : verifier[v].at = "read" =>
    /\ ~verifier[v].backup
    /\ ~verifier[v].stale /\ verifier[v].seen.backup => user.backup

\* A failure since the last sign-in is counted in the row or about to be, until the
\* row has been locked.
Failing == {v \in Verifiers : verifier[v].at = "failing"}

Counted ==
  /\ IsFiniteSet(Failing)
  /\ ~raced /\ user.lock = "never" =>
       /\ user.attempts < MaxAttempts /\ user.count = 0
       /\ failures <= user.attempts + Cardinality(Failing)

MfaInv == MfaTypes /\ BackupUse /\ Reading /\ Counted

-----------------------------------------------------------------------------
LEMMA MfaRowFacts ==
  ASSUME NEW r \in Row
  PROVE  /\ r.attempts \in 0..MaxAttempts /\ r.count \in 0..MaxLockouts
         /\ r.lock \in Locks /\ r.backup \in BOOLEAN
  BY DEF Row

LEMMA VerifierFacts ==
  ASSUME MfaTypes, NEW v \in Verifiers
  PROVE  /\ verifier[v] \in Verification /\ verifier[v].at \in VerifierStages
         /\ verifier[v].seen \in Row /\ verifier[v].stale \in BOOLEAN
         /\ verifier[v].backup \in BOOLEAN
<1>1. verifier[v] \in Verification
  BY DEF MfaTypes
<1> QED
  BY <1>1 DEF Verification

LEMMA VerifierRestFacts ==
  /\ NoRow \in Row /\ VerifierAtRest \in Verification
  /\ VerifierAtRest.at = "idle" /\ ~VerifierAtRest.backup /\ ~VerifierAtRest.stale
<1>1. NoRow \in Row
  BY MfaAssumption DEF NoRow, Row, Locks
<1> HIDE DEF NoRow
<1> QED
  BY <1>1 DEF VerifierAtRest, Verification, VerifierStages

\* The verification of v is now q; the others are as they were.
Becomes(v, q) ==
  /\ verifier' \in [Verifiers -> Verification] /\ verifier'[v] = q
  /\ \A w \in Verifiers \ {v} : verifier'[w] = verifier[w]

LEMMA BecomesFacts ==
  ASSUME MfaTypes, NEW v \in Verifiers
  PROVE  /\ Done(v) = verifier' => Becomes(v, VerifierAtRest)
         /\ \A at \in VerifierStages : verifier' = Moves(v, at) =>
              /\ Becomes(v, verifier'[v]) /\ verifier'[v].at = at
              /\ verifier'[v].seen = verifier[v].seen /\ verifier'[v].stale = verifier[v].stale
              /\ verifier'[v].backup = verifier[v].backup
<1>1. Done(v) = verifier' => Becomes(v, VerifierAtRest)
  BY VerifierRestFacts DEF Done, Becomes, MfaTypes
<1>2. ASSUME NEW at \in VerifierStages, verifier' = Moves(v, at)
      PROVE  /\ Becomes(v, verifier'[v]) /\ verifier'[v].at = at
             /\ verifier'[v].seen = verifier[v].seen /\ verifier'[v].stale = verifier[v].stale
             /\ verifier'[v].backup = verifier[v].backup
  <2> DEFINE q == [verifier[v] EXCEPT !.at = at]
  <2>1. /\ q \in Verification /\ q.at = at /\ q.seen = verifier[v].seen
        /\ q.stale = verifier[v].stale /\ q.backup = verifier[v].backup
    BY VerifierFacts DEF Verification
  <2>2. verifier' = [verifier EXCEPT ![v] = q]
    BY <1>2 DEF Moves
  <2> HIDE DEF q
  <2>3. Becomes(v, q)
    BY <2>1, <2>2 DEF Becomes, MfaTypes
  <2> QED
    BY <2>1, <2>3 DEF Becomes
<1> QED
  BY <1>1, <1>2

LEMMA MfaInitInv == MfaInit => MfaInv
<1> SUFFICES ASSUME MfaInit PROVE MfaInv
  OBVIOUS
<1>1. user \in Row /\ user.attempts = 0 /\ user.count = 0
  BY VerifierRestFacts DEF MfaInit, NoRow, Row
<1>2. MfaTypes
  <2>1. verifier \in [Verifiers -> Verification]
    BY VerifierRestFacts DEF MfaInit
  <2>2. failures \in 0..MaxAttempts /\ spent \in Nat
    <3>1. failures = 0 /\ spent = 0
      BY DEF MfaInit
    <3> QED
      BY <3>1, MfaAssumption
  <2>3. lockKey \in BOOLEAN /\ raced \in BOOLEAN
    BY DEF MfaInit
  <2> QED
    BY <1>1, <2>1, <2>2, <2>3 DEF MfaTypes
<1>3. BackupUse /\ Reading
  BY VerifierRestFacts DEF MfaInit, BackupUse, Reading, Holder
<1>4. Failing = {}
  BY VerifierRestFacts DEF MfaInit, Failing
<1>5. Counted
  BY <1>1, <1>4, FS_EmptySet, MfaAssumption DEF MfaInit, Counted
<1> QED
  BY <1>2, <1>3, <1>5 DEF MfaInv

-----------------------------------------------------------------------------
\* How the set of failing verifications changes.
LEMMA FailingFacts ==
  ASSUME MfaInv, NEW v \in Verifiers, NEW q \in Verification, Becomes(v, q)
  PROVE  /\ IsFiniteSet(Failing') /\ Cardinality(Failing') \in Nat /\ Cardinality(Failing) \in Nat
         /\ q.at = "failing" /\ verifier[v].at # "failing" =>
              Cardinality(Failing') = Cardinality(Failing) + 1
         /\ q.at # "failing" /\ verifier[v].at = "failing" =>
              Cardinality(Failing') = Cardinality(Failing) - 1
         /\ (q.at = "failing" <=> verifier[v].at = "failing") => Failing' = Failing
<1>1. IsFiniteSet(Failing) /\ Cardinality(Failing) \in Nat
  BY FS_CardinalityType DEF MfaInv, Counted
<1>2. CASE q.at = "failing" /\ verifier[v].at # "failing"
  <2>1. Failing' = Failing \cup {v} /\ v \notin Failing
    BY <1>2 DEF Failing, Becomes
  <2> QED
    BY <1>1, <1>2, <2>1, FS_AddElement, FS_CardinalityType
<1>3. CASE q.at # "failing" /\ verifier[v].at = "failing"
  <2>1. Failing' = Failing \ {v} /\ v \in Failing
    BY <1>3 DEF Failing, Becomes
  <2> QED
    BY <1>1, <1>3, <2>1, FS_RemoveElement, FS_CardinalityType
<1>4. CASE q.at = "failing" <=> verifier[v].at = "failing"
  <2>1. Failing' = Failing
    BY <1>4 DEF Failing, Becomes
  <2> QED
    BY <1>1, <1>4, <2>1
<1> QED
  BY <1>2, <1>3, <1>4

\* v takes no backup code from the row, and none of the others is disturbed.
LEMMA CodeUntouched ==
  ASSUME MfaInv, NEW v \in Verifiers, NEW q \in Verification, Becomes(v, q),
         user' \in Row, user'.backup = user.backup, spent' = spent,
         q.at = "resetting" /\ q.backup /\ ~q.stale => Holder(v),
         q.at = "read" => ~q.backup /\ (~q.stale /\ q.seen.backup => user.backup)
  PROVE  BackupUse' /\ Reading'
<1>1. \A w \in Verifiers : Holder(w)' => Holder(w)
  BY DEF Becomes, Holder
<1>2. BackupUse'
  BY <1>1 DEF MfaInv, BackupUse
<1>3. Reading'
  BY DEF MfaInv, Reading, Becomes
<1> QED
  BY <1>2, <1>3

\* Steps that leave the row alone.
LEMMA RowKeptStep ==
  ASSUME MfaInv, NEW v \in Verifiers, NEW q \in Verification, Becomes(v, q),
         UNCHANGED <<user, spent>>, lockKey' \in BOOLEAN, raced' \in BOOLEAN,
         failures' \in 0..MaxAttempts,
         q.at = "resetting" /\ q.backup /\ ~q.stale => Holder(v),
         q.at = "read" => ~q.backup /\ (~q.stale /\ q.seen.backup => user.backup),
         ~raced' /\ user.lock = "never" =>
           /\ ~raced
           /\ \/ failures' = failures /\ (q.at = "failing" <=> verifier[v].at = "failing")
              \/ failures' <= failures + 1 /\ q.at = "failing" /\ verifier[v].at # "failing"
  PROVE  MfaInv'
<1>1. MfaTypes'
  BY DEF MfaInv, MfaTypes, Becomes
<1>2. BackupUse' /\ Reading'
  BY CodeUntouched DEF MfaInv, MfaTypes
<1>3. Counted'
  <2> SUFFICES ASSUME ~raced', user.lock = "never"
               PROVE  /\ user.attempts < MaxAttempts /\ user.count = 0
                      /\ failures' <= user.attempts + Cardinality(Failing')
    BY FailingFacts DEF Counted
  <2>1. /\ user.attempts < MaxAttempts /\ user.count = 0 /\ user.attempts \in Nat
        /\ failures <= user.attempts + Cardinality(Failing) /\ failures \in Nat /\ failures' \in Nat
    BY MfaRowFacts, MfaAssumption DEF MfaInv, MfaTypes, Counted
  <2>2. CASE failures' = failures /\ (q.at = "failing" <=> verifier[v].at = "failing")
    BY <2>1, <2>2, FailingFacts
  <2>3. CASE failures' <= failures + 1 /\ q.at = "failing" /\ verifier[v].at # "failing"
    <3>1. Cardinality(Failing') = Cardinality(Failing) + 1 /\ Cardinality(Failing) \in Nat
      BY <2>3, FailingFacts
    <3> QED
      BY <2>1, <2>3, <3>1
  <2> QED
    BY <2>1, <2>2, <2>3
<1> QED
  BY <1>1, <1>2, <1>3 DEF MfaInv

LEMMA EnterStep ==
  ASSUME MfaInv, NEW v \in Verifiers, Challenge(v) \/ Reread(v) PROVE MfaInv'
<1>0. /\ MfaTypes /\ user \in Row /\ lockKey \in BOOLEAN /\ raced \in BOOLEAN
      /\ failures \in 0..MaxAttempts /\ UNCHANGED <<user, lockKey, failures, raced, spent>>
  BY DEF MfaInv, MfaTypes, Challenge, Reread
<1>1. CASE Challenge(v)
  <2> DEFINE q == [VerifierAtRest EXCEPT !.at = "read", !.seen = user]
  <2>1. /\ q \in Verification /\ q.at = "read" /\ q.seen = user /\ ~q.backup
    BY <1>0, VerifierRestFacts DEF Verification, VerifierStages
  <2>2. verifier' = [verifier EXCEPT ![v] = q] /\ verifier[v].at = "idle"
    BY <1>1 DEF Challenge
  <2> HIDE DEF q
  <2>3. Becomes(v, q)
    BY <1>0, <2>1, <2>2 DEF Becomes, MfaTypes
  <2> QED
    BY <1>0, <2>1, <2>2, <2>3, RowKeptStep
<1>2. CASE Reread(v)
  <2> DEFINE q == [verifier[v] EXCEPT !.seen = user, !.stale = FALSE]
  <2>1. /\ q \in Verification /\ q.at = verifier[v].at /\ q.seen = user
        /\ q.backup = verifier[v].backup
    BY <1>0, VerifierFacts DEF Verification
  <2>2. /\ verifier' = [verifier EXCEPT ![v] = q]
        /\ verifier[v].at = "resetting" => ~verifier[v].backup
    BY <1>0, <1>2 DEF Reread, MfaTypes
  <2> HIDE DEF q
  <2>3. Becomes(v, q)
    BY <1>0, <2>1, <2>2 DEF Becomes, MfaTypes
  <2>4. q.at = "read" => ~q.backup
    BY <2>1 DEF MfaInv, Reading
  <2> QED
    BY <1>0, <2>1, <2>2, <2>3, <2>4, RowKeptStep
<1> QED
  BY <1>1, <1>2

\* A verification is over.
LEMMA DoneStep ==
  ASSUME MfaInv, NEW v \in Verifiers, verifier' = Done(v), UNCHANGED <<user, failures, spent>>,
         lockKey' \in BOOLEAN, raced' \in BOOLEAN,
         ~raced' /\ user.lock = "never" => ~raced /\ verifier[v].at # "failing"
  PROVE  MfaInv'
<1>1. Becomes(v, VerifierAtRest) /\ failures' \in 0..MaxAttempts
  BY BecomesFacts DEF MfaInv, MfaTypes
<1> QED
  BY <1>1, VerifierRestFacts, RowKeptStep

LEMMA EndsStep ==
  ASSUME MfaInv, NEW v \in Verifiers,
         FailureLost(v) \/ SetLockKey(v) \/ RefuseReset(v) \/ ClearLockKey(v) \/ GiveUpMfa(v)
  PROVE  MfaInv'
<1>0. MfaTypes /\ lockKey \in BOOLEAN /\ raced \in BOOLEAN /\ verifier[v].stale \in BOOLEAN
  BY VerifierFacts DEF MfaInv, MfaTypes
<1>1. CASE FailureLost(v)
  <2>1. ~raced' => ~raced /\ verifier[v].seen = user /\ user.count > LongestPower
    BY <1>0, <1>1 DEF FailureLost, Overflows
  <2>2. ~raced' => user.lock # "never"
    BY <2>1, MfaAssumption DEF MfaInv, Counted
  <2>3. raced' \in BOOLEAN
    BY <1>0, <1>1 DEF FailureLost
  <2> QED
    BY <1>0, <1>1, <2>2, <2>3, DoneStep DEF FailureLost
<1>2. CASE SetLockKey(v)
  <2>1. /\ lockKey' \in BOOLEAN /\ raced' \in BOOLEAN /\ (~raced' => ~raced)
        /\ verifier[v].at # "failing"
    BY <1>0, <1>2 DEF SetLockKey
  <2> QED
    BY <1>2, <2>1, DoneStep DEF SetLockKey
<1>3. CASE RefuseReset(v)
  BY <1>0, <1>3, DoneStep DEF RefuseReset
<1>4. CASE ClearLockKey(v)
  <2>1. lockKey' \in BOOLEAN /\ verifier[v].at # "failing" /\ raced' = raced
    BY <1>0, <1>4 DEF ClearLockKey
  <2> QED
    BY <1>0, <1>4, <2>1, DoneStep DEF ClearLockKey
<1>5. CASE GiveUpMfa(v)
  <2>1. raced' \in BOOLEAN /\ (~raced' => ~raced /\ verifier[v].at # "failing")
    BY <1>0, <1>5 DEF GiveUpMfa
  <2> QED
    BY <1>0, <1>5, <2>1, DoneStep DEF GiveUpMfa
<1> QED
  BY <1>1, <1>2, <1>3, <1>4, <1>5

LEMMA WrongCodeStep ==
  ASSUME MfaInv, NEW v \in Verifiers, WrongCode(v) PROVE MfaInv'
<1>0. /\ MfaTypes /\ lockKey' = lockKey /\ lockKey \in BOOLEAN /\ raced \in BOOLEAN
      /\ UNCHANGED <<user, spent>> /\ verifier[v].at = "read"
  BY DEF MfaInv, MfaTypes, WrongCode
<1>1. failures' \in 0..MaxAttempts /\ failures' <= failures + 1
  BY MfaAssumption DEF WrongCode, MfaInv, MfaTypes
<1>2. CASE verifier' = Moves(v, "failing") /\ raced' = raced
  <2>1. Becomes(v, verifier'[v]) /\ verifier'[v].at = "failing"
    BY <1>0, <1>2, BecomesFacts DEF VerifierStages
  <2>2. verifier'[v] \in Verification
    BY <2>1 DEF Becomes
  <2> QED
    BY <1>0, <1>1, <1>2, <2>1, <2>2, RowKeptStep
<1>3. CASE verifier' = Done(v) /\ raced' = (raced \/ user.lock # "running")
  <2>1. Becomes(v, VerifierAtRest)
    BY <1>0, <1>3, BecomesFacts
  <2>2. raced' \in BOOLEAN /\ (~raced' => user.lock # "never")
    BY <1>0, <1>3
  <2> QED
    BY <1>0, <1>1, <2>1, <2>2, VerifierRestFacts, RowKeptStep
<1> QED
  BY <1>2, <1>3 DEF WrongCode

LEMMA RightCodeStep ==
  ASSUME MfaInv, NEW v \in Verifiers, RightCode(v) PROVE MfaInv'
<1>0. /\ MfaTypes /\ lockKey \in BOOLEAN /\ raced \in BOOLEAN /\ failures \in 0..MaxAttempts
      /\ UNCHANGED <<user, lockKey, failures, raced, spent>> /\ verifier[v].at = "read"
  BY DEF MfaInv, MfaTypes, RightCode
<1>1. ~verifier[v].backup
  BY <1>0 DEF MfaInv, Reading
<1>2. /\ Becomes(v, verifier'[v]) /\ verifier'[v].at = "resetting"
      /\ verifier'[v].backup = verifier[v].backup
  BY <1>0, BecomesFacts DEF RightCode, VerifierStages
<1>3. verifier'[v] \in Verification
  BY <1>2 DEF Becomes
<1> QED
  BY <1>0, <1>1, <1>2, <1>3, RowKeptStep

LEMMA BackupCodeStep ==
  ASSUME MfaInv, NEW v \in Verifiers, BackupCode(v) PROVE MfaInv'
<1>0. /\ MfaTypes /\ user \in Row /\ lockKey \in BOOLEAN /\ raced \in BOOLEAN
      /\ failures \in 0..MaxAttempts /\ UNCHANGED <<lockKey, failures, spent>>
      /\ verifier[v].at = "read" /\ verifier[v].seen.backup /\ verifier[v].seen \in Row
  BY VerifierFacts DEF MfaInv, MfaTypes, BackupCode
<1>1. PICK q : q = [verifier[v] EXCEPT !.at = "resetting", !.backup = TRUE]
  OBVIOUS
<1>2. /\ q \in Verification /\ q.at = "resetting" /\ q.backup /\ q.stale = verifier[v].stale
  BY <1>0, <1>1, VerifierFacts DEF Verification, VerifierStages
<1>3. CASE verifier[v].stale
  <2>1. verifier' = [verifier EXCEPT ![v] = q] /\ user' = user /\ raced' = raced
    BY <1>0, <1>1, <1>3 DEF BackupCode, MfaTypes
  <2>2. Becomes(v, q)
    BY <1>0, <1>2, <2>1 DEF Becomes, MfaTypes
  <2> QED
    BY <1>0, <1>2, <1>3, <2>1, <2>2, RowKeptStep
<1>4. CASE ~verifier[v].stale
  <2>1. /\ \E lock \in ByNow(verifier[v].seen.lock) :
             user' = [verifier[v].seen EXCEPT !.backup = FALSE, !.lock = lock]
        /\ raced' = (raced \/ user # verifier[v].seen)
        /\ verifier' = [w \in Verifiers |->
             IF w = v THEN q ELSE [verifier[w] EXCEPT !.stale = verifier[w].at # "idle"]]
    BY <1>1, <1>4 DEF BackupCode
  <2>2. /\ user' \in Row /\ ~user'.backup /\ raced' \in BOOLEAN
        /\ ~raced' => /\ ~raced /\ user'.attempts = user.attempts /\ user'.count = user.count
                      /\ user'.lock = "never" => user.lock = "never"
    <3>1. PICK seen \in Row : seen = verifier[v].seen
      BY <1>0
    <3>2. PICK lock \in ByNow(seen.lock) : user' = [seen EXCEPT !.backup = FALSE, !.lock = lock]
      BY <2>1, <3>1
    <3>3. lock \in Locks /\ (lock = "never" => seen.lock = "never")
      BY MfaRowFacts DEF ByNow, Locks
    <3>4. /\ user' \in Row /\ ~user'.backup /\ user'.attempts = seen.attempts
          /\ user'.count = seen.count /\ user'.lock = lock
      BY <3>2, <3>3 DEF Row
    <3> QED
      BY <1>0, <2>1, <3>1, <3>3, <3>4
  <2>3. ASSUME NEW w \in Verifiers \ {v}
        PROVE  /\ verifier'[w] \in Verification /\ verifier'[w].at = verifier[w].at
               /\ verifier'[w].backup = verifier[w].backup
               /\ verifier'[w].stale = (verifier[w].at # "idle")
    <3>1. verifier'[w] = [verifier[w] EXCEPT !.stale = verifier[w].at # "idle"]
      BY <2>1
    <3>2. (verifier[w].at # "idle") \in BOOLEAN
      OBVIOUS
    <3> QED
      BY <1>0, <3>1, <3>2, VerifierFacts DEF Verification
  <2>4. verifier'[v] = q /\ verifier' \in [Verifiers -> Verification]
    BY <1>2, <2>1, <2>3
  <2>5. MfaTypes'
    BY <1>0, <2>2, <2>4 DEF MfaTypes
  <2>6. spent = 0 /\ spent' = 0
    BY <1>0, <1>4 DEF MfaInv, Reading, BackupUse
  <2>7. \A w \in Verifiers : Holder(w)' => w = v
    BY <2>3 DEF Holder
  <2>8. BackupUse'
    BY <2>2, <2>6, <2>7 DEF BackupUse
  <2>9. Reading'
    <3> SUFFICES ASSUME NEW w \in Verifiers, verifier'[w].at = "read"
                 PROVE  ~verifier'[w].backup /\ verifier'[w].stale
      BY DEF Reading
    <3>1. w # v
      BY <1>2, <2>4
    <3> QED
      BY <2>3, <3>1 DEF MfaInv, Reading
  <2>10. Failing' = Failing
    BY <1>0, <1>2, <2>3, <2>4 DEF Failing
  <2>11. Counted'
    BY <1>0, <2>2, <2>10 DEF MfaInv, Counted
  <2> QED
    BY <2>5, <2>8, <2>9, <2>11 DEF MfaInv
<1> QED
  BY <1>3, <1>4

\* The failure is saved: counted in the row, which is locked when it is the last.
LEMMA SaveFailureStep ==
  ASSUME MfaInv, NEW v \in Verifiers, SaveFailure(v) PROVE MfaInv'
<1> DEFINE seen == verifier[v].seen
           n == IF seen.attempts < MaxAttempts THEN seen.attempts + 1 ELSE MaxAttempts
<1>0. /\ MfaTypes /\ user \in Row /\ lockKey \in BOOLEAN /\ raced \in BOOLEAN
      /\ failures \in 0..MaxAttempts /\ UNCHANGED <<lockKey, failures, spent>>
      /\ verifier[v].at = "failing" /\ raced' = (raced \/ user # seen)
      /\ seen \in Row
  BY VerifierFacts DEF MfaInv, MfaTypes, SaveFailure
<1>1. seen.attempts \in 0..MaxAttempts /\ seen.count \in 0..MaxLockouts
  BY <1>0, MfaRowFacts
<1>2. n \in 1..MaxAttempts /\ (n < MaxAttempts => n = seen.attempts + 1)
  BY <1>1, MfaAssumption
<1>3. raced' \in BOOLEAN /\ (~raced' => ~raced /\ user = seen)
  BY <1>0
<1>4. \E q \in Verification :
        /\ Becomes(v, q) /\ q.at \in {"idle", "locked"}
        /\ user' \in Row /\ user'.backup = user.backup
        /\ \/ user'.lock = "running"
           \/ /\ user'.attempts = n /\ n < MaxAttempts
              /\ user'.count = user.count /\ user'.lock = user.lock
  <2>1. CASE Locking(n)
    <3>1. /\ user' = [user EXCEPT !.attempts = n, !.count = seen.count + 1, !.lock = "running"]
          /\ verifier' = Moves(v, "locked") /\ seen.count < MaxLockouts
      BY <2>1 DEF SaveFailure
    <3>2. Becomes(v, verifier'[v]) /\ verifier'[v].at = "locked"
      BY <1>0, <3>1, BecomesFacts DEF VerifierStages
    <3>3. seen.count + 1 \in 0..MaxLockouts /\ n \in 0..MaxAttempts
      BY <1>1, <1>2, <3>1, MfaAssumption
    <3> HIDE DEF n, seen
    <3>4. user' \in Row /\ user'.backup = user.backup /\ user'.lock = "running"
      BY <1>0, <3>1, <3>3 DEF Row, Locks
    <3>5. verifier'[v] \in Verification
      BY <3>2 DEF Becomes
    <3> QED
      BY <3>2, <3>4, <3>5
  <2>2. CASE ~Locking(n)
    <3>1. /\ user' = [user EXCEPT !.attempts = n] /\ verifier' = Done(v)
      BY <2>2 DEF SaveFailure
    <3>2. n < MaxAttempts /\ n \in 0..MaxAttempts
      BY <1>2, <2>2, MfaAssumption DEF Locking
    <3> HIDE DEF n
    <3>3. /\ user' \in Row /\ user'.backup = user.backup /\ user'.attempts = n
          /\ user'.count = user.count /\ user'.lock = user.lock
      BY <1>0, <3>1, <3>2 DEF Row
    <3>4. Becomes(v, VerifierAtRest)
      BY <1>0, <3>1, BecomesFacts
    <3> QED
      BY <3>2, <3>3, <3>4, VerifierRestFacts
  <2> QED
    BY <2>1, <2>2
<1> HIDE DEF n
<1>5. PICK q \in Verification :
        /\ Becomes(v, q) /\ q.at \in {"idle", "locked"}
        /\ user' \in Row /\ user'.backup = user.backup
        /\ \/ user'.lock = "running"
           \/ /\ user'.attempts = n /\ n < MaxAttempts
              /\ user'.count = user.count /\ user'.lock = user.lock
  BY <1>4
<1>6. MfaTypes'
  BY <1>0, <1>3, <1>5 DEF MfaTypes, Becomes
<1>7. BackupUse' /\ Reading'
  BY <1>0, <1>5, CodeUntouched
<1>8. IsFiniteSet(Failing') /\ Cardinality(Failing') = Cardinality(Failing) - 1
      /\ Cardinality(Failing) \in Nat
  BY <1>0, <1>5, FailingFacts
<1>9. Counted'
  <2> SUFFICES ASSUME ~raced', user'.lock = "never"
               PROVE  /\ user'.attempts < MaxAttempts /\ user'.count = 0
                      /\ failures' <= user'.attempts + Cardinality(Failing')
    BY <1>8 DEF Counted
  <2>1. /\ ~raced /\ user = seen /\ user'.attempts = n /\ n < MaxAttempts
        /\ user'.count = user.count /\ user.lock = "never"
    BY <1>3, <1>5
  <2>2. user.count = 0 /\ failures <= user.attempts + Cardinality(Failing)
    BY <2>1 DEF MfaInv, Counted
  <2>3. user'.attempts = user.attempts + 1 /\ user.attempts \in Nat
    BY <1>1, <1>2, <2>1, MfaAssumption
  <2> QED
    BY <1>0, <1>8, <2>1, <2>2, <2>3
<1> QED
  BY <1>6, <1>7, <1>9 DEF MfaInv

\* The sign-in is saved: the counters of the row start again, and so do the failures.
LEMMA SaveResetStep ==
  ASSUME MfaInv, NEW v \in Verifiers, SaveReset(v) PROVE MfaInv'
<1> DEFINE seen == verifier[v].seen
<1>0. /\ MfaTypes /\ user \in Row /\ lockKey \in BOOLEAN /\ raced \in BOOLEAN /\ lockKey' = lockKey
      /\ verifier[v].at = "resetting" /\ ~verifier[v].stale /\ failures' = 0
      /\ spent' = (IF verifier[v].backup THEN spent + 1 ELSE spent)
      /\ raced' = (raced \/ [user EXCEPT !.backup = seen.backup] # seen)
      /\ seen \in Row /\ verifier[v].backup \in BOOLEAN
  BY VerifierFacts DEF MfaInv, MfaTypes, SaveReset, ResetRefused
<1>1. /\ user' \in Row /\ user'.backup = user.backup
      /\ user'.attempts = (IF seen.attempts = 0 THEN user.attempts ELSE 0)
      /\ user'.count = (IF seen.count = 0 THEN user.count ELSE 0)
      /\ user'.lock = (IF seen.lock = "never" THEN user.lock ELSE "never")
  <2> DEFINE attempts == IF seen.attempts = 0 THEN user.attempts ELSE 0
             count == IF seen.count = 0 THEN user.count ELSE 0
             lock == IF seen.lock = "never" THEN user.lock ELSE "never"
  <2>1. attempts \in 0..MaxAttempts /\ count \in 0..MaxLockouts /\ lock \in Locks
    <3>1. user.attempts \in 0..MaxAttempts /\ user.count \in 0..MaxLockouts /\ user.lock \in Locks
      BY <1>0, MfaRowFacts
    <3>2. 0 \in 0..MaxAttempts /\ 0 \in 0..MaxLockouts /\ "never" \in Locks
      BY MfaAssumption DEF Locks
    <3> QED
      BY <3>1, <3>2
  <2>2. user' = [user EXCEPT !.attempts = attempts, !.count = count, !.lock = lock]
    <3>1. user' = [user EXCEPT !.attempts = IF seen.attempts = 0 THEN @ ELSE 0,
                               !.count = IF seen.count = 0 THEN @ ELSE 0,
                               !.lock = IF seen.lock = "never" THEN @ ELSE "never"]
      BY DEF SaveReset
    <3> QED
      BY <1>0, <3>1 DEF Row
  <2> HIDE DEF attempts, count, lock
  <2>3. /\ user' \in Row /\ user'.backup = user.backup
        /\ user'.attempts = attempts /\ user'.count = count /\ user'.lock = lock
    BY <1>0, <2>1, <2>2 DEF Row
  <2> QED
    BY <2>3 DEF attempts, count, lock
<1>2. ~raced' => /\ ~raced /\ user.attempts = seen.attempts /\ user.count = seen.count
                 /\ user.lock = seen.lock
  <2> SUFFICES ASSUME [user EXCEPT !.backup = seen.backup] = seen
               PROVE  /\ user.attempts = seen.attempts /\ user.count = seen.count
                      /\ user.lock = seen.lock
    BY <1>0
  <2> QED
    BY <1>0 DEF Row
<1>3. Becomes(v, verifier'[v]) /\ verifier'[v].at = "clearing"
  BY <1>0, BecomesFacts DEF SaveReset, VerifierStages
<1>4. verifier'[v] \in Verification /\ raced' \in BOOLEAN
  BY <1>0, <1>3 DEF Becomes
<1>5. spent \in {0, 1} /\ (verifier[v].backup => spent = 0 /\ ~user.backup)
      /\ \A w \in Verifiers \ {v} : Holder(w) => ~verifier[v].backup
  BY <1>0 DEF MfaInv, BackupUse, Holder
<1>6. MfaTypes'
  BY <1>0, <1>1, <1>3, <1>4, <1>5, MfaAssumption DEF MfaTypes, Becomes
<1>7. \A w \in Verifiers : Holder(w)' => Holder(w) /\ w # v
  BY <1>3 DEF Holder, Becomes
<1>8. BackupUse'
  <2>1. CASE verifier[v].backup
    <3>1. spent' = 1 /\ ~user'.backup /\ \A w \in Verifiers : ~Holder(w)'
      BY <1>0, <1>1, <1>5, <1>7, <2>1
    <3> QED
      BY <3>1 DEF BackupUse
  <2>2. CASE ~verifier[v].backup
    <3>1. spent' = spent /\ (user'.backup => user.backup)
      BY <1>0, <1>1, <2>2
    <3> QED
      BY <1>7, <3>1 DEF MfaInv, BackupUse
  <2> QED
    BY <2>1, <2>2
<1>9. Reading'
  BY <1>1, <1>3 DEF MfaInv, Reading, Becomes
<1>10. IsFiniteSet(Failing') /\ Cardinality(Failing') \in Nat
  BY <1>3, <1>4, FailingFacts
<1>11. Counted'
  <2> SUFFICES ASSUME ~raced'
               PROVE  user'.attempts = 0 /\ user'.count = 0
    BY <1>0, <1>10, MfaAssumption DEF Counted
  <2> QED
    BY <1>1, <1>2
<1> QED
  BY <1>6, <1>8, <1>9, <1>11 DEF MfaInv

LEMMA LockStep ==
  ASSUME MfaInv, LockEnds \/ LockKeyLapses PROVE MfaInv'
<1>0. MfaTypes /\ UNCHANGED <<verifier, failures, raced, spent>> /\ lockKey' \in BOOLEAN
  BY DEF MfaInv, MfaTypes, LockEnds, LockKeyLapses
<1>1. /\ user' \in Row /\ user'.backup = user.backup
      /\ user' = user \/ user'.lock # "never"
  BY <1>0 DEF LockEnds, LockKeyLapses, MfaTypes, Row, Locks
<1>2. MfaTypes'
  BY <1>0, <1>1 DEF MfaTypes
<1>3. BackupUse' /\ Reading'
  BY <1>0, <1>1 DEF MfaInv, BackupUse, Reading, Holder
<1>4. Counted'
  BY <1>0, <1>1 DEF MfaInv, Counted, Failing
<1> QED
  BY <1>2, <1>3, <1>4 DEF MfaInv

LEMMA MfaStep == MfaInv /\ [MfaNext]_mfaVars => MfaInv'
<1> SUFFICES ASSUME MfaInv, [MfaNext]_mfaVars PROVE MfaInv'
  OBVIOUS
<1>1. CASE UNCHANGED mfaVars
  BY <1>1 DEF mfaVars, MfaInv, MfaTypes, BackupUse, Reading, Counted, Holder, Failing
<1> QED
  BY <1>1, EnterStep, WrongCodeStep, EndsStep, SaveFailureStep, RightCodeStep, BackupCodeStep,
     SaveResetStep, LockStep DEF MfaNext

\* The row, the verifications and the counters keep their types (MfaLockoutService).
THEOREM MfaTypesHold == MfaSpec => []MfaTypeOK
<1>1. MfaInv => MfaTypeOK
  BY DEF MfaInv, MfaTypes, MfaTypeOK, Verification, VerifierStages
<1> QED
  BY <1>1, MfaInitInv, MfaStep, PTL DEF MfaSpec

\* A backup code brings about one sign-in at most: whoever removed it from the row is
\* the only one whose reset is not refused for its old stamp (MfaService,
\* MfaLockoutService.ResetAsync).
THEOREM BackupCodeSpentOnce == MfaSpec => []BackupCodeOnce
<1>1. MfaInv => BackupCodeOnce
  BY DEF MfaInv, BackupUse, BackupCodeOnce
<1> QED
  BY <1>1, MfaInitInv, MfaStep, PTL DEF MfaSpec

\* MaxAttempts wrong codes lock the user, unless a request worked from an old row or
\* key or was cut short: each failure is in the row or on its way to it
\* (MfaLockoutService.RecordFailureAsync).
THEOREM FailuresLockTheUser == MfaSpec => []LockoutReached
<1>1. MfaInv => LockoutReached
  <2> SUFFICES ASSUME MfaInv, ~raced, failures = MaxAttempts, user.lock = "never",
                      \A v \in Verifiers : verifier[v].at # "failing"
               PROVE  FALSE
    BY DEF LockoutReached
  <2>1. Failing = {}
    BY DEF Failing
  <2>2. Cardinality(Failing) = 0
    BY <2>1, FS_EmptySet
  <2>3. user.attempts < MaxAttempts /\ failures <= user.attempts + Cardinality(Failing)
        /\ user.attempts \in 0..MaxAttempts
    BY MfaRowFacts DEF MfaInv, MfaTypes, Counted
  <2> QED
    BY <2>2, <2>3, MfaAssumption
<1> QED
  BY <1>1, MfaInitInv, MfaStep, PTL DEF MfaSpec
=============================================================================
