----------------------------- MODULE LoginSessions -----------------------------
(***************************************************************************)
(* The login sessions of one user at the auth host: the ledger             *)
(* (identity.active_sessions) that SessionService keeps, the sid in each   *)
(* browser's Identity cookie, and the grants (OpenIddict authorizations    *)
(* with their tokens) that AuthorizationController stores for a sid.       *)
(*                                                                         *)
(* SessionService takes pg_advisory_xact_lock outside any transaction, so  *)
(* the lock is released with its own statement and orders nothing: it is   *)
(* left out.  OpenIddict shares the request's IdentityDbContext, so when   *)
(* it saves a revoked token it also saves the ledger row that the request  *)
(* has already marked as revoked.                                          *)
(***************************************************************************)
EXTENDS Integers, FiniteSets, FiniteSetsExt

CONSTANTS
  Sids,         \* session ids, numbered in the order they are created
  Browsers,     \* the user's browsers; each runs one sign-in at a time
  Enders,       \* requests to end a session, in progress at the same time
  MaxSessions,  \* SessionService.MaxSessions
  NoSid         \* no session

VARIABLES
  ledger,     \* the row of each session
  sidGrant,   \* the grants stored for each sid
  cookie,     \* the sid in each browser's cookie
  login,      \* the sign-in of each browser
  ender,      \* the requests to end a session
  overlapped  \* a session was created while another sign-in was creating one

loginVars == <<ledger, sidGrant, cookie, login, ender, overlapped>>

ASSUME LoginAssumption ==
  /\ Sids \subseteq Nat /\ IsFiniteSet(Sids) /\ NoSid \notin Sids
  /\ MaxSessions \in Nat \ {0}

RowStates == {"unused", "live", "expired", "revoked", "pruned"}
LoginStages == {"idle", "create", "evict", "add", "admitted", "overtaken"}

\* sid: the session to evict until the new one is added, then the new one.
Login == [at : LoginStages, sid : Sids \cup {NoSid}]
Ender == [at : {"idle", "read", "scanned"}, sid : Sids \cup {NoSid}]

LoginAtRest == [at |-> "idle", sid |-> NoSid]
EnderAtRest == [at |-> "idle", sid |-> NoSid]

LoginInit ==
  /\ ledger = [s \in Sids |-> "unused"]
  /\ sidGrant = [s \in Sids |-> "none"]
  /\ cookie = [b \in Browsers |-> NoSid]
  /\ login = [b \in Browsers |-> LoginAtRest]
  /\ ender = [e \in Enders |-> EnderAtRest]
  /\ overlapped = FALSE

Live == {s \in Sids : ledger[s] = "live"}

\* A save that finds the row revokes it.
Revoked(s) == [ledger EXCEPT ![s] = IF @ \in {"live", "expired"} THEN "revoked" ELSE @]

\* The sign-ins that found the session s live before its row was revoked.
Overtake(ls, s) ==
  [b \in Browsers |-> IF ls[b].at = "admitted" /\ ls[b].sid = s
                      THEN [ls[b] EXCEPT !.at = "overtaken"] ELSE ls[b]]

\* Mutant: an ended session's grants are left alone.
GrantsKept(s) == sidGrant

\* AccessRevoker.RevokeSessionAsync: every authorization whose sid is s.
GrantsRevoked(s) == [sidGrant EXCEPT ![s] = "none"]

\* The scan has revoked the grants of s, and the row is still to be saved.
EndingUnderWay(s) ==
  \/ \E e \in Enders : ender[e].at = "scanned" /\ ender[e].sid = s
  \/ \E b \in Browsers : login[b].at = "add" /\ login[b].sid = s

-----------------------------------------------------------------------------
(* /connect/authorize of a signed-in browser.                              *)

CheckCookie(b) ==
  /\ login[b].at = "idle"
  /\ login' = [login EXCEPT ![b] =
       IF cookie[b] \in Live
       THEN [at |-> "admitted", sid |-> cookie[b]]
       ELSE [at |-> "create", sid |-> NoSid]]
  /\ UNCHANGED <<ledger, sidGrant, cookie, ender, overlapped>>

\* Mutant: the oldest session goes only when the limit is already exceeded.
MustEvictLate(live) == Cardinality(live) > MaxSessions

MustEvict(live) == Cardinality(live) >= MaxSessions

ReadLive(b) ==
  /\ login[b].at = "create"
  /\ login' = [login EXCEPT ![b] =
       IF MustEvict(Live) THEN [at |-> "evict", sid |-> Min(Live)]
                          ELSE [at |-> "add", sid |-> NoSid]]
  /\ UNCHANGED <<ledger, sidGrant, cookie, ender, overlapped>>

\* The oldest session's row is revoked in memory, then its grants are.  A row
\* pruned since makes the save, and with it the sign-in, fail.
Evict(b) ==
  LET s == login[b].sid
      moved == [login EXCEPT ![b].at = "add"]
  IN /\ login[b].at = "evict"
     /\ \/ /\ ledger[s] = "pruned"
           /\ login' = [login EXCEPT ![b] = LoginAtRest]
           /\ UNCHANGED <<ledger, sidGrant>>
        \/ /\ ledger[s] # "pruned"
           /\ sidGrant' = GrantsRevoked(s)
           /\ \/ /\ sidGrant[s] = "none"
                 /\ login' = moved
                 /\ ledger' = ledger
              \/ /\ sidGrant[s] # "none"
                 /\ login' = Overtake(moved, s)
                 /\ ledger' = Revoked(s)
     /\ UNCHANGED <<cookie, ender, overlapped>>

\* One save adds the new session and revokes the evicted one.
AddSession(b) ==
  LET old == login[b].sid
      new == Min({s \in Sids : ledger[s] = "unused"})
      busy == \E c \in Browsers \ {b} : login[c].at \in {"evict", "add"}
  IN /\ login[b].at = "add"
     /\ \E s \in Sids : ledger[s] = "unused"
     /\ \/ /\ old # NoSid /\ ledger[old] = "pruned"
           /\ login' = [login EXCEPT ![b] = LoginAtRest]
           /\ UNCHANGED <<ledger, overlapped>>
        \/ /\ old = NoSid
           /\ ledger' = [ledger EXCEPT ![new] = "live"]
           /\ login' = [login EXCEPT ![b] = [at |-> "admitted", sid |-> new]]
           /\ overlapped' = (overlapped \/ busy)
        \/ /\ old # NoSid /\ ledger[old] # "pruned"
           /\ ledger' = [Revoked(old) EXCEPT ![new] = "live"]
           /\ login' = [Overtake(login, old) EXCEPT
                          ![b] = [at |-> "admitted", sid |-> new]]
           /\ overlapped' = (overlapped \/ busy)
     /\ UNCHANGED <<sidGrant, cookie, ender>>

\* The authorization is stored and its code goes back with the cookie.
StoreSidGrant(b) ==
  LET s == login[b].sid
  IN /\ login[b].at \in {"admitted", "overtaken"}
     /\ sidGrant' = [sidGrant EXCEPT ![s] =
          IF login[b].at = "overtaken" \/ EndingUnderWay(s) \/ @ = "stray"
          THEN "stray" ELSE "good"]
     /\ cookie' = [cookie EXCEPT ![b] = s]
     /\ login' = [login EXCEPT ![b] = LoginAtRest]
     /\ UNCHANGED <<ledger, ender, overlapped>>

\* The process stops or the caller goes away.
GiveUpLogin(b) ==
  /\ login[b].at # "idle"
  /\ login' = [login EXCEPT ![b] = LoginAtRest]
  /\ UNCHANGED <<ledger, sidGrant, cookie, ender, overlapped>>

\* Logout revokes the grants of the cookie's sid and signs the cookie out; the
\* ledger row stays live.
LogOut(b) ==
  /\ login[b].at = "idle" /\ cookie[b] # NoSid
  /\ sidGrant' = GrantsRevoked(cookie[b])
  /\ cookie' = [cookie EXCEPT ![b] = NoSid]
  /\ UNCHANGED <<ledger, login, ender, overlapped>>

-----------------------------------------------------------------------------
(* Ending one session by request, expiry and the pruning job.              *)

EndRequested(e, s) ==
  /\ ender[e].at = "idle" /\ ledger[s] \notin {"unused", "pruned"}
  /\ ender' = [ender EXCEPT ![e] = [at |-> "read", sid |-> s]]
  /\ UNCHANGED <<ledger, sidGrant, cookie, login, overlapped>>

EndGrants(e) ==
  LET s == ender[e].sid
  IN /\ ender[e].at = "read"
     /\ \/ /\ ledger[s] = "pruned"
           /\ ender' = [ender EXCEPT ![e] = EnderAtRest]
           /\ UNCHANGED <<ledger, sidGrant, login>>
        \/ /\ ledger[s] # "pruned"
           /\ sidGrant' = GrantsRevoked(s)
           /\ ender' = [ender EXCEPT ![e].at = "scanned"]
           /\ \/ /\ sidGrant[s] = "none"
                 /\ UNCHANGED <<ledger, login>>
              \/ /\ sidGrant[s] # "none"
                 /\ ledger' = Revoked(s)
                 /\ login' = Overtake(login, s)
     /\ UNCHANGED <<cookie, overlapped>>

EndSave(e) ==
  LET s == ender[e].sid
  IN /\ ender[e].at = "scanned"
     /\ ledger' = Revoked(s)
     /\ login' = Overtake(login, s)
     /\ ender' = [ender EXCEPT ![e] = EnderAtRest]
     /\ UNCHANGED <<sidGrant, cookie, overlapped>>

GiveUpEnding(e) ==
  /\ ender[e].at # "idle"
  /\ ender' = [ender EXCEPT ![e] = EnderAtRest]
  /\ UNCHANGED <<ledger, sidGrant, cookie, login, overlapped>>

SessionExpires(s) ==
  /\ ledger[s] = "live"
  /\ ledger' = [ledger EXCEPT ![s] = "expired"]
  /\ UNCHANGED <<sidGrant, cookie, login, ender, overlapped>>

\* SessionPruningJob; one save removes every such row.
PruneSessions ==
  /\ \E s \in Sids : ledger[s] \in {"expired", "revoked"}
  /\ ledger' = [s \in Sids |-> IF ledger[s] \in {"expired", "revoked"}
                               THEN "pruned" ELSE ledger[s]]
  /\ UNCHANGED <<sidGrant, cookie, login, ender, overlapped>>

LoginNext ==
  \/ \E b \in Browsers :
       \/ CheckCookie(b) \/ ReadLive(b) \/ Evict(b) \/ AddSession(b)
       \/ StoreSidGrant(b) \/ GiveUpLogin(b) \/ LogOut(b)
  \/ \E e \in Enders :
       \/ \E s \in Sids : EndRequested(e, s)
       \/ EndGrants(e) \/ EndSave(e) \/ GiveUpEnding(e)
  \/ \E s \in Sids : SessionExpires(s)
  \/ PruneSessions

LoginSpec == LoginInit /\ [][LoginNext]_loginVars

-----------------------------------------------------------------------------
(* What the ledger is for.                                                 *)

\* The type of the state.
LoginTypeOK ==
  /\ ledger \in [Sids -> RowStates]
  /\ sidGrant \in [Sids -> {"none", "good", "stray"}]
  /\ cookie \in [Browsers -> Sids \cup {NoSid}]
  /\ login \in [Browsers -> Login]
  /\ ender \in [Enders -> Ender]
  /\ overlapped \in BOOLEAN

\* The limit of SessionService holds as long as no two sign-ins of the user
\* create a session at the same time.
CappedWithoutOverlap == ~overlapped => Cardinality(Live) <= MaxSessions

\* The documented limit, without that condition.
SessionsCapped == Cardinality(Live) <= MaxSessions

\* Once a session's row is revoked (by its user or by eviction) its sid keeps no
\* working grant, save one whose sign-in found the row live before that and
\* stored it after the revocation's scan ("stray").
EndedSessionsUnused == \A s \in Sids : ledger[s] = "revoked" => sidGrant[s] # "good"
=============================================================================
