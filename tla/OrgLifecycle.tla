----------------------------- MODULE OrgLifecycle -----------------------------
(***************************************************************************)
(* One organisation and a client registered with it: archive, platform     *)
(* suspension and deletion (OrganizationService), the client's own         *)
(* suspensions and deletion (OrganizationClientService), the policy that   *)
(* refuses their token requests (ClientAccessPolicy), and the revocation   *)
(* of the client's tokens in the same transaction.                         *)
(*                                                                         *)
(* A suspension changes the entity and then runs a transaction under EF's  *)
(* retrying execution strategy: save, revoke the tokens, commit.  So does  *)
(* a client's reinstatement, which has no tokens to revoke.  The save      *)
(* marks the entity as unchanged even when the transaction is rolled back  *)
(* afterwards, so the strategy's second run saves nothing.                 *)
(***************************************************************************)
EXTENDS FiniteSets

CONSTANTS
  Admins,     \* requests of owners and operators in progress at the same time
  Exchanges,  \* token requests of the client in progress at the same time
  Tokens      \* tokens the client may be given

VARIABLES
  bars,    \* what keeps the organisation and the client from being served
  admin,   \* the owners' and operators' requests
  trade,   \* the client's token requests
  tokens,  \* the client's valid tokens
  strays   \* those of them issued past a bar, by a request it overtook

orgVars == <<bars, admin, trade, tokens, strays>>

\* Organization: IsActive, IsPlatformSuspended.  RegisteredClient: Status,
\* IsPlatformSuspended.
BarsOf(t) == IF t = "org" THEN {"archived", "held"} ELSE {"suspended", "held"}

Targets == {"org", "client"}

Gone == {"deleted"}

\* by: the bar put up or lifted; for a deletion, who asks for it.  stale: the
\* organisation's row has been written since the request read it.
\* found: the valid tokens the transaction has found to revoke.
Admin == [kind : {"rest", "bar", "lift", "delete"}, target : Targets,
          by : {"archived", "suspended", "held", "owner", "platform"},
          at : {"read", "saved", "scanned", "replay"},
          stale : BOOLEAN, found : SUBSET Tokens]

AdminAtRest == [kind |-> "rest", target |-> "org", by |-> "held", at |-> "read",
                stale |-> FALSE, found |-> {}]

OrgInit ==
  /\ bars = [t \in Targets |-> {}]
  /\ admin = [a \in Admins |-> AdminAtRest]
  /\ trade = [x \in Exchanges |-> "idle"]
  /\ tokens = {} /\ strays = {}

Serviceable == bars["org"] = {} /\ bars["client"] = {}

InTransaction(a) == admin[a].at \in {"saved", "scanned"}

\* No other transaction holds the row that the request is about to write.
Unheld(a) == \A c \in Admins \ {a} : InTransaction(c) => admin[c].target # admin[a].target

Ended(a) == [admin EXCEPT ![a] = AdminAtRest]

\* A commit gives the organisation's row a new xmin; the client's row has none.
Outdate(as, t) ==
  [c \in Admins |-> IF t = "org" /\ as[c].target = "org"
                    THEN [as[c] EXCEPT !.stale = as[c].kind # "rest"] ELSE as[c]]

\* The token requests that have already passed the policy's look at t.
OvertakeTrades(t) ==
  [x \in Exchanges |->
     IF trade[x] = "checked" \/ (trade[x] = "clientRead" /\ t = "client")
     THEN "overtaken" ELSE trade[x]]

-----------------------------------------------------------------------------
(* Putting up and lifting bars.                                            *)

\* The entity refuses a bar that is there and a lift of one that is not.
AskBar(a, t, b) ==
  /\ admin[a].kind = "rest" /\ bars[t] # Gone /\ b \in BarsOf(t)
  /\ admin' = [admin EXCEPT ![a] =
       [AdminAtRest EXCEPT !.kind = IF b \in bars[t] THEN "lift" ELSE "bar",
                           !.target = t, !.by = b]]
  /\ UNCHANGED <<bars, trade, tokens, strays>>

\* A save with an old xmin, or of a client that is gone, throws.
SaveFails(a) ==
  /\ admin[a].kind \in {"bar", "lift"} /\ admin[a].at = "read" /\ Unheld(a)
  /\ admin[a].stale \/ bars[admin[a].target] = Gone
  /\ admin' = Ended(a)
  /\ UNCHANGED <<bars, trade, tokens, strays>>

\* The first statement of a transaction.
SaveInTransaction(a) ==
  /\ admin[a].kind = "bar" \/ (admin[a].kind = "lift" /\ admin[a].target = "client")
  /\ admin[a].at = "read" /\ Unheld(a)
  /\ ~admin[a].stale /\ bars[admin[a].target] # Gone
  /\ admin' = [admin EXCEPT ![a].at = "saved"]
  /\ UNCHANGED <<bars, trade, tokens, strays>>

\* AccessRevoker.RevokeOrganizationAsync or RevokeClientAsync.
ScanTokens(a) ==
  /\ admin[a].kind = "bar" /\ admin[a].at = "saved"
  /\ admin' = [admin EXCEPT ![a].at = "scanned", ![a].found = tokens]
  /\ UNCHANGED <<bars, trade, tokens, strays>>

\* Mutant: the tokens are left to expire.
CommitBarOnly(a) ==
  LET t == admin[a].target
  IN /\ admin[a].at = "scanned"
     /\ bars' = [bars EXCEPT ![t] = @ \cup {admin[a].by}]
     /\ admin' = Outdate(Ended(a), t)
     /\ trade' = OvertakeTrades(t)
     /\ UNCHANGED <<tokens, strays>>

\* Tokens issued since the scan stay valid.
CommitBar(a) ==
  LET t == admin[a].target
  IN /\ admin[a].at = "scanned"
     /\ bars' = [bars EXCEPT ![t] = @ \cup {admin[a].by}]
     /\ tokens' = tokens \ admin[a].found
     /\ strays' = tokens \ admin[a].found
     /\ admin' = Outdate(Ended(a), t)
     /\ trade' = OvertakeTrades(t)

\* A transient fault after the save: the transaction is rolled back.
TransientFault(a) ==
  /\ InTransaction(a)
  /\ admin' = [admin EXCEPT ![a].at = "replay", ![a].found = {}]
  /\ UNCHANGED <<bars, trade, tokens, strays>>

\* The second run: no entity is left to save, and the tokens that the first run
\* marked are still marked in memory and are skipped; a lift looks for none.  It
\* commits and the event is published.
CommitReplay(a) ==
  /\ admin[a].at = "replay"
  /\ \E gone \in SUBSET (IF admin[a].kind = "bar" THEN tokens ELSE {}) :
       /\ tokens' = tokens \ gone
       /\ strays' = strays \ gone
  /\ admin' = Ended(a)
  /\ UNCHANGED <<bars, trade>>

Lifted(a) ==
  LET t == admin[a].target
  IN /\ bars' = [bars EXCEPT ![t] = @ \ {admin[a].by}]
     /\ admin' = Outdate(Ended(a), t)
     /\ UNCHANGED <<trade, tokens, strays>>

\* Reactivate and the organisation's reinstatement: one save, no transaction.
SaveLift(a) ==
  /\ admin[a].kind = "lift" /\ admin[a].target = "org" /\ Unheld(a)
  /\ ~admin[a].stale /\ bars["org"] # Gone
  /\ Lifted(a)

\* The client's reinstatements.
CommitLift(a) ==
  /\ admin[a].kind = "lift" /\ admin[a].at = "saved"
  /\ Lifted(a)

-----------------------------------------------------------------------------
(* Deletions.                                                              *)

\* Mutant: EnsureDeletable is not called.
MayDeleteAnyway(t, who) == bars[t] # Gone

\* Only the platform may delete an organisation it holds.
MayDelete(t, who) ==
  /\ bars[t] # Gone
  /\ t = "org" /\ "held" \in bars[t] => who = "platform"

AskDelete(a, t, who) ==
  /\ admin[a].kind = "rest" /\ MayDelete(t, who)
  /\ admin' = [admin EXCEPT ![a] =
       [AdminAtRest EXCEPT !.kind = "delete", !.target = t, !.by = who]]
  /\ UNCHANGED <<bars, trade, tokens, strays>>

\* One transaction: tokens, applications, and the rows, whatever their xmin.
\* The organisation's clients go with it.
Delete(a) ==
  LET t == admin[a].target
  IN /\ admin[a].kind = "delete"
     /\ \A c \in Admins : ~InTransaction(c)
     /\ bars' = [bars EXCEPT !["client"] = Gone,
                             !["org"] = IF t = "org" THEN Gone ELSE @]
     /\ tokens' = {} /\ strays' = {}
     /\ admin' = Outdate(Ended(a), t)
     /\ trade' = OvertakeTrades("client")

GiveUpAdmin(a) ==
  /\ admin[a].kind # "rest"
  /\ admin' = Ended(a)
  /\ UNCHANGED <<bars, trade, tokens, strays>>

-----------------------------------------------------------------------------
(* /connect/token: RefuseUnserviceableClientTokenRequests, then the tokens. *)

ReadClient(x) ==
  /\ trade[x] = "idle" /\ bars["client"] = {}
  /\ trade' = [trade EXCEPT ![x] = "clientRead"]
  /\ UNCHANGED <<bars, admin, tokens, strays>>

ReadOrg(x) ==
  /\ trade[x] = "clientRead"
  /\ trade' = [trade EXCEPT ![x] = IF bars["org"] = {} THEN "checked" ELSE "idle"]
  /\ UNCHANGED <<bars, admin, tokens, strays>>

\* A token of an application that is gone cannot be stored.
Issue(x, k) ==
  /\ trade[x] \in {"checked", "overtaken"} /\ k \notin tokens
  /\ bars["client"] # Gone
  /\ tokens' = tokens \cup {k}
  /\ strays' = IF trade[x] = "overtaken" THEN strays \cup {k} ELSE strays
  /\ trade' = [trade EXCEPT ![x] = "idle"]
  /\ UNCHANGED <<bars, admin>>

TradeFails(x) ==
  /\ trade[x] # "idle"
  /\ trade' = [trade EXCEPT ![x] = "idle"]
  /\ UNCHANGED <<bars, admin, tokens, strays>>

TokenLapses(k) ==
  /\ k \in tokens
  /\ tokens' = tokens \ {k} /\ strays' = strays \ {k}
  /\ UNCHANGED <<bars, admin, trade>>

OrgNext ==
  \/ \E a \in Admins :
       \/ \E t \in Targets : \/ \E b \in BarsOf(t) : AskBar(a, t, b)
                             \/ \E who \in {"owner", "platform"} : AskDelete(a, t, who)
       \/ SaveFails(a) \/ SaveInTransaction(a) \/ ScanTokens(a) \/ CommitBar(a)
       \/ TransientFault(a) \/ CommitReplay(a) \/ SaveLift(a) \/ CommitLift(a)
       \/ Delete(a) \/ GiveUpAdmin(a)
  \/ \E x \in Exchanges :
       \/ ReadClient(x) \/ ReadOrg(x) \/ TradeFails(x)
       \/ \E k \in Tokens : Issue(x, k)
  \/ \E k \in Tokens : TokenLapses(k)

OrgSpec == OrgInit /\ [][OrgNext]_orgVars

-----------------------------------------------------------------------------
(* What owners and operators rely on.                                      *)

\* The type of the state.
OrgTypeOK ==
  /\ \A t \in Targets : bars[t] \in (SUBSET BarsOf(t)) \cup {Gone}
  /\ admin \in [Admins -> Admin]
  /\ trade \in [Exchanges -> {"idle", "clientRead", "checked", "overtaken"}]
  /\ strays \subseteq tokens /\ tokens \subseteq Tokens

\* A barred or deleted client, or one of a barred organisation, holds no valid
\* token, save one issued to a request that the policy had passed before the bar
\* was committed.
ServedOnly == ~Serviceable => tokens \subseteq strays

\* An owner's deletion removes an organisation under platform suspension only if
\* it had read the row before the suspension was committed.
HoldOutlivesOwner ==
  [][bars["org"] # Gone /\ "held" \in bars["org"] /\ bars'["org"] = Gone
     => \E a \in Admins : admin[a].kind = "delete" /\ admin[a].target = "org"
                          /\ (admin[a].by = "platform" \/ admin[a].stale)]_orgVars

\* "Commit archive state and database revocations together": when an archive
\* commits and goes on to publish its event, the organisation is archived.
ArchivedTogether ==
  [][\A a \in Admins : admin[a].kind = "bar" /\ (CommitBar(a) \/ CommitReplay(a))
       => admin[a].by \in bars'[admin[a].target]]_orgVars
=============================================================================
