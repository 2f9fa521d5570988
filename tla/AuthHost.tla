------------------------------ MODULE AuthHost ------------------------------
(***************************************************************************)
(* The auth host as the BFF meets it: a sign-in starts a family of         *)
(* refresh tokens under an authorization of its own, each redeemed token   *)
(* is replaced by a new one, and the family ends at an absolute expiry     *)
(* (MaxTok grants).  A redeemed token may be redeemed again within its     *)
(* reuse leeway; past it, its reuse revokes the whole family.  How long    *)
(* ago a token was redeemed is not followed: either may be the case.       *)
(***************************************************************************)
EXTENDS SessionData

VARIABLES minted,   \* tokens minted so far for the sign-in of an id
          spent,    \* tokens that have been redeemed
          dead      \* tokens that have been revoked

host == <<minted, spent, dead>>

HostTypeOK ==
    /\ minted \in [Ids -> 0 .. MaxTok]
    /\ spent \in [Ids -> SUBSET (1 .. MaxTok)]
    /\ dead \in [Ids -> SUBSET (1 .. MaxTok)]

HostInit ==
    /\ minted = [id \in Ids |-> 0]
    /\ spent = [id \in Ids |-> {}]
    /\ dead = [id \in Ids |-> {}]

Accepts(id, t) == t \notin dead[id] /\ minted[id] < MaxTok

\* The code exchange of a sign-in.
SignIn(id) ==
    /\ minted' = [minted EXCEPT ![id] = IF id \in Offline THEN 1 ELSE 0]
    /\ UNCHANGED <<spent, dead>>

Redeem(id, t) ==
    /\ minted' = [minted EXCEPT ![id] = @ + 1]
    /\ spent' = [spent EXCEPT ![id] = @ \cup {t}]
    /\ UNCHANGED dead

\* Mutant: the reuse of a redeemed token costs that token alone.
RefuseToken(id, t) ==
    \/ ~Accepts(id, t) /\ UNCHANGED host
    \/ /\ Accepts(id, t) /\ t \in spent[id]
       /\ dead' = [dead EXCEPT ![id] = @ \cup {t}]
       /\ UNCHANGED <<minted, spent>>

\* A refused grant: a revoked token, an ended family, or a redeemed token past
\* its leeway, which takes every token of the authorization with it.
Refuse(id, t) ==
    \/ ~Accepts(id, t) /\ UNCHANGED host
    \/ /\ Accepts(id, t) /\ t \in spent[id]
       /\ dead' = [dead EXCEPT ![id] = 1 .. MaxTok]
       /\ UNCHANGED <<minted, spent>>

\* RFC 7009 revocation of one token of each id in S.
RevokeTokens(S, tokOf) ==
    /\ dead' = [id \in Ids |-> IF id \in S THEN dead[id] \cup {tokOf[id]} ELSE dead[id]]
    /\ UNCHANGED <<minted, spent>>
=============================================================================
