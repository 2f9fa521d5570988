-------------------------------- MODULE ApiKeys --------------------------------
(***************************************************************************)
(* The API keys of one user: RedisApiKeyService and the limit check of     *)
(* ApiKeysController.  The rows are in PostgreSQL; Redis holds, per key,   *)
(* the validation entry (by hash), which is trusted without a look at the  *)
(* row, and per user the set of key ids, whose size is the user's count.   *)
(* The by-id entry is written and never read: it is left out.              *)
(***************************************************************************)
EXTENDS FiniteSets, Integers

CONSTANTS
  Keys,        \* the keys that may be created
  Creators,    \* requests to create a key, in progress at the same time
  Validators,  \* authentications with a key
  Revokers,    \* requests to revoke a key
  MaxPerUser,  \* ApiKeys:MaxPerUser
  NoKey

VARIABLES
  keyRow,     \* the row of each key
  entry,      \* its validation entry: "late" if set by a request overtaken by
              \* the revocation
  userKeys,   \* the ids in the user's set
  issued,     \* the keys handed to the user
  confirmed,  \* the keys whose revocation was answered with success
  creator, validator, revoker,  \* the requests
  uncounted   \* creations overlapped, or Redis was flushed or failed a count

keyVars == <<keyRow, entry, userKeys, issued, confirmed, creator, validator,
             revoker, uncounted>>

ASSUME KeyAssumption ==
  /\ IsFiniteSet(Keys) /\ NoKey \notin Keys
  /\ MaxPerUser \in Nat

Steps == {"idle", "counted", "row", "cached", "listed", "missed", "read", "overtaken",
          "revoked", "dropped"}

Request == [at : Steps, key : Keys \cup {NoKey}]

KeyAtRest == [at |-> "idle", key |-> NoKey]

KeyInit ==
  /\ keyRow = [k \in Keys |-> "none"]
  /\ entry = [k \in Keys |-> "none"]
  /\ userKeys = {} /\ issued = {} /\ confirmed = {}
  /\ creator = [c \in Creators |-> KeyAtRest]
  /\ validator = [v \in Validators |-> KeyAtRest]
  /\ revoker = [r \in Revokers |-> KeyAtRest]
  /\ uncounted = FALSE

-----------------------------------------------------------------------------
(* Creating a key.                                                         *)

\* Mutant: the limit is refused only once it is exceeded.
UnderLimitByOne(count) == count <= MaxPerUser

UnderLimit(count) == count < MaxPerUser

\* The creations that have counted and not yet added their key to the set.
Uncounted(c) == {d \in Creators \ {c} : creator[d].at \in {"counted", "row", "overtaken", "cached"}}

\* The controller's check.  A count that fails is 0.
CountKeys(c) ==
  /\ creator[c].at = "idle"
  /\ \/ /\ UnderLimit(Cardinality(userKeys))
        /\ uncounted' = (uncounted \/ Uncounted(c) # {})
     \/ uncounted' = TRUE
  /\ creator' = [creator EXCEPT ![c] = [at |-> "counted", key |-> NoKey]]
  /\ UNCHANGED <<keyRow, entry, userKeys, issued, confirmed, validator, revoker>>

AddKeyRow(c, k) ==
  /\ creator[c].at = "counted" /\ keyRow[k] = "none"
  /\ keyRow' = [keyRow EXCEPT ![k] = "active"]
  /\ creator' = [creator EXCEPT ![c] = [at |-> "row", key |-> k]]
  /\ UNCHANGED <<entry, userKeys, issued, confirmed, validator, revoker, uncounted>>

\* SET by hash.  The time to live is computed from the row's expiry: past it,
\* the SET fails.
EntrySet(q) ==
  [entry EXCEPT ![q.key] = IF q.at = "overtaken" THEN "late" ELSE "good"]

\* The requests that had the row of k when it was revoked.
OvertakeKey(requests, k, stage) ==
  [q \in DOMAIN requests |->
     IF requests[q].at = stage /\ requests[q].key = k
     THEN [requests[q] EXCEPT !.at = "overtaken"] ELSE requests[q]]

CacheNewKey(c) ==
  /\ creator[c].at \in {"row", "overtaken"} /\ keyRow[creator[c].key] # "expired"
  /\ entry' = EntrySet(creator[c])
  /\ creator' = [creator EXCEPT ![c].at = "cached"]
  /\ UNCHANGED <<keyRow, userKeys, issued, confirmed, validator, revoker, uncounted>>

ListNewKey(c) ==
  /\ creator[c].at = "cached"
  /\ userKeys' = userKeys \cup {creator[c].key}
  /\ creator' = [creator EXCEPT ![c].at = "listed"]
  /\ UNCHANGED <<keyRow, entry, issued, confirmed, validator, revoker, uncounted>>

IssueKey(c) ==
  /\ creator[c].at = "listed"
  /\ issued' = issued \cup {creator[c].key}
  /\ creator' = [creator EXCEPT ![c] = KeyAtRest]
  /\ UNCHANGED <<keyRow, entry, userKeys, confirmed, validator, revoker, uncounted>>

\* An exception: the row and what Redis has already stored stay; the key itself
\* is lost.
FailCreate(c) ==
  /\ creator[c].at # "idle"
  /\ creator' = [creator EXCEPT ![c] = KeyAtRest]
  /\ UNCHANGED <<keyRow, entry, userKeys, issued, confirmed, validator, revoker, uncounted>>

-----------------------------------------------------------------------------
(* Authenticating with a key.  A hit is accepted at once, and its update   *)
(* of the last use (SET XX) leaves the entry as it is: no step.            *)

MissEntry(v, k) ==
  /\ validator[v].at = "idle" /\ k \in issued /\ entry[k] = "none"
  /\ validator' = [validator EXCEPT ![v] = [at |-> "missed", key |-> k]]
  /\ UNCHANGED <<keyRow, entry, userKeys, issued, confirmed, creator, revoker, uncounted>>

ReadKeyRow(v) ==
  /\ validator[v].at = "missed"
  /\ validator' = [validator EXCEPT ![v] =
       IF keyRow[@.key] = "active" THEN [@ EXCEPT !.at = "read"] ELSE KeyAtRest]
  /\ UNCHANGED <<keyRow, entry, userKeys, issued, confirmed, creator, revoker, uncounted>>

CacheKey(v) ==
  /\ validator[v].at \in {"read", "overtaken"} /\ keyRow[validator[v].key] # "expired"
  /\ entry' = EntrySet(validator[v])
  /\ validator' = [validator EXCEPT ![v] = KeyAtRest]
  /\ UNCHANGED <<keyRow, userKeys, issued, confirmed, creator, revoker, uncounted>>

FailValidate(v) ==
  /\ validator[v].at # "idle"
  /\ validator' = [validator EXCEPT ![v] = KeyAtRest]
  /\ UNCHANGED <<keyRow, entry, userKeys, issued, confirmed, creator, revoker, uncounted>>

-----------------------------------------------------------------------------
(* Revoking a key.                                                         *)

\* Mutant: a key whose row is revoked already counts as done.
ReadKeyOnce(r, k) ==
  /\ revoker[r].at = "idle" /\ keyRow[k] # "none"
  /\ \/ /\ keyRow[k] = "revoked"
        /\ confirmed' = confirmed \cup {k}
        /\ revoker' = revoker
     \/ /\ keyRow[k] # "revoked"
        /\ revoker' = [revoker EXCEPT ![r] = [at |-> "read", key |-> k]]
        /\ confirmed' = confirmed
  /\ UNCHANGED <<keyRow, entry, userKeys, issued, creator, validator, uncounted>>

\* A row that is revoked already is not saved again.
ReadKey(r, k) ==
  /\ revoker[r].at = "idle" /\ keyRow[k] # "none"
  /\ revoker' = [revoker EXCEPT ![r] =
       [at |-> IF keyRow[k] = "revoked" THEN "revoked" ELSE "read", key |-> k]]
  /\ UNCHANGED <<keyRow, entry, userKeys, issued, confirmed, creator, validator, uncounted>>

RevokeRow(r) ==
  /\ revoker[r].at = "read"
  /\ keyRow' = [keyRow EXCEPT ![revoker[r].key] = "revoked"]
  /\ revoker' = [revoker EXCEPT ![r].at = "revoked"]
  /\ creator' = OvertakeKey(creator, revoker[r].key, "row")
  /\ validator' = OvertakeKey(validator, revoker[r].key, "read")
  /\ UNCHANGED <<entry, userKeys, issued, confirmed, uncounted>>

DropEntry(r) ==
  /\ revoker[r].at = "revoked"
  /\ entry' = [entry EXCEPT ![revoker[r].key] = "none"]
  /\ revoker' = [revoker EXCEPT ![r].at = "dropped"]
  /\ UNCHANGED <<keyRow, userKeys, issued, confirmed, creator, validator, uncounted>>

\* The id leaves the user's set, and the caller is told that the key is gone.
UnlistKey(r) ==
  /\ revoker[r].at = "dropped"
  /\ userKeys' = userKeys \ {revoker[r].key}
  /\ confirmed' = confirmed \cup {revoker[r].key}
  /\ revoker' = [revoker EXCEPT ![r] = KeyAtRest]
  /\ UNCHANGED <<keyRow, entry, issued, creator, validator, uncounted>>

\* An exception, answered like an unknown key; the user may ask again.
FailRevoke(r) ==
  /\ revoker[r].at # "idle"
  /\ revoker' = [revoker EXCEPT ![r] = KeyAtRest]
  /\ UNCHANGED <<keyRow, entry, userKeys, issued, confirmed, creator, validator, uncounted>>

-----------------------------------------------------------------------------
(* Time and the cache.                                                     *)

\* The entries go with the key's expiry, the id in the user's set stays.
KeyExpires(k) ==
  /\ keyRow[k] = "active"
  /\ keyRow' = [keyRow EXCEPT ![k] = "expired"]
  /\ entry' = [entry EXCEPT ![k] = "none"]
  /\ UNCHANGED <<userKeys, issued, confirmed, creator, validator, revoker, uncounted>>

FlushRedis ==
  /\ entry' = [k \in Keys |-> "none"]
  /\ userKeys' = {}
  /\ uncounted' = TRUE
  /\ UNCHANGED <<keyRow, issued, confirmed, creator, validator, revoker>>

KeyNext ==
  \/ \E c \in Creators :
       \/ CountKeys(c) \/ CacheNewKey(c) \/ ListNewKey(c) \/ IssueKey(c) \/ FailCreate(c)
       \/ \E k \in Keys : AddKeyRow(c, k)
  \/ \E v \in Validators :
       \/ \E k \in Keys : MissEntry(v, k)
       \/ ReadKeyRow(v) \/ CacheKey(v) \/ FailValidate(v)
  \/ \E r \in Revokers :
       \/ \E k \in Keys : ReadKey(r, k)
       \/ RevokeRow(r) \/ DropEntry(r) \/ UnlistKey(r) \/ FailRevoke(r)
  \/ \E k \in Keys : KeyExpires(k)
  \/ FlushRedis

KeySpec == KeyInit /\ [][KeyNext]_keyVars

-----------------------------------------------------------------------------
(* What the keys' owner relies on.                                         *)

\* The type of the state.
KeyTypeOK ==
  /\ keyRow \in [Keys -> {"none", "active", "expired", "revoked"}]
  /\ entry \in [Keys -> {"none", "good", "late"}]
  /\ userKeys \subseteq Keys /\ issued \subseteq Keys /\ confirmed \subseteq Keys
  /\ creator \in [Creators -> Request]
  /\ validator \in [Validators -> Request]
  /\ revoker \in [Revokers -> Request]
  /\ uncounted \in BOOLEAN

\* A key whose revocation was confirmed authenticates nobody, whatever faults and
\* retries led there, unless a request that had the row before it was revoked
\* set the entry afterwards ("late").
RevocationDrops == \A k \in confirmed : entry[k] # "good"

\* "Revocation permanently prevents authentication with the key": nothing is
\* cached of a key whose revocation was confirmed.
RevokedForGood == \A k \in confirmed : entry[k] = "none"

Usable == {k \in issued : keyRow[k] = "active"}

\* No user holds more usable keys than the limit, as long as creations do not
\* overlap and Redis neither loses the set nor fails to count it.
KeyLimitHolds == ~uncounted => Cardinality(Usable) <= MaxPerUser
=============================================================================
