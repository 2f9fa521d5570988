---------------------------- MODULE ValkeyStore ----------------------------
(***************************************************************************)
(* The keys ValkeySessionStore keeps and the single commands it sends.     *)
(* Every method of the store is a sequence of these commands with an       *)
(* await between any two, so each command is a step of its own; the        *)
(* methods themselves are composed from them in BffSession.                *)
(***************************************************************************)
EXTENDS SessionData

VARIABLES rec,      \* session:<id>      -> the record or None
          sidIdx,   \* sid:<sid>         -> an id or None
          subIdx,   \* sub:<sub>         -> set of ids
          lock,     \* refreshlock:<id>  -> present or not; holds no owner
          behind    \* the index keys whose TTL has not been renewed since the
                    \* last SET of session:<id>, so may pass before it does

store == <<rec, sidIdx, subIdx, lock, behind>>

StoreTypeOK ==
    /\ rec \in [Ids -> Session \cup {None}]
    /\ sidIdx \in [Sids -> Ids \cup {None}]
    /\ subIdx \in [Subs -> SUBSET Ids]
    /\ lock \in [Ids -> BOOLEAN]
    /\ behind \in [Ids -> SUBSET {"sid", "sub"}]

StoreInit ==
    /\ rec = [id \in Ids |-> None]
    /\ sidIdx = [s \in Sids |-> None]
    /\ subIdx = [u \in Subs |-> {}]
    /\ lock = [id \in Ids |-> FALSE]
    /\ behind = [id \in Ids |-> {}]

\* A record is there and its index key will outlive it.
Covered(id, index) == rec[id] # None /\ index \notin behind[id]

\* write
SetSession(id, s) ==
    /\ rec' = [rec EXCEPT ![id] = s]
    /\ behind' = [behind EXCEPT ![id] = {"sid", "sub"}]
    /\ UNCHANGED <<sidIdx, subIdx, lock>>

\* Mutant: the sid index written the wrong way round.
SetSidSwapped(id) ==
    /\ sidIdx' = [sidIdx EXCEPT ![SidOf[id]] = SidOf[id]]
    /\ behind' = [behind EXCEPT ![id] = @ \ {"sid"}]
    /\ UNCHANGED <<rec, subIdx, lock>>

SetSid(id) ==
    /\ sidIdx' = [sidIdx EXCEPT ![SidOf[id]] = id]
    /\ behind' = [behind EXCEPT ![id] = @ \ {"sid"}]
    /\ UNCHANGED <<rec, subIdx, lock>>

\* SADD and the EXPIRE after it.
AddSub(id) ==
    /\ subIdx' = [subIdx EXCEPT ![SubOf[id]] = @ \cup {id}]
    /\ behind' = [behind EXCEPT ![id] = @ \ {"sub"}]
    /\ UNCHANGED <<rec, sidIdx, lock>>

\* destroyRecord
DelSession(id) ==
    /\ rec' = [rec EXCEPT ![id] = None]
    /\ behind' = [behind EXCEPT ![id] = {}]
    /\ UNCHANGED <<sidIdx, subIdx, lock>>

DelSid(id) ==
    /\ sidIdx' = [sidIdx EXCEPT ![SidOf[id]] = None]
    /\ UNCHANGED <<rec, subIdx, lock, behind>>

\* Mutant: the whole set deleted (DEL for SREM).
RemSubAll(id) ==
    /\ subIdx' = [subIdx EXCEPT ![SubOf[id]] = {}]
    /\ UNCHANGED <<rec, sidIdx, lock, behind>>

RemSub(id) ==
    /\ subIdx' = [subIdx EXCEPT ![SubOf[id]] = @ \ {id}]
    /\ UNCHANGED <<rec, sidIdx, lock, behind>>

\* withRefreshLock
SetLock(id, held) ==
    /\ lock' = [lock EXCEPT ![id] = held]
    /\ UNCHANGED <<rec, sidIdx, subIdx, behind>>

\* Mutant: an index key whose TTL is not renewed by later writes.
ExpireSidAnytime(s) ==
    /\ sidIdx[s] # None /\ sidIdx' = [sidIdx EXCEPT ![s] = None]
    /\ UNCHANGED <<rec, subIdx, lock, behind>>

\* The TTL of an index key passes: every record it was renewed for is gone.
ExpireSid(s) ==
    /\ sidIdx[s] # None
    /\ \A id \in Ids : SidOf[id] = s => ~Covered(id, "sid")
    /\ sidIdx' = [sidIdx EXCEPT ![s] = None]
    /\ UNCHANGED <<rec, subIdx, lock, behind>>

ExpireSub(u) ==
    /\ subIdx[u] # {}
    /\ \A id \in Ids : SubOf[id] = u => ~Covered(id, "sub")
    /\ subIdx' = [subIdx EXCEPT ![u] = {}]
    /\ UNCHANGED <<rec, sidIdx, lock, behind>>
=============================================================================
