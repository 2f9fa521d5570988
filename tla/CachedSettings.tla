---------------------------- MODULE CachedSettings ----------------------------
(***************************************************************************)
(* The settings of one tenant and module as its users see them             *)
(* (CachedSettingsService): PostgreSQL behind a distributed cache with an  *)
(* absolute time to live of five minutes.  A reader that misses reads the  *)
(* database and fills the cache afterwards; a change writes the database,  *)
(* then drops the tenant's entry and the entry of the user who made it.    *)
(*                                                                         *)
(* Settings are abstracted to the number of changes made to them: an entry *)
(* holds the number of those its reader found, of the tenant's settings    *)
(* and, for a user's entry, of his own.                                    *)
(***************************************************************************)
EXTENDS Integers

CONSTANTS
  SettingUsers,
  Editors,     \* the users who change settings
  Tenant,      \* the cache key of the tenant, beside those of its users
  MaxChanges,  \* bound on the changes at each level
  NotCached

VARIABLES
  changes,   \* the changes in the database, to the tenant's and to each user's
  entry,     \* the cache, by key
  reader,    \* the reader of each key (one at a time): what it has read
  changer,   \* the request by which each user changes settings
  raced      \* keys filled by a reader that had read before the entry was dropped

settingVars == <<changes, entry, reader, changer, raced>>

CacheKeys == SettingUsers \cup {Tenant}

ASSUME SettingAssumption ==
  /\ Tenant \notin SettingUsers /\ Editors \subseteq SettingUsers
  /\ MaxChanges \in Nat /\ NotCached \notin 0..2 * MaxChanges

ChangerAtRest == [at |-> "idle", drops |-> {}, made |-> 0]

ReaderAtRest == [at |-> "idle", found |-> 0]

SettingInit ==
  /\ changes = [k \in CacheKeys |-> 0]
  /\ entry = [k \in CacheKeys |-> NotCached]
  /\ reader = [k \in CacheKeys |-> ReaderAtRest]
  /\ changer = [u \in Editors |-> ChangerAtRest]
  /\ raced = {}

\* The changes that the settings resolved for k have gone through.
Current(k) == changes[Tenant] + (IF k = Tenant THEN 0 ELSE changes[k])

-----------------------------------------------------------------------------
(* GetTenantSettings, GetUserSettings                                      *)

ReadTenantSettings(k) ==
  /\ reader[k].at = "idle" /\ entry[k] = NotCached
  /\ reader' = [reader EXCEPT ![k] =
                  [at |-> IF k = Tenant THEN "read" ELSE "half", found |-> changes[Tenant]]]
  /\ UNCHANGED <<changes, entry, changer, raced>>

ReadUserSettings(k) ==
  /\ reader[k].at \in {"half", "lateHalf"}
  /\ reader' = [reader EXCEPT ![k] = [at |-> IF @.at = "half" THEN "read" ELSE "late",
                                     found |-> @.found + changes[k]]]
  /\ UNCHANGED <<changes, entry, changer, raced>>

FillCache(k) ==
  /\ reader[k].at \in {"read", "late"}
  /\ entry' = [entry EXCEPT ![k] = reader[k].found]
  /\ raced' = IF reader[k].at = "late" THEN raced \cup {k} ELSE raced \ {k}
  /\ reader' = [reader EXCEPT ![k] = ReaderAtRest]
  /\ UNCHANGED <<changes, changer>>

ReaderFails(k) ==
  /\ reader[k].at # "idle"
  /\ reader' = [reader EXCEPT ![k] = ReaderAtRest]
  /\ UNCHANGED <<changes, entry, changer, raced>>

\* Mutant: the time to live starts again with every reader, so a busy entry stays.
EntryExpiresUnlessRead(k) ==
  /\ entry[k] = Current(k)
  /\ entry' = [entry EXCEPT ![k] = NotCached]
  /\ raced' = raced \ {k}
  /\ UNCHANGED <<changes, reader, changer>>

EntryExpires(k) ==
  /\ entry[k] # NotCached
  /\ entry' = [entry EXCEPT ![k] = NotCached]
  /\ raced' = raced \ {k}
  /\ UNCHANGED <<changes, reader, changer>>

-----------------------------------------------------------------------------
(* UpdateTenantSettings, UpdateUserSettings and the deletions              *)

\* Mutant: a change for the tenant drops the tenant's entry alone.
DropsTenantOnly(u, whole) == IF whole THEN {Tenant} ELSE {u}

\* The entries that a change by user u drops.
Drops(u, whole) == IF whole THEN {Tenant, u} ELSE {u}

\* The settings of one request, written together.  whole: those of the tenant rather
\* than those of user u.
Change(u, whole) ==
  LET k == IF whole THEN Tenant ELSE u
  IN /\ changer[u].at = "idle" /\ changes[k] < MaxChanges
     /\ changes' = [changes EXCEPT ![k] = @ + 1]
     /\ changer' = [changer EXCEPT ![u] =
          [at |-> "dropping", drops |-> Drops(u, whole), made |-> Current(u) + 1]]
     /\ UNCHANGED <<entry, reader, raced>>

\* A reader that missed before its entry was dropped is late.
Late(at) == CASE at = "half" -> "lateHalf" [] at = "read" -> "late" [] OTHER -> at

\* The tenant's entry goes first.
Drop(u, k) ==
  /\ changer[u].at = "dropping" /\ k \in changer[u].drops
  /\ k # Tenant => Tenant \notin changer[u].drops
  /\ entry' = [entry EXCEPT ![k] = NotCached]
  /\ changer' = [changer EXCEPT ![u].drops = @ \ {k}]
  /\ reader' = [reader EXCEPT ![k].at = Late(@)]
  /\ raced' = raced \ {k}
  /\ UNCHANGED changes

\* The request returns ...
ChangeDone(u) ==
  /\ changer[u].at = "dropping" /\ changer[u].drops = {}
  /\ changer' = [changer EXCEPT ![u].at = "done"]
  /\ UNCHANGED <<changes, entry, reader, raced>>

\* ... and its user goes on to something else.
ChangeSeen(u) ==
  /\ changer[u].at = "done"
  /\ changer' = [changer EXCEPT ![u] = ChangerAtRest]
  /\ UNCHANGED <<changes, entry, reader, raced>>

\* An exception or a crash: what was written stands, entries that were to go stay.
ChangeFails(u) ==
  /\ changer[u].at = "dropping"
  /\ changer' = [changer EXCEPT ![u] = ChangerAtRest]
  /\ UNCHANGED <<changes, entry, reader, raced>>

SettingNext ==
  \/ \E k \in CacheKeys :
       \/ ReadTenantSettings(k) \/ ReadUserSettings(k) \/ FillCache(k) \/ ReaderFails(k)
       \/ EntryExpires(k)
       \/ \E u \in Editors : Drop(u, k)
  \/ \E u \in Editors :
       \/ \E whole \in BOOLEAN : Change(u, whole)
       \/ ChangeDone(u) \/ ChangeSeen(u) \/ ChangeFails(u)

SettingSpec == SettingInit /\ [][SettingNext]_settingVars

\* The cache keeps its absolute expirations, and requests come to their end.
CacheFairness ==
  \A k \in CacheKeys :
    /\ WF_settingVars(ReadUserSettings(k) \/ FillCache(k) \/ ReaderFails(k))
    /\ WF_settingVars(EntryExpires(k))

-----------------------------------------------------------------------------
(* What a user relies on.                                                  *)

\* The type of the state.
SettingTypeOK ==
  /\ changes \in [CacheKeys -> 0..MaxChanges]
  /\ entry \in [CacheKeys -> 0..2 * MaxChanges \cup {NotCached}]
  /\ reader \in [CacheKeys -> [at : {"idle", "half", "read", "lateHalf", "late"},
                               found : 0..2 * MaxChanges]]
  /\ changer \in [Editors -> [at : {"idle", "dropping", "done"}, drops : SUBSET CacheKeys, made : 0..2 * MaxChanges]]
  /\ raced \subseteq CacheKeys

\* When a change has returned, the user who made it does not read older settings
\* from the cache, unless one of his own readers had missed before the change.
OwnChangeSeen ==
  \A u \in Editors :
    changer[u].at = "done" =>
      entry[u] = NotCached \/ entry[u] >= changer[u].made \/ u \in raced

\* Whatever was left behind (other users' entries, late readers, changes that failed
\* half way), everybody reads the current settings in the end.
AllCatchUp == <>[](\A k \in CacheKeys : entry[k] \in {NotCached, Current(k)})
=============================================================================
