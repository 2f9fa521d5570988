# Wallow in TLA+

Wallow is a multi-tenant platform: a .NET modular monolith (`src/api`), web
applications, and a TypeScript SDK (`src/packages/sdk`) whose server half is a
backend-for-frontend (BFF). A browser never sees a token: the BFF keeps the
tokens of its session in a store shared by all replicas, attaches them to the
requests it proxies and refreshes them when they run out. Almost every hard
question of this code base is about that shared state: many requests of one
browser, on many replicas, each a chain of awaited store commands and calls to
the auth host, with no transaction around any two of them.

This directory models that core, checks it with TLC, and proves its main safety
properties with TLAPS.

## Inventory

| Component | State | Operations | Interacts with |
|---|---|---|---|
| BFF session handling (`sdk/src/server/{proxy,handlers,backchannel-logout}.ts`, `store/valkey.ts`) | Valkey keys `session:<id>`, `sid:<sid>`, `sub:<sub>`, `refreshlock:<id>`; one record copy per request in progress | login callback, `/api` proxy with proactive and reactive refresh, browser, front-channel and back-channel logout | auth host (token, revocation), API |
| OP token endpoint (OpenIddict, configured in the Identity module) | refresh-token families, reuse leeway | code exchange, refresh, revocation (of one token, or of the family when a spent one is used again) | BFF |
| Service-account token source (`sdk/src/server/service.ts`) | cache key, lock key, one promise per replica | `get`, `invalidate`, `acquire` | auth host, API |
| BFF namespace claim (`store/valkey.ts`, `claimNamespace`) | key `namespace` with a TTL | claim, renew, warn | other BFF instances |
| Cookie and memory stores (`store/cookie.ts`, `store/memory.ts`) | map of refreshes in flight | `withRefreshLock` | BFF |
| Browser telemetry queue (`telemetry/src/browser-queue.ts`) | queue, byte budget, generation, counters | enqueue, flush, reset, dispose | telemetry relay |
| API keys (`RedisApiKeyService`, `ApiKeysController`) | row, Redis validation entry, per-user set | create, validate, revoke | gateway |
| Login sessions (`SessionService`, `AuthorizationController`, `LogoutController`) | ledger rows, sid in a cookie, grants by sid | sign in with a cap, log out, end a session, prune | auth host |
| MFA (`MfaLockoutService`, `MfaService`, `WallowUser`) | attempt counter, lockout count and end in the user's row, lock key in Redis, backup codes | challenge, failure, reset | auth host |
| Organisation membership (`OrganizationService`, `MembershipReviewService`, `UserEnrollmentService`, `LastOwnerGuard`, `AccessRevoker`) | membership rows, tokens | add, enrol, request, approve, deny, suspend, reinstate, remove, leave | auth host, invitations |
| Invitations (`InvitationService`, `ExpiredInvitationPruningJob`) | invitation rows | create, accept, revoke, expire | membership |
| Organisations and clients (`OrganizationService`, `OrganizationClientService`, `ClientAccessPolicy`) | rows with archive, suspension and platform hold; client tokens | bar, lift, delete; refuse or issue a client-credentials token | auth host |
| File storage (upload, presigned upload, delete, orphan sweep) | object and row | upload, complete, delete, sweep | object store |
| Email (`SendEmailHandler`, `RetryFailedEmailsJob`) | message rows | send, retry | mail server |
| Cached settings (`CachedSettingsService`) | rows; a cache entry per tenant and per user | read, update, delete | every module |
| Presence (`RealtimeHub`, `RedisPresenceService`) | four kinds of Redis keys | connect, change page, disconnect | other users of the tenant |
| Push, SMS, in-app notifications, SSE streams, plugins, inquiries, branding | rows, dictionaries | see PROJECT.json | - |

PROJECT.json lists every component with its status, and every hazard at the
line where it bites.

What is hard here: two requests refreshing one session; a lock that is only a
key with a TTL and has no owner; writes of several commands with a stop between
any two; index keys and records on TTLs of their own; logouts that race
refreshes; a token read before the lock and spent after it; failures of the auth
host. In the API: entities read by one statement and saved by a later one, with a
concurrency token on some tables and none on others; revocations that scan for
tokens while requests that passed the check earlier still issue them; transactions
run again by a retrying strategy; a database and Redis, or a database and an object
store, written one after the other; jobs whose runs overlap. What makes each part
correct:

- sessions: refreshes exclude each other; back-channel logout finds every live
  session; a session that is over stays over; every request is answered and no
  lock stays behind;
- service token: one token for a whole fleet; nobody is left waiting for an
  acquire that is gone; a stopped lock holder shuts nobody out;
- membership: an organisation with an active owner never loses the last; who is
  suspended ends up without access and is reinstated only on purpose;
- login sessions: the cap holds; an ended session's grants stay dead;
- MFA: enough wrong codes lock the user, whatever interleaves; a backup code works
  once;
- API keys: a confirmed revocation is not forgotten by the cache; the limit holds;
- organisations: who is barred holds no token; a hold cannot be deleted away;
- invitations: spent together with a membership, decided once, one at a time;
- storage: a row never points at a swept object; orphans go; the quota is passed by
  no more than what is under way;
- telemetry: every event is counted once and sent in the context it was recorded in;
- email: what was sent is not sent for ever; what failed is settled;
- settings: who changes one sees the change, all others in the end;
- presence: no ghosts, and the end of a user's last connection is announced.

## Modules

| Module | What it is |
|---|---|
| `SessionData` | constants: ids, OP sessions, subjects, and what is fixed per id |
| `ValkeyStore` | the keys of the session store and its single commands |
| `AuthHost` | refresh-token families as the BFF meets them |
| `BffSession` | the handlers, composed from the two above |
| `SessionLife` | the abstract promise about the life of a session |
| `MCBffSession` | constants of the TLC instances |
| `BffProofs` | theorems about `BffSession` |
| `ServiceToken` | the service-account token source |
| `Roster` | the abstract promise about the members of an organisation |
| `Membership` | the memberships of one organisation, the last-owner guard, sign-ins and token exchanges |
| `MembershipProofs` | theorems about `Membership` and `Invitations` |
| `LoginSessions` | the login sessions of one user |
| `MfaLockout` | the second factor of one user |
| `SignInProofs` | theorems about `LoginSessions` and `MfaLockout` |
| `ApiKeys` | the API keys of one user |
| `OrgLifecycle` | an organisation, one of its clients, and that client's tokens |
| `RevocationProofs` | theorems about `OrgLifecycle` and `ApiKeys` |
| `Invitations` | the invitations of one email address |
| `FileStorage` | the files of one tenant |
| `EventLine` | the abstract promise about a page's telemetry |
| `BrowserQueue` | the telemetry queue of one page |
| `EmailDelivery` | emails and the retry job |
| `CachedSettings` | the settings of one tenant and its users |
| `StorageProofs` | theorems about `ServiceToken`, `FileStorage` and `CachedSettings` |
| `Presence` | the presence of one user |
| `MessagingProofs` | theorems about `Presence`, `EmailDelivery` and `BrowserQueue` |
| `MCIdentity` | instances of `Membership`, `LoginSessions`, `ApiKeys`, `OrgLifecycle`, `MfaLockout`, `Invitations` |
| `MCPlatform` | instances of `ServiceToken`, `FileStorage`, `BrowserQueue`, `EmailDelivery`, `CachedSettings`, `Presence` |
| `IdentityProofs`, `PlatformProofs` | theorems about what `MCIdentity` and `MCPlatform` put side by side |

`BffSession` composes its parts, because they act on each other. The components in
`MCIdentity` and `MCPlatform` share no state (where two of them touch the same
table or service, the touching operations are in both, as said below), so they are
put side by side and not interleaved: the variable `part` names the component a
behaviour is about, and the others stay as they start. Interleaving independent
components would multiply the states and could show nothing new. The constant
`Parts` restricts a run to some of them.

### BffSession and the code

A *handler activation* (`act[h]`) is one HTTP request in a replica; any number
run at once and nothing but the store relates them, so replicas need no model of
their own. It takes **one step per awaited call**; local code runs with the step
before it. `pc` says which call comes next:

| `pc` | next call | action | code |
|---|---|---|---|
| `set`, `sid`, `sub` | the commands of `write` | `WriteRecord`, `WriteSid`, `WriteSub` | `valkey.ts` 182-196 |
| `lock` | `SET refreshlock NX EX` | `TakeLock` | `valkey.ts` 266-283 |
| `grant` | refresh grant | `Granted`, `Refused`, `Unanswered` | `proxy.ts` 192-228 |
| `unlock` | `DEL refreshlock` in the `finally` | `Unlock` | `valkey.ts` 284-289 |
| `adopt` | the read after a contended lock | `Adopt` | `proxy.ts` 229-241 |
| `forward`, `replay` | attempts at the API | `Forward`, `Replay` | `proxy.ts` 274-395, 860-910 |
| `destroy` | `destroyRecord` for one id or several at once (`job`) | `JobGet`, `JobDel`, `JobSid`, `JobSub`, `Destroyed` | `valkey.ts` 198-229 |
| `clean` | the last `DEL` of `revokeBySid` | `CleanSid` | `valkey.ts` 242-245 |
| `revoke` | RFC 7009 revocations | `RevokeUpstream` | `backchannel-logout.ts` 164-189 |

A request starts with `Callback`, `ProxyRead`, `LogoutRead`, `BackchannelSid` or
`BackchannelSub`. `phase` keeps why a record is being written: the refresh was
*proactive* (token about to expire), *reactive* (the API said 401), or the record
is written a second time by the proxy after a proactive refresh or an adoption
(*reseal*). `seen` is what `destroyRecord` read and back-channel logout revokes.

`born` (ids drawn by a login), `issued` (ids whose reference reached a browser)
and `ended` (ids whose record somebody deleted) are history. `issued` also guards
the requests a browser can make.

Tokens are numbered per sign-in in the order they were minted: `rec[id].tok` is
the refresh token of the stored record, and its access token goes by the same
number. `behind[id]` holds the index keys whose TTL has not been renewed since
the last `SET` of the record: `write` renews record, sid index and subject set
one after the other, and only an index key that has been renewed after the
record is known to outlive it.

The environment: a replica may stop between any two calls (`Crash`), a store call
may throw (`Crash` outside the lock, where the request just fails; `StoreFault`
inside it, where the `finally` runs), the auth host may fail to answer
(`Transient`), the refresh may take longer than the lock's 10 s (`SlowRefresh`),
and records and indexes reach their TTL (`Expiry`). Each is a constant or an action
of its own, so a theorem can say exactly which of them it excludes.

The auth host rotates refresh tokens and detects their reuse
(`IdentityInfrastructureExtensions.cs` 91-100): a token redeemed already is redeemed
once more within its leeway (`Granted`), and past it revokes every token of its
authorization, also the ones minted since (`Refused` with `Refuse`). The time since the
redemption is not followed, so a reuse may fall on either side. A refusal says that
the grant is gone, while `Unanswered` leaves it as it is; the proxy does not tell
the two apart.

Abstractions to keep in mind:

- `SADD` and the `EXPIRE` after it are one step. A stop between them leaves a set
  that lives longer than it should, or keeps its old, shorter TTL; the second is
  what `behind` already allows for.
- An index key may pass as soon as no record is `Covered` by it, which may be
  earlier than in reality. Nothing is claimed of such records.
- Requests without a session, with a bad CSRF token or with an unmatched
  back-channel lookup change nothing and are left out.
- Front-channel logout is `LogoutRead`: past its checks it does the same.
- The number of tokens per sign-in is bounded by `MaxTok`, which stands for the
  family's absolute expiry: the last token is refused.
- `Forward` chooses the API's answer. A 401 leads to the forced refresh if there
  is a refresh token, a throttled read to a replay, all else to an answer.

### SessionLife

The promise of the store interface with every detail removed: an id is drawn
once, a record is put only by an activation that holds a copy, and a copy comes
from the login or from reading a record that is there. Its consequence is
`OverForGood`: without a record and without a copy, a session never comes back.
`BffSession` implements it with `live` = ids that have a record and `holders` =
activations at a program point where they may still put the session back
(`HoldsCopy`).

### ServiceToken and the code

`flight[r]` is `inflight` of replica `r`: the one `acquire` its callers share.
`call[c]` is one request of `send` on `HomeOf[c]`. Again one step per awaited call:

| `flight[r].pc` | next call | action | code (`service.ts`) |
|---|---|---|---|
| `lock` | `SET NX EX` | `AcquireLock` | 210-222 |
| `check` | the read under the lock | `DoubleCheck` | 224-228 |
| `grant`, `store` | client-credentials grant, `SET` of the cache | `Grant`, `GrantFails`, `Store` | 254-268 |
| `unlock` | `DEL` in the `finally` | `Unlock` | 229-231 |
| `poll`, `peek` | cache, then lock | `PollCache`, `PollLock` | 235-251 |
| `reread` | last read once the lock is gone | `Reread` | 249, 216-222 |

A request goes `read` (`get`), `wait` (for the flight), `send`, and after a first
401 `inspect`, `drop` (`invalidate`) and once more `read`. `stale` holds tokens
within 30 s of their expiry, `rejected` those the API refuses. `met` and `late`
stand for the clock of `awaitLockHolder`: its deadline is the lock's own TTL,
counted from later on, so it can pass only once the lock the replica ran into is
gone. `trouble` is history: something has failed, been slow or been rejected.

### Membership and the code

`row[u]` is the membership row of a user in one organisation: none, or a status and
the owner mark. A request (`req[r]`) reads the row (`Begin`), checks the entity
(`Accepted`) and saves what the operation makes of it (`Saved`); a save goes through
only if no other save of the row came between (`Current`, `Stale`: the `xmin` of
`MembershipConfiguration.cs` 56, or the unique index for a row that was not there).
A departure (suspend; remove and leave, which do the same) runs in the guard:

| stage | next call | action | code |
|---|---|---|---|
| `read` | `SELECT ... FOR UPDATE` of the active owners is sent | `Ask` | `LastOwnerGuard.cs` 33-44 |
| `asking` | it gets its locks | `LockOwners` | 35-44 |
| `locked` | the owners are counted | `CountOwners` | 46-58 |
| `counted` | the departure is saved and committed | `Depart` | `OrganizationService.cs` 220-245, `MembershipReviewService.cs` 122-182 |
| `revoke` | grants and tokens are revoked | `Revoke` | `AccessRevoker.cs` 132-227 |

`LockOwners` follows PostgreSQL: it waits for the rows its snapshot found and locks
those that still match. `Retry` is the execution strategy, `Abandon` a stop. Members
in `Callers` sign in (`Authorize`, `StoreGrant`) and exchange tokens (`Redeem`,
`CheckMember`, `Mint`), each step a database call; `overtaken` marks an exchange that
had read the membership before the departure's commit, and `stray` the token it
mints. Global administrators, who are exempt, are left out.

`Roster` is the promise with the requests removed: three sets, of the active members, of
the suspended ones and of those with the owner mark, and five changes made at once, of
which the two departures let an active owner go only while another one stays
(`Dispensable`). `Membership` implements it by reading the sets off the rows: a request's
save or commit is the one step of it that changes the roster, and the reads, locks,
counts, aborted saves, retries and revocations around it are stutters.

### LoginSessions and the code

`ledger[s]` is the session's row, `sidGrant[s]` the grants stored under its sid,
`cookie[b]` the sid in a browser's Identity cookie. A sign-in checks the cookie
(`CheckCookie`), else creates a session: read the live ones (`ReadLive`), revoke the
oldest one's grants (`Evict`), one save for the eviction and the new row
(`AddSession`); then the authorization is stored and the cookie set (`StoreSidGrant`).
`EndRequested`, `EndGrants` and `EndSave` are the ending of one session from the list.
Two facts of the code shape the module. The advisory lock has no transaction around it
and orders nothing, so it is no step. And OpenIddict shares the request's `DbContext`,
so saving a revoked token saves the ledger row that the request has already marked:
`Evict` and `EndGrants` revoke the row too when there is a grant to save. `LogOut`
leaves the row alone: the code does. A grant is a `stray` when the sign-in that stores
it had found the session live before its row was revoked, or while that was under way.

### MfaLockout and the code

`user` is the row's attempt count, lockout count, lock and one backup code that is
followed; `lockKey` the Redis key. A verification reads the user (`Challenge`), and a
wrong code asks the key first (`WrongCode`), then saves (`SaveFailure`, `SetLockKey`);
a right one goes through `RightCode` or `BackupCode` to `SaveReset` and `ClearLockKey`.
Every save asks for the concurrency stamp that was read, and only `UserManager` gives a
new one: hence `stale`. What a save writes depends on who makes it. `MfaLockoutService`
saves the tracked entity, so the columns that differ from what was read; `UpdateAsync`
of `UserManager` marks the whole entity as modified, so taking a backup code off the
list (`BackupCode`) writes attempts, count and lock as they were read, over a failure
saved in between without a new stamp. Such a request is `raced`. `Reread` leaves open
whether a later query of the same request finds the tracked entity or the row, as the context's default of not tracking
(`IdentityDbContext.cs` 53) and explicit tracking mix. `FailureLost` is the save that is
refused, or the lockout whose duration overflows (`Overflows`). `raced` is history: a
request worked from an old row or key, or was cut short while failing.

### ApiKeys and the code

`keyRow[k]` is the row, `entry[k]` the validation entry, `userKeys` the user's set.
`CountKeys` to `IssueKey` create, `MissEntry` to `CacheKey` validate, `ReadKey` to
`UnlistKey` revoke, each step one database or Redis call and each with its failure. A
validation that hits the entry changes nothing the module tells apart and is no step.
An entry is `late` if the request that set it had the row before it was revoked.
`uncounted` is history: creations overlapped, Redis was flushed, or a count failed and
came out as 0.

### OrgLifecycle and the code

`bars[t]` is what keeps the organisation or its client from being served: archived,
suspended, held by the platform; or `deleted`. A bar is put up by `AskBar`, `SaveInTransaction`,
`ScanTokens`, `CommitBar` in one transaction (archive and hold of the organisation,
suspension and hold of the client all run the same way). The organisation's bars are
lifted by one save (`SaveLift`), the client's in a transaction of that same kind
(`SaveInTransaction`, `CommitLift`). A deletion is one transaction. `TransientFault` and
`CommitReplay` are the retrying strategy, for bars and for the client's reinstatement:
EF has marked the entity as saved, so the second run saves nothing.
`trade[x]` is a client-credentials request: the policy's two reads (`ReadClient`,
`ReadOrg`) and `Issue`; `strays` are tokens issued to a request that a bar overtook. The
organisation's row has an `xmin` check (`stale`), the client's has none.

### Invitations and the code

The invitations of one email address: `invite[i]` and `due` (past its expiry),
`member`, and requests that read rows and save later. Nothing protects the rows: every
save writes what it changed over whatever is there. Accepting saves the membership and
the invitation at once (`SaveAccept`); what concurrent changes of the membership row do
to it is in `Membership`, whose operation `accept` is the same request. `crossed`
holds the rows that were decided while another request had them pending.

### FileStorage and the code

A file is `fileRow[f]` and `object[f]`, written by different steps. An upload through
the API is `CheckQuota`, `PutObject`, `AddRow`; a presigned one is `CheckQuota` and
`AddRow`, then `PutByUrl` by the browser while the URL is valid, then `FindObject` and
`SaveVerdict`. A deletion removes the row, then the object. The sweep lists objects
older than 24 h (`ListOld`), reads the rows (`ReadRows`) and deletes what has none
(`SweepObject`). `slow` marks files whose upload was still going on when the object
reached that age. Sizes are 1, so the quota counts files.

### BrowserQueue and the code

JavaScript runs to its next await, so an action is a stretch between two awaits. An
event is the number of the generation that fetched the context it was recorded in.
`PageResets` and `ResetAnswered` are `resetContext` around its fetch, `Flush`,
`BatchAnswered`, `BatchFails`, `BodyCancelled` and `CancelThrows` are `drain` around its
two awaits, with `LeaveLoop` and `Continue` for what follows each. `flushing` is
`drain.at`. `doubled` counts the events of batches whose response body failed to
cancel, which the code counts twice.

`EventLine` is the promise with batches, contexts and answers removed: events stand in
one line in the order they were recorded, a step takes some off its head, as delivered or
as lost, and a new generation leaves no more than one batch. `BrowserQueue` implements it
with `line` the held batch in front of the queue while it is being sent, and `exported`
the counter of that name. A step that leaves the loop and resets, or answers and clears,
is one step of the line all the same.

### EmailDelivery, CachedSettings, Presence and the code

`EmailDelivery`: `mail[e]` is status and retry count; the handler is `AddMail` and
`SaveOutcome`; runs of the job (`ReadFailed`, `Resend`, `SaveRun`) may overlap, and a save
writes the columns that differ from what the run has read (`Merged`).

`CachedSettings`: settings are abstracted to the number of changes made to them;
`entry[k]` holds the number its reader found. A user's entry is read in two queries
(`ReadTenantSettings`, `ReadUserSettings`) and filled later (`FillCache`); a change writes
and then drops the tenant's entry and the editor's (`Drops`, `Drop`). `raced` marks keys
filled by a reader that had read before the drop.

`Presence`: the hash `conn2user`, the set `userSet`, the keys `connTenant` and
`connPage`, the sets `pageViewers`; the methods of the hub, one step per Redis call or
batch; and the 30 minutes of each key. `lapsed` marks connections of which a key has
expired or a handler was cut off.

## Runs

| Run | Instance | Checks | Shows |
|---|---|---|---|
| `bff_safety` | 2 activations, 2 ids of one user and one sid, one of them with a refresh token; `MaxTok` 2; crashes, store faults and TTLs | `TypeOK`, `OneRefreshAtATime`, `FoundBySubject`, `FoundBySid` | refreshes exclude each other and both back-channel indexes stay complete, with a stop between any two commands and keys that expire |
| `bff_slow` | 2 activations, 1 id, `MaxTok` 3; slow refreshes, TTLs, faults, unanswered grants | `RefusedGrantIsGone`, `ImplementsLife` | what survives when locks lapse under their holders and keys expire |
| `bff_live` | 2 activations, 1 id, `MaxTok` 2, fair | `Answered`, `LockGivenUp` | nothing hangs and no lock stays |
| `identity_safety` | membership: 2 users, 2 requests, 1 member whose tokens are followed; login: 2 browsers, cap 1, 2 sids, 1 ending; keys: 2 creations, 1 validation, 1 revocation, limit 1; organisation: 2 administrators, 1 trade, 2 tokens; MFA: 2 verifications, 2 attempts, 2 lockouts; invitations: 2 rows, 2 requests | `IdentityTypeOK`, `OwnersKept`, `ReviewStands`, `ImplementsRoster`, `RevocationComplete`; `CappedWithoutOverlap`, `EndedSessionsUnused`; `RevocationDrops`, `KeyLimitHolds`; `ServedOnly`, `HoldOutlivesOwner`; `LockoutReached`, `BackupCodeOnce`; `OneOutstanding`, `SpentForMembership`, `DecidedOnce` | what the code guarantees of access, with every interleaving of database and Redis calls |
| `platform_safety` | service token: 3 requests, two on one replica; files: 3, quota 1, 2 uploads, 1 deletion; queue: budget 3, batches of 2, 4 events, 3 generations; 2 emails, 2 runs; 2 users with 2 changes; 2 connections, 2 pages | `PlatformTypeOK`, `WaitersHaveFlight`, `FetchedOnce`; `RowsHaveBytes`, `QuotaNearlyHeld`; `EventsAccounted`, `SentInContext`, `ImplementsLine`; `SentForGood`; `OwnChangeSeen`; `NoGhosts` | the platform components with all their faults |
| `platform_live` | the same with 2 requests, 2 files, 1 email, 1 change; fair | `Answered`, `OrphansSwept`, `DrainEnds`, `FailedSettles`, `AllCatchUp` | what must happen in the end does |
| `bff_logout`, `session_cap`, `key_revoked`, `org_archive`, `mfa_backoff`, `presence_offline` | as above | one property each, violated | see Findings |

Why the bounds are enough to be interesting: every conflict in this code is
between two requests, the one that is in the middle of something and the one
that overtakes it; two ids are what it takes for one session to disturb the
indexes of another; `MaxTok` 2 lets a token be rotated once and the next refresh
be refused, 3 lets two rotations overlap; two requests on one replica share an
acquire while the third competes for the lock. Two users are enough to lose the last
owner; a cap of 1 and two sids to evict and to exceed; a limit of one key to be one
too many with two; two wrong codes to lock and two lockouts to lock again; two
administrators for a bar beside a deletion. The queue's budget holds more than a batch
and less than all the events. What the bounds leave open is covered by the theorems
where there are any. In the BFF runs every id carries a sid and there is one subject;
the proofs allow ids without a sid and any number of subjects. `RefusedGrantIsGone`
excepts sessions that somebody has ended, which takes three activations to matter: a
logout that revokes the token of an old record, a refresh whose write revives the
session with a newer one, and a third request that reads it. `bff_slow` has two, so
there the property holds of every session; the theorem covers any number.

The activations, requests, browsers, keys, invitations, files, e-mails and connections
that are only told apart by name are interchangeable, so the safety runs use symmetry; the
liveness runs do not.
Deadlock checking is off because the system may really stop: ids, keys, files,
invitations and connections are used once, and when all of them have ended there is
nothing left to request.

**Fairness.** `WF(Step(h))`: a handler that has started is driven by the event
loop, and every awaited call returns or throws: an attempt at the API carries an
abort timer (`proxy.ts` 362), and the OIDC and Valkey clients are taken to answer
or reject. So its next step is taken in the end. `WF(LockExpires)`: Valkey removes a key with
an expired TTL, unless the lock is given up before. No fairness is assumed for
new requests, or for crashes and faults. For
`ServiceToken` the same, and `WF(DeadlinePasses)`: `Date.now()` advances.
`SweepFairness`: the job runs daily, and its query, or the deletion of one and the
same object, does not fail on every day there is (strong fairness of these two).
`DrainFairness`: every fetch of the queue carries `AbortSignal.timeout`, so it settles.
`RetryFairness`: the job is scheduled every five minutes and calls to the mail server
end; at most `MaxFailures` runs are cut short. `CacheFairness`: entries have an absolute
expiry, and readers end. `PlatformFairSpec` is the conjunction; only a behaviour about
the queue has to answer the queue's first reset.

**Mutants.** Each property has one in PROJECT.json: a lock without `NX`, a lock
without TTL, `DEL` for `SREM`, an index TTL not renewed,
a reuse that costs one token instead of the family, a reactive refresh written twice, a
contended caller that waits, a failed acquire that is not passed on, no second look under the lock;
owners selected without `FOR UPDATE`, a count that does not ask whether another owner
stays, a row without its concurrency token, an exchange
that trusts the grant, an eviction one session late, a revocation that stops at a row
revoked before, a limit off by one, a bar that leaves the tokens, a deletion that does
not ask, a lock one failure late, a reset that ignores the stamp, a new row for every
invitation, bytes removed before the row, a quota off by one, an answer of an older
generation adopted, a batch counted as exported whatever generation it belongs to, a run
that saves whole rows, an entry whose expiry slides.

## Proofs

For every number of activations, ids, sids, subjects, tokens, requests, replicas, users,
keys, administrators, invitations, sessions, browsers, verifications, files, uploads,
editors, emails, runs, events, connections and pages, and for every value of the limits,
from the assumptions in the modules that declare the constants. These say what kind of
things they are, and that what is counted is finite. Three say more: there is an upload
to come (`FileAssumption`), a page fetches a context once (`QueueAssumption`), and the
limits of sessions, attempts, retries, budget and batch are at least 1.

A safety property is `Spec => []Inv`, an action property `Spec => [][A]_vars`, each from
an inductive invariant whose parts are named below. The types of every module are among
the theorems (`...TypesHold` and the like).

- `BffProofs!TypesHold`. `TypeOK` alone is not inductive: `WriteRecord` stores
  what the activation holds, which must be a session at that program point. So
  `TypeInv` adds `Shape`: which fields are set at which `pc`, and that a sid index
  names a session of that sid. It is proved in two halves, what store, auth host
  and history hold (`WorldOK`) and what activations hold (`ActsOK`).
- `BffProofs!RefreshIsExclusive`, under `~SlowRefresh`, which is what the TTL
  of the lock is meant to guarantee. `OneRefreshAtATime` is inductive given the
  types, because it says both that sections exclude each other and that the lock
  key stands while one is entered. Crashes and store faults are included.
- `BffProofs!SubjectIndexComplete` and `SidIndexComplete`. `IndexInv` adds what
  holds before a session is issued and while it is being destroyed: an activation
  that writes a record has yet to write its index keys, and only one that has
  deleted the record goes on to the index.
- `BffProofs!StoredTokenUnspent`, a lemma about tokens that no run repeats, with no assumption on how long a refresh takes.
  `Minted`: whatever is held, stored or redeemed of an id has been minted, and before the
  login nothing has; so what the next grant returns is new. `Own`: a rotated token yet
  to be stored is in no record and with no other activation, so nobody can have spent it.
- `BffProofs!RefusalEndsTheGrant`, again with no assumption on how long a refresh takes,
  whichever side of the leeway a reuse falls on, and with crashes at any point. `GoneInv`:
  a token is revoked on its own only for a session that has been ended, and otherwise
  with its whole family (`Whole`); so for an activation that the auth host has refused,
  nothing of its session is redeemable, up to the end of its lock and its teardown
  (`Gone`). No grant follows, since a revoked token is not redeemed.
- `BffProofs!ImplementsSessionLife`: every step is one abstract step or a
  stutter; `OverIsForGood` follows from the abstract specification's own proof.
- `StorageProofs!TokenTypesHold` and `SingleFlight`: whatever fails, a waiting
  request has an acquire. The invariant is their conjunction: that a flight without
  a program point has no other field set is what lets `get` start a new one.
- `StorageProofs!OneTokenFetchedOnce`. The invariant `Calm` says how things
  stand without trouble: the lock is there exactly while one acquire holds it
  (`OneHolder`); the newest token is stale, cached, or about to be (`NewestKept`);
  and what may be counted on at each program point (`AtPoint`): an unlocking
  acquire leaves a cached token behind, so a poller finds the lock or the token.
- `MembershipProofs!LastOwnerStays`, with `MembershipTypes`. Whether an owner is left
  is decided by a count that may be old when the departure is saved. The invariant
  says why it is not: a departure that has counted holds its own row's lock (`Held`)
  and leaves another owner behind (`Another`), and of two departures of owners one
  waits for a row the other holds, or will find on its list (`Ordered`, with `Asked`).
  `Fresh` is the xmin: an entity not marked as outdated is the row as it stands.
- `MembershipProofs!ReviewsStand`: by `Fresh`, a save that makes a suspended row active
  was made by a request that had read the suspension, and only reviews and grants
  accept that; `InGuard` (only departures pass the guard) excludes the rest.
- `MembershipProofs!RevocationHolds`: an exchange past its check is of a member who is
  active still (`CheckedActive`), because a departure that commits overtakes it; so a
  good token of a former member waits for the departure's own `Revoke`, unless that
  departure was cut.
- `MembershipProofs!ImplementsTheRoster`: every step of `Membership` is one step of
  `Roster` or leaves its sets alone. That the commit of an owner's departure finds another
  owner needs the invariant of `LastOwnerStays`; that those outside own nothing, so that
  an admission is no promotion, needs `OwnersInside`, that a row which is neither active
  nor suspended has no owner mark. `AlwaysLed` follows from `Roster`'s own invariant
  alone, proved on the three sets without a request in sight: some active member owns
  the organisation in every state. It says more than `OwnersKept`, which is about a step.
- `RevocationProofs!RevocationReachesCache`, with `KeyTypes`: a request about to set a good
  entry has a row nobody has revoked (`Early`), and a revoker has left a revoked row
  and then no good entry (`Underway`); a revoked row stays revoked.
- `RevocationProofs!BarredUnserved`, with `OrgTypesHold`: what the policy found of a
  request holds until a bar is committed (`Passed`), and every commit overtakes the
  requests it concerns. `Aimed` carries the types: a transaction never commits a bar
  onto something deleted.
- `RevocationProofs!HoldWins`: an owner's deletion whose row is not outdated has found
  no suspension (`Unseen`), since a commit outdates what was read before it.
- `RevocationProofs!KeysLimitedAlone`: as long as nothing is `uncounted`, a key leaves the
  set only once its row is revoked (`Kept`), so the set holds every usable key; and at
  most one creation lies between its count and its entry, for which the set has room
  (`Room`).
- `MembershipProofs!OneInvitationOutstanding`: who is about to add a row has seen none
  pending and none has come since (`Single`), unless creations crossed.
- `MembershipProofs!DecisionIsFinal` and `NotSpentForNothing`: a row that a request has
  read is pending still, or marked as crossed (`ReadPending`). Nothing in the database
  enforces either; the first holds just up to `crossed`, the second because membership
  and invitation are saved at once.
- `SignInProofs!EndedSessionsStayEnded`: the row of a sign-in that was admitted has not been
  revoked since (`AdmittedAlive`), else the sign-in is overtaken and its grant stray; and
  grants go before the row does (`EndingUnused`).
- `SignInProofs!SessionsCappedAlone`: a sign-in about to add a session has room for it
  once the one it evicts is gone (`Capped`). Rests on the cardinalities and on the oldest
  session being one of the live ones.
- `SignInProofs!BackupCodeSpentOnce`: of the requests that have taken the code at most one
  has a row that is not stale (`BackupUse`); a reset with a stale one is refused.
- `SignInProofs!FailuresLockTheUser`: a failure is in the row's count or with a request
  about to save it, until the row has been locked (`Counted`). The attempt to prove it
  found an error of the model: `raced` was not set for a failure lost to the overflow
  of a row that was itself out of date. It is set now, and TLC agrees on instances where
  the overflow comes before the last lockout (`LongestPower < MaxLockouts`). A backup code
  that writes its old row over newer attempts, or over a lock, is `raced` for the same
  reason: its user has a smaller count than the failures that were saved.
- `StorageProofs!NoRowWithoutBytes`: for each stage, what the row and the object of a file
  at that stage can be (`Uploading`, `Deleting`, `Unborn`), what the sweep has on its list
  (`Doomed`), and that a row is backed by an object or by an upload to come (`Backed`).
- `StorageProofs!QuotaPassedByUploadsOnly`: stored files and uploads that were let in,
  added up, stay below the quota and the number of uploads (`Bounded`).
- `StorageProofs!EditorsSeeTheirChanges`: once a change has dropped its author's entry,
  what is cached or about to be is not older (`Seen`); a reader half way has the tenant's
  part only, and adds the author's own when it reads on (`HalfRead`, `Recent`).
- `MessagingProofs!NothingLeftBehind`, with `PresenceTypesHold`: while its keys last, a
  connection can be found and is among the viewers of no page but its own
  (`Traceable`), so `RemoveConnection` finds everything there is to remove.
- `MessagingProofs!SentIsForGood`: a run works on messages that had failed when it read
  them, and what has failed or been sent is never pending again (`TakenUpFailed`); so no
  run's save, which writes what differs from its reading, turns sent back.
- `MessagingProofs!EveryEventAccounted` and `BatchesSentInContext`: `EventsAccounted` is
  inductive with `Resting` (only a batch under way is held); `InContext` says that what
  is queued was recorded under the present context, and what is sent under the one it is
  sent with, because a reset leaves no context until it is answered (`Unanswered`).
- `MessagingProofs!ImplementsEventLine`: every stretch between two awaits is one step of
  `EventLine` or none. `LineInv` says how contexts and generations go together where the
  line needs it: the present context, if there is one, is of the generation that lasts,
  and a drain is never ahead of it; so what is recorded is of that generation, and what
  is counted as exported was. `EventsStayInLine` follows from
  `EventLine`'s own invariant (`LineKept`): the line keeps its budget and its order, and
  nothing of an older generation stands behind the batch under way.
- `IdentityProofs!EachOnItsOwn`, `PlatformProofs!EachOnItsOwn`: the specification that a
  run checks is, component by component, the component's own, because no two of them
  share a variable. So `IdentityTypesHold`, `PlatformTypesHold`, `IdentityIsSafe` and
  `PlatformIsSafe`: every property of the two safety runs, stated of the very
  specification that TLC checks, for every value of the constants.

Only model-checked: liveness, which rests on fairness and ENABLED and is out of the
prover's reach; and the violated properties, which are false. Every invariant, every
action property and every refinement of a passing run is stated by a theorem.
No module declares a RECURSIVE operator.

## Findings

Disagreements between the code and what its comments and documents say, each with a
run:

1. `bff_logout`: the logout's destroy does not wait for, or stop, a refresh of the
   session, whose write brings the record back (`handlers.ts` 662-666).
2. `session_cap`: the advisory lock of `CreateSessionAsync` is transaction-scoped and
   there is no transaction, so two logins pass the cap together (`SessionService.cs`
   24-38; `docs/getting-started/configuration.md` 109).
3. `key_revoked`: a validation that had read the row before its revocation caches the key
   as good after the revocation has dropped the entry, and the key authenticates until
   that entry goes, which has no TTL if the key has no expiry (`RedisApiKeyService.cs` 184-186;
   `ApiKeysController.cs` 175). A creation does the same (line 81). What the code
   does guarantee is `RevocationDrops`.
4. `org_archive`: the archive is lost and its revocations kept when the transaction
   is run again after `SaveChanges` (`OrganizationService.cs` 369-381). Suspension and
   holds have the same shape.
5. `mfa_backoff`: from the 31st lockout without a sign-in the duration overflows and
   the lockout does not start (`WallowUser.cs` 154-164).
6. `presence_offline`: a connection older than its keys leaves without `UserOffline`
   (`RedisPresenceService.cs` 12, 193; `docs/architecture/realtime.md` 158).

The comment on the teardown of a refused session (`proxy.ts` 639) is right: a late caller
that spends a rotated token past its leeway does tear down a session whose newer token a
peer has just stored, but the reuse has revoked that token as well
(`RefusedGrantIsGone`).

What does hold in spite of 1: `OverIsForGood`. The record can return only out of a
copy that was already held; once those requests have ended the logout is final.

Limits that properties spell out instead of hiding them: a token minted by an exchange
that had read the membership before the commit outlives the departure
(`RevocationComplete`), and one issued past a bar in the same way (`ServedOnly`); an
owner's deletion that had read the organisation before the platform's hold still deletes
it (`HoldOutlivesOwner`); overlapping creations pass the key limit (`KeyLimitHolds`) and
overlapping uploads the quota (`QuotaNearlyHeld`); a creation of two invitations at once
leaves two (`OneOutstanding`), and of two requests that decide one row the later save
wins (`DecidedOnce`); of two wrong codes that read the same row one counts, and a backup
code writes its old row over attempts and a lock saved since (`LockoutReached`). A
property that excepts a race says nothing about it: PROJECT.json lists such a hazard
under the properties that do, or without any and with the reason.

Known and not stated as properties: ending an older login deletes the sid index entry
of a later one (`valkey.ts` 224), the proxy's second write may put an older version over a
newer one (`proxy.ts` 815), and `service.ts` 197 may delete a cached token it did not
compare. `FoundBySid` is stated up to the first of these.

## Not modelled, and what could come next

- Cookie store and namespace claim: the first keeps nothing between requests, the
  second is advisory. The login transaction is sealed in a cookie of one browser, and its
  cryptography is out of a model checker's reach.
- Push, SMS and in-app notifications, the SSE registry and the delivery of realtime
  messages, MFA enrolment, the outbox events between modules: each would be a module of
  its own, in this order: push delivery with its redelivery, the SSE registry with its two
  dictionaries, the outbox.
- Header parsing and configuration (no state), generated clients, user interface,
  migrations and tooling, inquiries and branding (single rows changed by one request at
  a time), plugins (sequential at start and stop).
- Proofs that could follow: abstract specifications of the other stores (files, keys,
  login sessions), as `SessionLife`, `Roster` and `EventLine` are of theirs, and that the
  modules implement them.
