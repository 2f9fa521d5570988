----------------------------- MODULE BffSession -----------------------------
(***************************************************************************)
(* The BFF's session handling over a Valkey store: the login callback, the *)
(* /api proxy with its proactive and reactive token refresh, browser       *)
(* logout, front-channel and back-channel logout, run by any number of     *)
(* concurrent handler activations on any number of replicas.               *)
(*                                                                         *)
(* An activation takes one step per awaited call: a Valkey command, a call *)
(* to the auth host, or an attempt at the API.  Local code runs with the   *)
(* step before it.                                                         *)
(***************************************************************************)
EXTENDS ValkeyStore, AuthHost

CONSTANTS Handlers,      \* handler activations
          Faults,        \* replicas may stop and store calls may throw
          Transient,     \* a refresh may fail without an answer of the auth host
          SlowRefresh,   \* a refresh may outlive the lock's TTL
          Expiry         \* a record or an index may reach its TTL

VARIABLES act,        \* what each activation is doing
          job,        \* where it is in destroyRecord, for each id
          seen,       \* the refresh token of the record destroyRecord read
          born,       \* ids a login has drawn
          issued,     \* ids whose reference a browser has been given
          ended       \* ids whose record some activation has deleted

history == <<born, issued, ended>>
vars == <<store, host, act, job, seen, history>>

Idle == [pc |-> "idle", task |-> "none", id |-> None, sess |-> None, phase |-> "none"]
Tasks == {"none", "login", "proxy", "logout", "bySid", "bySub"}
Pcs == {"idle", "set", "sid", "sub", "lock", "grant", "unlock", "adopt", "forward",
        "replay", "destroy", "clean", "revoke"}
Phases == {"none", "proactive", "reactive", "reseal", "refused", "unanswered", "fault"}

Activation == [pc : Pcs, task : Tasks, id : Ids \cup {None},
               sess : Session \cup {None}, phase : Phases]

TypeOK ==
    /\ StoreTypeOK
    /\ HostTypeOK
    /\ act \in [Handlers -> Activation]
    /\ job \in [Handlers -> [Ids -> {"none", "get", "del", "sid", "sub"}]]
    /\ seen \in [Handlers -> [Ids -> (0 .. MaxTok) \cup {None}]]
    /\ born \subseteq Ids
    /\ issued \subseteq Ids
    /\ ended \subseteq Ids

NoJobs == [id \in Ids |-> "none"]
NothingSeen == [id \in Ids |-> None]

Init ==
    /\ StoreInit
    /\ HostInit
    /\ act = [h \in Handlers |-> Idle]
    /\ job = [h \in Handlers |-> NoJobs]
    /\ seen = [h \in Handlers |-> NothingSeen]
    /\ born = {}
    /\ issued = {}
    /\ ended = {}

-----------------------------------------------------------------------------
(* Shorthands for the changes an activation makes to itself.               *)

At(h, pc) == act[h].pc = pc
Goto(h, pc) == act' = [act EXCEPT ![h].pc = pc]
GotoAs(h, pc, phase) == act' = [act EXCEPT ![h].pc = pc, ![h].phase = phase]
Begin(h, pc, task, id, s, phase) ==
    act' = [act EXCEPT ![h] = [pc |-> pc, task |-> task, id |-> id, sess |-> s,
                               phase |-> phase]]

Answer(h) ==
    /\ act' = [act EXCEPT ![h] = Idle]
    /\ job' = [job EXCEPT ![h] = NoJobs]
    /\ seen' = [seen EXCEPT ![h] = NothingSeen]

\* Start destroyRecord for every id of S and wait for all of them.
Destroy(h, task, id, S) ==
    /\ Begin(h, "destroy", task, id, None, "none")
    /\ job' = [job EXCEPT ![h] = [i \in Ids |-> IF i \in S THEN "get" ELSE "none"]]
    /\ UNCHANGED seen

NoJobChange == UNCHANGED <<job, seen>>
HasRefresh(s) == s.tok # 0
Changed(before, after) == after # before

\* The activation is inside the function withRefreshLock runs.
Locked(a) == a.phase \in {"proactive", "reactive"} /\ a.pc \in {"set", "sid", "sub"}
InSection(h, id) ==
    act[h].id = id /\ (act[h].pc \in {"grant", "unlock"} \/ Locked(act[h]))

-----------------------------------------------------------------------------
(* Login.                                                                  *)

Callback(h, id) ==
    /\ At(h, "idle") /\ id \notin born
    /\ born' = born \cup {id}
    /\ SignIn(id)
    /\ Begin(h, "set", "login", id, [tok |-> minted'[id], ver |-> 1], "none")
    /\ UNCHANGED <<store, issued, ended>> /\ NoJobChange

-----------------------------------------------------------------------------
(* store.write, wherever it is called from.                                *)

WriteRecord(h) ==
    /\ At(h, "set")
    /\ SetSession(act[h].id, act[h].sess)
    /\ Goto(h, IF HasSid(act[h].id) THEN "sid" ELSE "sub")
    /\ UNCHANGED <<host, history>> /\ NoJobChange

WriteSid(h) ==
    /\ At(h, "sid")
    /\ SetSid(act[h].id)
    /\ Goto(h, "sub")
    /\ UNCHANGED <<host, history>> /\ NoJobChange

\* The last command; what follows is up to the caller of write: the callback
\* answers with the reference, a refresh releases its lock, and the proxy's
\* writeSession goes on to forward the request.
WriteSub(h) ==
    /\ At(h, "sub")
    /\ AddSub(act[h].id)
    /\ \/ act[h].task = "login" /\ Answer(h) /\ issued' = issued \cup {act[h].id}
       \/ Locked(act[h]) /\ Goto(h, "unlock") /\ NoJobChange /\ UNCHANGED issued
       \/ act[h].phase = "reseal" /\ GotoAs(h, "forward", "none")
                                  /\ NoJobChange /\ UNCHANGED issued
    /\ UNCHANGED <<host, born, ended>>

-----------------------------------------------------------------------------
(* The proxy.                                                              *)

\* readSession, the CSRF gate and the expiry test of ensureFreshSession.  A
\* missing session or a failed gate is answered with no effect at all.
ProxyRead(h, id) ==
    /\ At(h, "idle") /\ id \in issued /\ rec[id] # None
    /\ \/ Begin(h, "forward", "proxy", id, rec[id], "none") /\ NoJobChange
       \/ /\ HasRefresh(rec[id])
          /\ Begin(h, "lock", "proxy", id, rec[id], "proactive") /\ NoJobChange
       \/ ~HasRefresh(rec[id]) /\ Destroy(h, "proxy", id, {id})
    /\ UNCHANGED <<store, host, history>>

\* Mutants: the lock set without NX, and a contended caller that waits.
TakeLockWithoutNX(h) ==
    /\ At(h, "lock")
    /\ SetLock(act[h].id, TRUE) /\ Goto(h, "grant")
    /\ UNCHANGED <<host, history>> /\ NoJobChange
TakeLockWaits(h) ==
    /\ At(h, "lock")
    /\ ~lock[act[h].id] /\ SetLock(act[h].id, TRUE) /\ Goto(h, "grant")
    /\ UNCHANGED <<host, history>> /\ NoJobChange

TakeLock(h) ==
    /\ At(h, "lock")
    /\ \/ ~lock[act[h].id] /\ SetLock(act[h].id, TRUE) /\ Goto(h, "grant")
       \/ lock[act[h].id] /\ UNCHANGED store /\ Goto(h, "adopt")
    /\ UNCHANGED <<host, history>> /\ NoJobChange

\* The refresh grant: with the token read before the lock was taken.
Granted(h) ==
    /\ At(h, "grant")
    /\ LET id == act[h].id  s == act[h].sess IN
       /\ Accepts(id, s.tok)
       /\ Redeem(id, s.tok)
       /\ act' = [act EXCEPT ![h].pc = "set",
                             ![h].sess = [tok |-> minted[id] + 1, ver |-> s.ver + 1]]
    /\ UNCHANGED <<store, history>> /\ NoJobChange

Refused(h) ==
    /\ At(h, "grant")
    /\ Refuse(act[h].id, act[h].sess.tok)
    /\ GotoAs(h, "unlock", "refused")
    /\ UNCHANGED <<store, history>> /\ NoJobChange

\* The request does not reach the auth host, or its answer does not come back.
Unanswered(h) ==
    /\ Transient /\ At(h, "grant")
    /\ LET id == act[h].id  t == act[h].sess.tok IN
       UNCHANGED host \/ (Accepts(id, t) /\ Redeem(id, t)) \/ Refuse(id, t)
    /\ GotoAs(h, "unlock", "unanswered")
    /\ UNCHANGED <<store, history>> /\ NoJobChange

\* Mutant: a reactive refresh is written back a second time too.
UnlockRewrites(h) ==
    /\ At(h, "unlock")
    /\ SetLock(act[h].id, FALSE)
    /\ \/ act[h].phase \in {"proactive", "reactive"} /\ GotoAs(h, "set", "reseal") /\ NoJobChange
       \/ /\ act[h].phase \in {"refused", "unanswered"}
          /\ Destroy(h, "proxy", act[h].id, {act[h].id})
       \/ act[h].phase = "fault" /\ Answer(h)
    /\ UNCHANGED <<host, history>>

\* The finally of withRefreshLock, and what the refresh's outcome leads to.
Unlock(h) ==
    /\ At(h, "unlock")
    /\ SetLock(act[h].id, FALSE)
    /\ \/ act[h].phase = "proactive" /\ GotoAs(h, "set", "reseal") /\ NoJobChange
       \/ act[h].phase = "reactive" /\ GotoAs(h, "replay", "none") /\ NoJobChange
       \/ /\ act[h].phase \in {"refused", "unanswered"}
          /\ Destroy(h, "proxy", act[h].id, {act[h].id})
       \/ act[h].phase = "fault" /\ Answer(h)
    /\ UNCHANGED <<host, history>>

\* The lock was contended: whatever the store holds now is adopted.
Adopt(h) ==
    /\ At(h, "adopt")
    /\ LET id == act[h].id  peer == rec[id] IN
       \/ peer = None /\ Destroy(h, "proxy", id, {id})
       \/ /\ peer # None /\ NoJobChange
          /\ \/ /\ act[h].phase = "proactive" /\ Changed(act[h].sess, peer)
                /\ Begin(h, "set", "proxy", id, peer, "reseal")
             \/ /\ act[h].phase = "proactive" /\ ~Changed(act[h].sess, peer)
                /\ GotoAs(h, "forward", "none")
             \/ /\ act[h].phase = "reactive"
                /\ Begin(h, "replay", "proxy", id, peer, "none")
    /\ UNCHANGED <<store, host, history>>

\* One attempt at the API: rejected token, throttled, or anything else.
Forward(h) ==
    /\ At(h, "forward")
    /\ \/ HasRefresh(act[h].sess) /\ GotoAs(h, "lock", "reactive") /\ NoJobChange
       \/ Goto(h, "replay") /\ NoJobChange
       \/ Answer(h)
    /\ UNCHANGED <<store, host, history>>

Replay(h) ==
    /\ At(h, "replay")
    /\ Answer(h)
    /\ UNCHANGED <<store, host, history>>

-----------------------------------------------------------------------------
(* Logout.                                                                 *)

\* Browser logout past its session and CSRF checks, and front-channel logout
\* whose iss and sid match the session.
LogoutRead(h, id) ==
    /\ At(h, "idle") /\ id \in issued /\ rec[id] # None
    /\ Destroy(h, "logout", id, {id})
    /\ UNCHANGED <<store, host, history>>

\* The lookup of revokeBySid.
BackchannelSid(h, s) ==
    /\ At(h, "idle") /\ sidIdx[s] # None
    /\ Destroy(h, "bySid", sidIdx[s], {sidIdx[s]})
    /\ UNCHANGED <<store, host, history>>

\* The lookup of revokeBySubject; the records are destroyed concurrently.
BackchannelSub(h, u) ==
    /\ At(h, "idle") /\ subIdx[u] # {}
    /\ Destroy(h, "bySub", None, subIdx[u])
    /\ UNCHANGED <<store, host, history>>

NextJob(h, id, step) == job' = [job EXCEPT ![h][id] = step]

JobGet(h, id) ==
    /\ job[h][id] = "get"
    /\ seen' = [seen EXCEPT ![h][id] = IF rec[id] = None THEN None ELSE rec[id].tok]
    /\ NextJob(h, id, "del")
    /\ UNCHANGED <<store, host, act, history>>

JobDel(h, id) ==
    /\ job[h][id] = "del"
    /\ DelSession(id)
    /\ ended' = ended \cup {id}
    /\ NextJob(h, id, IF seen[h][id] = None
                      THEN IF act[h].task = "bySub" THEN "sub" ELSE "none"
                      ELSE IF HasSid(id) THEN "sid" ELSE "sub")
    /\ UNCHANGED <<host, act, seen, born, issued>>

JobSid(h, id) ==
    /\ job[h][id] = "sid"
    /\ DelSid(id)
    /\ NextJob(h, id, "sub")
    /\ UNCHANGED <<host, act, seen, history>>

JobSub(h, id) ==
    /\ job[h][id] = "sub"
    /\ RemSub(id)
    /\ NextJob(h, id, "none")
    /\ UNCHANGED <<host, act, seen, history>>

\* Every destroyRecord has returned.
Destroyed(h) ==
    /\ At(h, "destroy") /\ job[h] = NoJobs
    /\ \/ act[h].task = "bySid" /\ Goto(h, "clean") /\ NoJobChange
       \/ act[h].task = "bySub" /\ Goto(h, "revoke") /\ NoJobChange
       \/ act[h].task \in {"proxy", "logout"} /\ Answer(h)
    /\ UNCHANGED <<store, host, history>>

\* revokeBySid deletes the index once more, whatever it points at by now.
CleanSid(h) ==
    /\ At(h, "clean")
    /\ DelSid(act[h].id)
    /\ Goto(h, "revoke")
    /\ UNCHANGED <<host, history>> /\ NoJobChange

\* Best effort: each revocation may fail on its own.
RevokeUpstream(h) ==
    /\ At(h, "revoke")
    /\ \E S \in SUBSET {id \in Ids : seen[h][id] \notin {None, 0}} :
          RevokeTokens(S, seen[h])
    /\ Answer(h)
    /\ UNCHANGED <<store, history>>

-----------------------------------------------------------------------------
(* Failures and time.                                                      *)

\* A replica stops, or a store call outside the lock throws.
Crash(h) ==
    /\ Faults /\ ~At(h, "idle")
    /\ Answer(h)
    /\ UNCHANGED <<store, host, history>>

\* A store call inside the lock throws: the finally still runs.
StoreFault(h) ==
    /\ Faults /\ Locked(act[h])
    /\ GotoAs(h, "unlock", "fault")
    /\ UNCHANGED <<store, host, history>> /\ NoJobChange

\* Mutant: the lock set without a TTL.
LockNeverExpires(id) == FALSE

LockExpires(id) ==
    /\ lock[id]
    /\ SlowRefresh \/ \A h \in Handlers : ~InSection(h, id)
    /\ SetLock(id, FALSE)
    /\ UNCHANGED <<host, act, job, seen, history>>

RecordExpires(id) ==
    /\ Expiry /\ rec[id] # None
    /\ DelSession(id)
    /\ UNCHANGED <<host, act, job, seen, history>>

SidIndexExpires(s) ==
    /\ Expiry /\ ExpireSid(s)
    /\ UNCHANGED <<host, act, job, seen, history>>

SubIndexExpires(u) ==
    /\ Expiry /\ ExpireSub(u)
    /\ UNCHANGED <<host, act, job, seen, history>>

-----------------------------------------------------------------------------
Step(h) ==
    \/ WriteRecord(h) \/ WriteSid(h) \/ WriteSub(h)
    \/ TakeLock(h) \/ Granted(h) \/ Refused(h) \/ Unanswered(h) \/ Unlock(h) \/ Adopt(h)
    \/ Forward(h) \/ Replay(h)
    \/ Destroyed(h) \/ CleanSid(h) \/ RevokeUpstream(h)
    \/ \E id \in Ids : JobGet(h, id) \/ JobDel(h, id) \/ JobSid(h, id) \/ JobSub(h, id)

Request(h) ==
    \/ \E id \in Ids : Callback(h, id) \/ ProxyRead(h, id) \/ LogoutRead(h, id)
    \/ \E s \in Sids : BackchannelSid(h, s)
    \/ \E u \in Subs : BackchannelSub(h, u)

Environment ==
    \/ \E h \in Handlers : Crash(h) \/ StoreFault(h)
    \/ \E id \in Ids : LockExpires(id) \/ RecordExpires(id)
    \/ \E s \in Sids : SidIndexExpires(s)
    \/ \E u \in Subs : SubIndexExpires(u)

Next == (\E h \in Handlers : Request(h) \/ Step(h)) \/ Environment

Spec == Init /\ [][Next]_vars

\* Every awaited call returns or throws, and Valkey expires what has a TTL.
FairSpec ==
    /\ Spec
    /\ \A h \in Handlers : WF_vars(Step(h))
    /\ \A id \in Ids : WF_vars(LockExpires(id))

-----------------------------------------------------------------------------
(* Properties.                                                             *)

\* withRefreshLock: as long as no refresh outlives the lock's TTL, at most one
\* activation is between its grant and its release for a session, and the
\* lock key stands while it is.
OneRefreshAtATime ==
    \A h \in Handlers : \A id \in Ids : InSection(h, id) =>
        lock[id] /\ \A g \in Handlers \ {h} : ~InSection(g, id)

\* The index has to know the session: always if nothing expires; otherwise if
\* the session has a record, and its last write got as far as the index.
Due(id, index) == Expiry => Covered(id, index)

\* write and destroyRecord: a session whose reference a browser holds and that
\* nobody has ended is in its subject's set, so a back-channel logout for the
\* subject finds it, whatever other activations are in the middle of.
FoundBySubject ==
    \A id \in issued \ ended : Due(id, "sub") => id \in subIdx[SubOf[id]]

\* write, destroyRecord and revokeBySid: the sid index of a session nobody has
\* ended names a session of that sid, unless one of the sid's other sessions
\* has been ended.
FoundBySid ==
    \A id \in issued \ ended :
        HasSid(id) /\ Due(id, "sid") /\ (\A other \in ended : SidOf[other] # SidOf[id])
            => \E found \in Ids : sidIdx[SidOf[id]] = found /\ SidOf[found] = SidOf[id]

\* refreshUnderLock: the token a refresh is about to persist has not been
\* redeemed by anybody, so what lands in the store is worth having, even when
\* the lock has lapsed under the refresh.
RotatedTokenUnspent ==
    \A h \in Handlers : Locked(act[h]) /\ At(h, "set")
        => act[h].sess.tok \notin spent[act[h].id]

\* tearDownDeadSession, "the grant behind the session is gone": when the auth
\* host has refused a refresh, it would refuse the token that the store holds by
\* now too, a peer's newer one included, unless the session has been ended before.
RefusedGrantIsGone ==
    \A h \in Handlers : LET id == act[h].id IN
        At(h, "unlock") /\ act[h].phase = "refused" /\ id \notin ended
        /\ rec[id] # None /\ HasRefresh(rec[id])
            => ~Accepts(id, rec[id].tok)

\* The detailed store keeps the promise of SessionLife: a record comes back
\* after a destroy only out of an activation that had read it before.
HoldsCopy(a) ==
    \/ a.pc \in {"set", "sid", "sub", "lock", "grant", "forward"}
    \/ a.pc = "unlock" /\ a.phase = "proactive"
Holders == [id \in Ids |-> {h \in Handlers : act[h].id = id /\ HoldsCopy(act[h])}]
Live == {id \in Ids : rec[id] # None}

Life == INSTANCE SessionLife WITH live <- Live, holders <- Holders
ImplementsLife == Life!LifeSpec

\* Every activation the BFF starts comes to an answer, however the lock and
\* the store are contended.
Answered == \A h \in Handlers : ~At(h, "idle") ~> At(h, "idle")

\* A refresh lock, the lock of a replica that stopped included, is given up.
LockGivenUp == \A id \in Ids : lock[id] ~> ~lock[id]

-----------------------------------------------------------------------------
(* What a comment of the code says and the code does not do.               *)

\* handlers.ts, logout: the session is revoked server-side "so a store-backed
\* session cannot be replayed after logout": when the destroy has returned and
\* the logout is about to be answered, the record is gone.
LoggedOutStaysOut ==
    \A h \in Handlers :
        At(h, "destroy") /\ act[h].task = "logout" /\ job[h] = NoJobs => rec[act[h].id] = None
=============================================================================
