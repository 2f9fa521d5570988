------------------------------- MODULE BffProofs -------------------------------
(*****************************************************************************)
(* Proofs about BffSession, for any number of activations, ids, OP sessions, *)
(* subjects and tokens: the types, the refresh lock, the reverse indexes,    *)
(* the token a refresh stores, what a refused refresh says of the grant, and *)
(* that BffSession implements SessionLife.                                   *)
(* Every step of the detailed system is a step of the abstract one or leaves *)
(* its variables alone; from that, and the abstract specification's own      *)
(* promise, a session whose record and copies are gone stays over.           *)
(*****************************************************************************)
EXTENDS BffSession, TLAPS

-----------------------------------------------------------------------------
(* What an activation holds at each point of its program: the conditions   *)
(* the commands it is about to send rely on.                               *)

Holding == {"set", "sid", "sub", "lock", "grant", "adopt", "forward"}

ShapeOf(h) ==
    /\ act[h].pc \in Holding => act[h].id \in Ids /\ act[h].sess \in Session
    /\ act[h].pc \in {"unlock", "replay", "clean"} => act[h].id \in Ids
    /\ act[h].pc = "destroy" /\ act[h].task # "bySub" => act[h].id \in Ids
    /\ act[h].pc \in {"lock", "grant"} => act[h].sess.tok # 0
    /\ act[h].pc = "unlock" /\ act[h].phase = "proactive" => act[h].sess \in Session
    /\ act[h].pc = "sid" => HasSid(act[h].id)
    /\ act[h].pc \in {"destroy", "clean"} /\ act[h].task = "bySid" => HasSid(act[h].id)
    /\ act[h].pc = "clean" => act[h].task = "bySid"
    /\ \A id \in Ids : job[h][id] = "sid" => HasSid(id)

Shape ==
    /\ \A h \in Handlers : ShapeOf(h)
    /\ \A s \in Sids : sidIdx[s] # None => SidOf[sidIdx[s]] = s

TypeInv == TypeOK /\ Shape

-----------------------------------------------------------------------------
(* What the shorthands do to an activation, and that they leave the others *)
(* alone.                                                                  *)

Others(h) == \A g \in Handlers \ {h} : act'[g] = act[g]
OtherJobs(h) == \A g \in Handlers \ {h} : job'[g] = job[g]

LEMMA GotoFacts ==
  ASSUME act \in [Handlers -> Activation], NEW h \in Handlers, NEW pc \in Pcs, Goto(h, pc)
  PROVE  /\ act' \in [Handlers -> Activation] /\ Others(h)
         /\ act'[h].pc = pc /\ act'[h].task = act[h].task /\ act'[h].id = act[h].id
         /\ act'[h].sess = act[h].sess /\ act'[h].phase = act[h].phase
<1>1. act[h] \in Activation /\ act'[h] = [act[h] EXCEPT !.pc = pc]
  BY DEF Goto
<1>2. act'[h] \in Activation
  BY <1>1 DEF Activation
<1> QED
  BY <1>1, <1>2 DEF Goto, Activation, Others

LEMMA GotoAsFacts ==
  ASSUME act \in [Handlers -> Activation], NEW h \in Handlers, NEW pc \in Pcs,
         NEW phase \in Phases, GotoAs(h, pc, phase)
  PROVE  /\ act' \in [Handlers -> Activation] /\ Others(h)
         /\ act'[h].pc = pc /\ act'[h].task = act[h].task /\ act'[h].id = act[h].id
         /\ act'[h].sess = act[h].sess /\ act'[h].phase = phase
<1>1. act[h] \in Activation /\ act'[h] = [act[h] EXCEPT !.pc = pc, !.phase = phase]
  BY DEF GotoAs
<1>2. act'[h] \in Activation
  BY <1>1 DEF Activation
<1> QED
  BY <1>1, <1>2 DEF GotoAs, Activation, Others

LEMMA BeginFacts ==
  ASSUME act \in [Handlers -> Activation], NEW h \in Handlers, NEW pc \in Pcs,
         NEW task \in Tasks, NEW id \in Ids \cup {None}, NEW s \in Session \cup {None},
         NEW phase \in Phases, Begin(h, pc, task, id, s, phase)
  PROVE  /\ act' \in [Handlers -> Activation] /\ Others(h)
         /\ act'[h].pc = pc /\ act'[h].task = task /\ act'[h].id = id
         /\ act'[h].sess = s /\ act'[h].phase = phase
  BY DEF Begin, Activation, Others

LEMMA AnswerFacts ==
  ASSUME TypeOK, NEW h \in Handlers, Answer(h)
  PROVE  /\ act' \in [Handlers -> Activation] /\ Others(h)
         /\ act'[h].pc = "idle" /\ act'[h].id = None
         /\ job' \in [Handlers -> [Ids -> {"none", "get", "del", "sid", "sub"}]]
         /\ seen' \in [Handlers -> [Ids -> (0 .. MaxTok) \cup {None}]]
         /\ OtherJobs(h) /\ \A id \in Ids : job'[h][id] = "none"
  BY DEF TypeOK, Answer, Activation, Others, OtherJobs, Idle, NoJobs, NothingSeen, Pcs, Tasks, Phases

LEMMA DestroyFacts ==
  ASSUME TypeOK, NEW h \in Handlers, NEW task \in Tasks, NEW id \in Ids \cup {None},
         NEW S, Destroy(h, task, id, S)
  PROVE  /\ act' \in [Handlers -> Activation] /\ Others(h)
         /\ act'[h].pc = "destroy" /\ act'[h].task = task /\ act'[h].id = id
         /\ act'[h].phase = "none"
         /\ job' \in [Handlers -> [Ids -> {"none", "get", "del", "sid", "sub"}]]
         /\ seen' = seen
         /\ OtherJobs(h) /\ \A i \in Ids : job'[h][i] \in {"none", "get"}
<1>1. act' \in [Handlers -> Activation] /\ Others(h)
      /\ act'[h].pc = "destroy" /\ act'[h].task = task /\ act'[h].id = id /\ act'[h].phase = "none"
  BY BeginFacts DEF Destroy, TypeOK, Pcs, Phases
<1> QED
  BY <1>1 DEF Destroy, TypeOK, OtherJobs

LEMMA TypeInit == Init => TypeInv
  BY DataAssumption, NoneAssumption
  DEF Init, StoreInit, HostInit, TypeInv, TypeOK, StoreTypeOK, HostTypeOK, Shape, ShapeOf,
      Idle, NoJobs, NothingSeen, Pcs, Tasks, Phases, Holding, Activation

\* An activation that goes on with the record it has just read.
LEMMA BeginRead ==
  ASSUME TypeOK, NEW h \in Handlers, NEW id \in Ids, NEW pc \in Pcs, NEW phase \in Phases,
         Begin(h, pc, "proxy", id, rec[id], phase), NoJobChange
  PROVE  /\ act' \in [Handlers -> Activation] /\ Others(h) /\ OtherJobs(h)
         /\ act'[h].pc = pc /\ act'[h].id = id /\ act'[h].sess = rec[id] /\ act'[h].phase = phase
<1>1. act \in [Handlers -> Activation] /\ rec[id] \in Session \cup {None}
      /\ "proxy" \in Tasks /\ id \in Ids \cup {None}
  BY DEF TypeOK, StoreTypeOK, Tasks
<1>2. OtherJobs(h)
  BY DEF NoJobChange, OtherJobs
<1>3. act' \in [Handlers -> Activation] /\ Others(h)
  BY <1>1, BeginFacts
<1>4. act'[h].pc = pc /\ act'[h].id = id /\ act'[h].sess = rec[id] /\ act'[h].phase = phase
  BY <1>1, BeginFacts
<1> QED
  BY <1>2, <1>3, <1>4

-----------------------------------------------------------------------------
(* The invariant in two halves: what the store, the auth host and the      *)
(* history hold, and what the activations hold.                            *)

SidRight == \A s \in Sids : sidIdx[s] # None => SidOf[sidIdx[s]] = s

WorldOK ==
    /\ StoreTypeOK /\ HostTypeOK /\ SidRight
    /\ born \subseteq Ids /\ issued \subseteq Ids /\ ended \subseteq Ids

ActsOK ==
    /\ act \in [Handlers -> Activation]
    /\ job \in [Handlers -> [Ids -> {"none", "get", "del", "sid", "sub"}]]
    /\ seen \in [Handlers -> [Ids -> (0 .. MaxTok) \cup {None}]]
    /\ \A h \in Handlers : ShapeOf(h)

LEMMA Halves == TypeInv <=> WorldOK /\ ActsOK
  BY DEF TypeInv, TypeOK, Shape, WorldOK, ActsOK, SidRight

\* A single store command.
LEMMA CommandTypes ==
  ASSUME StoreTypeOK, SidRight, NEW id \in Ids,
         \/ \E s \in Session : SetSession(id, s)
         \/ SetSid(id) /\ HasSid(id)
         \/ AddSub(id) \/ DelSession(id) \/ DelSid(id) \/ RemSub(id)
         \/ \E held \in BOOLEAN : SetLock(id, held)
  PROVE  StoreTypeOK' /\ SidRight'
<1> USE DataAssumption, NoneAssumption
<1>1. ASSUME NEW s \in Session, SetSession(id, s) PROVE StoreTypeOK' /\ SidRight'
  BY <1>1 DEF SetSession, StoreTypeOK, SidRight
<1>2. CASE SetSid(id) /\ HasSid(id)
  BY <1>2 DEF SetSid, HasSid, StoreTypeOK, SidRight
<1>3. CASE AddSub(id) \/ RemSub(id)
  BY <1>3 DEF AddSub, RemSub, StoreTypeOK, SidRight
<1>4. CASE DelSession(id)
  BY <1>4 DEF DelSession, StoreTypeOK, SidRight
<1>5. CASE DelSid(id)
  BY <1>5 DEF DelSid, StoreTypeOK, SidRight
<1>6. ASSUME NEW held \in BOOLEAN, SetLock(id, held) PROVE StoreTypeOK' /\ SidRight'
  BY <1>6 DEF SetLock, StoreTypeOK, SidRight
<1> QED
  BY <1>1, <1>2, <1>3, <1>4, <1>5, <1>6

LEMMA WorldStep == TypeInv /\ [Next]_vars => WorldOK'
<1> SUFFICES ASSUME TypeInv, [Next]_vars PROVE WorldOK'
  OBVIOUS
<1>a. WorldOK /\ StoreTypeOK /\ SidRight /\ HostTypeOK /\ \A h \in Handlers : ShapeOf(h)
  BY Halves DEF WorldOK, ActsOK
<1>1. ASSUME UNCHANGED <<store, host, history>> PROVE WorldOK'
  BY <1>a, <1>1 DEF WorldOK, store, host, history, StoreTypeOK, HostTypeOK, SidRight
<1>2. ASSUME StoreTypeOK' /\ SidRight', UNCHANGED <<host, history>> PROVE WorldOK'
  BY <1>a, <1>2 DEF WorldOK, host, history, HostTypeOK
<1>3. ASSUME NEW h \in Handlers, WriteRecord(h) \/ WriteSid(h) PROVE WorldOK'
  <2>1. act[h].id \in Ids /\ act[h].sess \in Session /\ (WriteSid(h) => HasSid(act[h].id))
    BY <1>a, <1>3 DEF WriteRecord, WriteSid, At, ShapeOf, Holding
  <2> QED
    BY <1>2, <1>3, <1>a, <2>1, CommandTypes DEF WriteRecord, WriteSid
<1>4. ASSUME NEW h \in Handlers, WriteSub(h) PROVE WorldOK'
  <2>1. act[h].id \in Ids
    BY <1>a, <1>4 DEF WriteSub, At, ShapeOf, Holding
  <2>2. StoreTypeOK' /\ SidRight'
    BY <1>4, <1>a, <2>1, CommandTypes DEF WriteSub
  <2>3. issued' \subseteq issued \cup {act[h].id} /\ UNCHANGED <<host, born, ended>>
    BY <1>4 DEF WriteSub
  <2> QED
    BY <1>a, <2>1, <2>2, <2>3 DEF WorldOK, host, HostTypeOK
<1>5. ASSUME NEW h \in Handlers, TakeLock(h) \/ Unlock(h) PROVE WorldOK'
  <2>1. act[h].id \in Ids
    BY <1>a, <1>5 DEF TakeLock, Unlock, At, ShapeOf, Holding
  <2>2. CASE \E held \in BOOLEAN : SetLock(act[h].id, held)
    BY <1>2, <1>5, <1>a, <2>1, <2>2, CommandTypes DEF TakeLock, Unlock
  <2>3. CASE UNCHANGED store
    BY <1>1, <1>5, <2>3 DEF TakeLock, Unlock
  <2> QED
    BY <1>5, <2>2, <2>3 DEF TakeLock, Unlock
<1>6. ASSUME NEW h \in Handlers, Granted(h) PROVE WorldOK'
  <2>1. act[h].id \in Ids /\ act[h].sess \in Session /\ act[h].sess.tok # 0
        /\ minted[act[h].id] \in 0 .. MaxTok /\ minted[act[h].id] < MaxTok
    BY <1>a, <1>6 DEF Granted, At, ShapeOf, Holding, Accepts, HostTypeOK
  <2>2. HostTypeOK'
    BY <1>a, <1>6, <2>1, DataAssumption DEF Granted, Redeem, HostTypeOK, Session
  <2> QED
    BY <1>6, <1>a, <2>2 DEF Granted, WorldOK, store, history, StoreTypeOK, SidRight
<1>7. ASSUME NEW h \in Handlers, NEW id \in Ids, Callback(h, id) PROVE WorldOK'
  <2>1. HostTypeOK'
    BY <1>a, <1>7, DataAssumption DEF Callback, SignIn, HostTypeOK
  <2> QED
    BY <1>7, <1>a, <2>1 DEF Callback, WorldOK, store, StoreTypeOK, SidRight
<1>8. ASSUME NEW h \in Handlers, RevokeUpstream(h) PROVE WorldOK'
  <2>1. HostTypeOK'
    BY <1>a, <1>8, Halves DEF ActsOK, RevokeUpstream, RevokeTokens, HostTypeOK
  <2> QED
    BY <1>8, <1>a, <2>1 DEF RevokeUpstream, WorldOK, store, history, StoreTypeOK, SidRight
<1>9. ASSUME NEW h \in Handlers, CleanSid(h) PROVE WorldOK'
  <2>1. act[h].id \in Ids
    BY <1>a, <1>9 DEF CleanSid, At, ShapeOf
  <2> QED
    BY <1>2, <1>9, <1>a, <2>1, CommandTypes DEF CleanSid
<1>10. ASSUME NEW h \in Handlers, NEW id \in Ids, JobDel(h, id) PROVE WorldOK'
  <2>1. StoreTypeOK' /\ SidRight'
    BY <1>10, <1>a, CommandTypes DEF JobDel
  <2> QED
    BY <1>10, <1>a, <2>1 DEF JobDel, WorldOK, host, HostTypeOK
<1>11. ASSUME NEW h \in Handlers, NEW id \in Ids, JobSid(h, id) \/ JobSub(h, id) PROVE WorldOK'
  BY <1>2, <1>11, <1>a, CommandTypes DEF JobSid, JobSub
<1>12. ASSUME NEW id \in Ids, LockExpires(id) \/ RecordExpires(id) PROVE WorldOK'
  BY <1>2, <1>12, <1>a, CommandTypes DEF LockExpires, RecordExpires
<1>13. ASSUME NEW s \in Sids, SidIndexExpires(s) PROVE WorldOK'
  BY <1>2, <1>13, <1>a DEF SidIndexExpires, ExpireSid, StoreTypeOK, SidRight
<1>14. ASSUME NEW u \in Subs, SubIndexExpires(u) PROVE WorldOK'
  BY <1>2, <1>14, <1>a DEF SubIndexExpires, ExpireSub, StoreTypeOK, SidRight
<1>15. ASSUME NEW h \in Handlers, Refused(h) \/ Unanswered(h) PROVE WorldOK'
  <2>1. PICK i \in Ids : i = act[h].id
    BY <1>a, <1>15 DEF Refused, Unanswered, At, ShapeOf, Holding
  <2>2. PICK t \in 1 .. MaxTok : t = act[h].sess.tok
    BY <1>a, <1>15, DataAssumption DEF Refused, Unanswered, At, ShapeOf, Holding, Session
  <2>3. CASE UNCHANGED host
    BY <1>1, <1>15, <2>3 DEF Refused, Unanswered
  <2>4. CASE Accepts(i, t) /\ Redeem(i, t)
    <3>1. minted[i] \in 0 .. MaxTok /\ minted[i] < MaxTok
      BY <1>a, <2>4 DEF Accepts, HostTypeOK
    <3>2. HostTypeOK'
      BY <1>a, <2>4, <3>1, DataAssumption DEF Redeem, HostTypeOK
    <3> QED
      BY <1>a, <1>15, <3>2 DEF Refused, Unanswered, WorldOK, store, history, StoreTypeOK, SidRight
  <2>5. CASE Refuse(i, t)
    <3>1. HostTypeOK'
      BY <1>a, <2>5 DEF Refuse, host, HostTypeOK
    <3> QED
      BY <1>a, <1>15, <3>1 DEF Refused, Unanswered, WorldOK, store, history, StoreTypeOK, SidRight
  <2> QED
    BY <1>15, <2>1, <2>2, <2>3, <2>4, <2>5 DEF Refused, Unanswered
\* Everything else leaves store, host and history alone.
<1>16. ASSUME NEW h \in Handlers,
              \/ Adopt(h) \/ Forward(h) \/ Replay(h) \/ Destroyed(h)
              \/ Crash(h) \/ StoreFault(h)
              \/ \E id \in Ids : ProxyRead(h, id) \/ LogoutRead(h, id) \/ JobGet(h, id)
              \/ \E s \in Sids : BackchannelSid(h, s)
              \/ \E u \in Subs : BackchannelSub(h, u)
       PROVE  WorldOK'
  BY <1>1, <1>16 DEF Adopt, Forward, Replay, Destroyed, Crash, StoreFault, ProxyRead,
                     LogoutRead, JobGet, BackchannelSid, BackchannelSub
<1>17. CASE UNCHANGED vars
  BY <1>1, <1>17 DEF vars
<1> QED
  BY <1>3, <1>4, <1>5, <1>6, <1>7, <1>8, <1>9, <1>10, <1>11, <1>12, <1>13, <1>14, <1>15, <1>16, <1>17
  DEF Next, Request, Step, Environment

-----------------------------------------------------------------------------
(* The activations' half.                                                  *)

LEMMA ActsFrame ==
  ASSUME ActsOK, NEW h \in Handlers, Others(h), OtherJobs(h), ShapeOf(h)',
         act' \in [Handlers -> Activation],
         job' \in [Handlers -> [Ids -> {"none", "get", "del", "sid", "sub"}]],
         seen' \in [Handlers -> [Ids -> (0 .. MaxTok) \cup {None}]]
  PROVE  ActsOK'
<1>1. ASSUME NEW g \in Handlers, g # h PROVE ShapeOf(g)'
  BY <1>1 DEF Others, OtherJobs, ActsOK, ShapeOf, HasSid
<1> QED
  BY <1>1 DEF ActsOK

\* An activation that goes on, without touching its jobs.
LEMMA ActsMove ==
  ASSUME ActsOK, NEW h \in Handlers, Others(h), NoJobChange, act' \in [Handlers -> Activation],
         act'[h].pc \in Holding => act'[h].id \in Ids /\ act'[h].sess \in Session,
         act'[h].pc \in {"unlock", "replay"} => act'[h].id \in Ids,
         act'[h].pc \in {"lock", "grant"} => act'[h].sess.tok # 0,
         act'[h].pc = "unlock" /\ act'[h].phase = "proactive" => act'[h].sess \in Session,
         act'[h].pc = "sid" => HasSid(act'[h].id),
         act'[h].pc \notin {"destroy", "clean"}
  PROVE  ActsOK'
<1>1. ShapeOf(h)'
  BY DEF ActsOK, ShapeOf, NoJobChange, HasSid
<1>2. OtherJobs(h)
  BY DEF NoJobChange, OtherJobs
<1> QED
  BY <1>1, <1>2, ActsFrame DEF ActsOK, NoJobChange

LEMMA ActsAnswer == ASSUME TypeInv, NEW h \in Handlers, Answer(h) PROVE ActsOK'
<1>1. TypeOK /\ ActsOK
  BY Halves DEF TypeInv
<1>2. ShapeOf(h)'
  BY <1>1, AnswerFacts DEF ShapeOf, Holding
<1> QED
  BY <1>1, <1>2, AnswerFacts, ActsFrame

LEMMA ActsDestroy ==
  ASSUME TypeInv, NEW h \in Handlers, NEW task \in Tasks, NEW id \in Ids \cup {None}, NEW S,
         Destroy(h, task, id, S), task # "bySub" => id \in Ids, task = "bySid" => HasSid(id)
  PROVE  ActsOK'
<1>1. TypeOK /\ ActsOK
  BY Halves DEF TypeInv
<1>2. ShapeOf(h)'
  BY <1>1, DestroyFacts DEF ShapeOf, Holding
<1>3. seen' \in [Handlers -> [Ids -> (0 .. MaxTok) \cup {None}]]
  BY <1>1, DestroyFacts DEF ActsOK
<1> QED
  BY <1>1, <1>2, <1>3, DestroyFacts, ActsFrame

LEMMA ActsStep == TypeInv /\ [Next]_vars => ActsOK'
<1> SUFFICES ASSUME TypeInv, [Next]_vars PROVE ActsOK'
  OBVIOUS
<1>a. /\ TypeOK /\ ActsOK /\ act \in [Handlers -> Activation] /\ \A h \in Handlers : ShapeOf(h)
      /\ rec \in [Ids -> Session \cup {None}] /\ sidIdx \in [Sids -> Ids \cup {None}]
      /\ SidRight
  BY Halves DEF TypeInv, ActsOK, WorldOK, StoreTypeOK
<1>1. ASSUME NEW h \in Handlers, WriteRecord(h) \/ WriteSid(h) PROVE ActsOK'
  <2>1. act[h].id \in Ids /\ act[h].sess \in Session
    BY <1>a, <1>1 DEF WriteRecord, WriteSid, At, ShapeOf, Holding
  <2>2. CASE Goto(h, "sub")
    BY <1>a, <1>1, <2>1, <2>2, GotoFacts, ActsMove DEF WriteRecord, WriteSid, Pcs
  <2>3. CASE Goto(h, "sid") /\ HasSid(act[h].id)
    BY <1>a, <1>1, <2>1, <2>3, GotoFacts, ActsMove DEF WriteRecord, WriteSid, Pcs
  <2> QED
    BY <1>1, <2>2, <2>3 DEF WriteRecord, WriteSid
<1>2. ASSUME NEW h \in Handlers, WriteSub(h) PROVE ActsOK'
  <2>1. act[h].id \in Ids /\ act[h].sess \in Session
    BY <1>a, <1>2 DEF WriteSub, At, ShapeOf, Holding
  <2>2. CASE Answer(h)
    BY <2>2, ActsAnswer
  <2>3. CASE Goto(h, "unlock") /\ NoJobChange
    BY <1>a, <2>1, <2>3, GotoFacts, ActsMove DEF Pcs, Holding
  <2>4. CASE GotoAs(h, "forward", "none") /\ NoJobChange
    BY <1>a, <2>1, <2>4, GotoAsFacts, ActsMove DEF Pcs, Phases
  <2> QED
    BY <1>2, <2>2, <2>3, <2>4 DEF WriteSub
<1>3. ASSUME NEW h \in Handlers, TakeLock(h) PROVE ActsOK'
  <2>1. act[h].id \in Ids /\ act[h].sess \in Session /\ act[h].sess.tok # 0
    BY <1>a, <1>3 DEF TakeLock, At, ShapeOf, Holding
  <2>2. CASE Goto(h, "grant")
    BY <1>a, <1>3, <2>1, <2>2, GotoFacts, ActsMove DEF TakeLock, Pcs
  <2>3. CASE Goto(h, "adopt")
    BY <1>a, <1>3, <2>1, <2>3, GotoFacts, ActsMove DEF TakeLock, Pcs
  <2> QED
    BY <1>3, <2>2, <2>3 DEF TakeLock
<1>4. ASSUME NEW h \in Handlers, Granted(h) PROVE ActsOK'
  <2> DEFINE next == [tok |-> minted[act[h].id] + 1, ver |-> act[h].sess.ver + 1]
  <2>1. act[h].id \in Ids /\ act[h].sess \in Session /\ minted[act[h].id] \in 0 .. MaxTok
        /\ minted[act[h].id] < MaxTok
    BY <1>a, <1>4 DEF Granted, At, ShapeOf, Holding, Accepts, TypeOK, HostTypeOK
  <2>2. next \in Session
    BY <2>1, DataAssumption DEF Session
  <2>3. act[h] \in Activation /\ act'[h] = [act[h] EXCEPT !.pc = "set", !.sess = next] /\ Others(h)
    BY <1>a, <1>4 DEF Granted, Others
  <2>4. act'[h] \in Activation /\ act'[h].pc = "set" /\ act'[h].id = act[h].id /\ act'[h].sess = next
    BY <2>2, <2>3 DEF Activation, Pcs
  <2>5. act' \in [Handlers -> Activation]
    BY <1>a, <1>4, <2>4 DEF Granted
  <2> HIDE DEF next
  <2> QED
    BY <1>4, <1>a, <2>1, <2>2, <2>3, <2>4, <2>5, ActsMove DEF Granted
<1>5. ASSUME NEW h \in Handlers, Refused(h) \/ Unanswered(h) \/ StoreFault(h) PROVE ActsOK'
  <2>1. /\ NoJobChange /\ act[h].id \in Ids
        /\ \E phase \in {"refused", "unanswered", "fault"} : GotoAs(h, "unlock", phase)
    BY <1>a, <1>5 DEF Refused, Unanswered, StoreFault, Locked, At, ShapeOf, Holding
  <2> QED
    BY <1>a, <2>1, GotoAsFacts, ActsMove DEF Pcs, Phases, Holding
<1>6. ASSUME NEW h \in Handlers, Unlock(h) PROVE ActsOK'
  <2>1. act[h].id \in Ids
    BY <1>a, <1>6 DEF Unlock, At, ShapeOf
  <2>2. CASE act[h].phase = "proactive" /\ GotoAs(h, "set", "reseal") /\ NoJobChange
    <3>1. act[h].sess \in Session
      BY <1>a, <1>6, <2>2 DEF Unlock, At, ShapeOf
    <3> QED
      BY <1>a, <2>1, <2>2, <3>1, GotoAsFacts, ActsMove DEF Pcs, Phases
  <2>3. CASE GotoAs(h, "replay", "none") /\ NoJobChange
    BY <1>a, <2>1, <2>3, GotoAsFacts, ActsMove DEF Pcs, Phases, Holding
  <2>4. CASE Destroy(h, "proxy", act[h].id, {act[h].id})
    BY <2>1, <2>4, ActsDestroy DEF Tasks
  <2>5. CASE Answer(h)
    BY <2>5, ActsAnswer
  <2> QED
    BY <1>6, <2>2, <2>3, <2>4, <2>5 DEF Unlock
<1>7. ASSUME NEW h \in Handlers, Adopt(h) PROVE ActsOK'
  <2>1. act[h].id \in Ids /\ act[h].sess \in Session /\ rec[act[h].id] \in Session \cup {None}
    BY <1>a, <1>7 DEF Adopt, At, ShapeOf, Holding
  <2>2. CASE Destroy(h, "proxy", act[h].id, {act[h].id})
    BY <2>1, <2>2, ActsDestroy DEF Tasks
  <2>3. CASE /\ rec[act[h].id] # None /\ NoJobChange
             /\ Begin(h, "set", "proxy", act[h].id, rec[act[h].id], "reseal")
    BY <1>a, <2>1, <2>3, BeginRead, ActsMove DEF Pcs, Phases
  <2>4. CASE /\ rec[act[h].id] # None /\ NoJobChange
             /\ Begin(h, "replay", "proxy", act[h].id, rec[act[h].id], "none")
    BY <1>a, <2>1, <2>4, BeginRead, ActsMove DEF Pcs, Phases, Holding
  <2>5. CASE GotoAs(h, "forward", "none") /\ NoJobChange
    BY <1>a, <2>1, <2>5, GotoAsFacts, ActsMove DEF Pcs, Phases
  <2> QED
    BY <1>7, <2>2, <2>3, <2>4, <2>5 DEF Adopt
<1>8. ASSUME NEW h \in Handlers, Forward(h) PROVE ActsOK'
  <2>1. act[h].id \in Ids /\ act[h].sess \in Session
    BY <1>a, <1>8 DEF Forward, At, ShapeOf, Holding
  <2>2. CASE HasRefresh(act[h].sess) /\ GotoAs(h, "lock", "reactive") /\ NoJobChange
    BY <1>a, <2>1, <2>2, GotoAsFacts, ActsMove DEF HasRefresh, Pcs, Phases
  <2>3. CASE Goto(h, "replay") /\ NoJobChange
    BY <1>a, <2>1, <2>3, GotoFacts, ActsMove DEF Pcs, Holding
  <2>4. CASE Answer(h)
    BY <2>4, ActsAnswer
  <2> QED
    BY <1>8, <2>2, <2>3, <2>4 DEF Forward
<1>9. ASSUME NEW h \in Handlers, Destroyed(h) PROVE ActsOK'
  <2>1. CASE act[h].task = "bySid" /\ Goto(h, "clean") /\ NoJobChange
    <3>1. Others(h) /\ act' \in [Handlers -> Activation] /\ act'[h].pc = "clean"
          /\ act'[h].task = "bySid" /\ act'[h].id = act[h].id
      BY <1>a, <2>1, GotoFacts DEF Pcs
    <3>2. ShapeOf(h)'
      BY <1>a, <1>9, <2>1, <3>1 DEF Destroyed, At, ShapeOf, Holding, NoJobChange, HasSid
    <3> QED
      BY <1>a, <2>1, <3>1, <3>2, ActsFrame DEF ActsOK, NoJobChange, OtherJobs
  <2>2. CASE Goto(h, "revoke") /\ NoJobChange
    BY <1>a, <2>2, GotoFacts, ActsMove DEF Pcs, Holding
  <2>3. CASE Answer(h)
    BY <2>3, ActsAnswer
  <2> QED
    BY <1>9, <2>1, <2>2, <2>3 DEF Destroyed
<1>10. ASSUME NEW h \in Handlers, CleanSid(h) PROVE ActsOK'
  BY <1>a, <1>10, GotoFacts, ActsMove DEF CleanSid, Pcs, Holding
<1>11. ASSUME NEW h \in Handlers, Replay(h) \/ RevokeUpstream(h) \/ Crash(h) PROVE ActsOK'
  BY <1>11, ActsAnswer DEF Replay, RevokeUpstream, Crash
<1>12. ASSUME NEW h \in Handlers, NEW id \in Ids, Callback(h, id) PROVE ActsOK'
  <2> DEFINE first == [tok |-> minted'[id], ver |-> 1]
  <2>1. minted'[id] \in 0 .. MaxTok
    BY <1>12, WorldStep DEF WorldOK, HostTypeOK
  <2>2. first \in Session
    BY <2>1 DEF Session
  <2>3. Begin(h, "set", "login", id, first, "none") /\ NoJobChange
        /\ "set" \in Pcs /\ "login" \in Tasks /\ "none" \in Phases /\ id \in Ids \cup {None}
        /\ first \in Session \cup {None}
    BY <1>12, <2>2 DEF Callback, Pcs, Tasks, Phases
  <2> HIDE DEF first
  <2>4. Others(h) /\ act' \in [Handlers -> Activation]
        /\ act'[h].pc = "set" /\ act'[h].id = id /\ act'[h].sess = first
    BY <1>a, <2>3, BeginFacts
  <2> QED
    BY <1>a, <2>2, <2>3, <2>4, ActsMove
<1>13. ASSUME NEW h \in Handlers, NEW id \in Ids, ProxyRead(h, id) PROVE ActsOK'
  <2>1. rec[id] \in Session
    BY <1>a, <1>13 DEF ProxyRead
  <2>2. CASE Begin(h, "forward", "proxy", id, rec[id], "none") /\ NoJobChange
    BY <1>a, <2>1, <2>2, BeginRead, ActsMove DEF Pcs, Phases
  <2>3. CASE HasRefresh(rec[id]) /\ Begin(h, "lock", "proxy", id, rec[id], "proactive") /\ NoJobChange
    BY <1>a, <2>1, <2>3, BeginRead, ActsMove DEF HasRefresh, Pcs, Phases
  <2>4. CASE Destroy(h, "proxy", id, {id})
    BY <2>4, ActsDestroy DEF Tasks
  <2> QED
    BY <1>13, <2>2, <2>3, <2>4 DEF ProxyRead
<1>14. ASSUME NEW h \in Handlers, NEW id \in Ids, LogoutRead(h, id) PROVE ActsOK'
  BY <1>14, ActsDestroy DEF LogoutRead, Tasks
<1>15. ASSUME NEW h \in Handlers, NEW s \in Sids, BackchannelSid(h, s) PROVE ActsOK'
  <2>1. sidIdx[s] \in Ids /\ HasSid(sidIdx[s])
    BY <1>a, <1>15, NoneAssumption DEF BackchannelSid, SidRight, HasSid
  <2> QED
    BY <1>15, <2>1, ActsDestroy DEF BackchannelSid, Tasks
<1>16. ASSUME NEW h \in Handlers, NEW u \in Subs, BackchannelSub(h, u) PROVE ActsOK'
  BY <1>16, ActsDestroy DEF BackchannelSub, Tasks
\* The commands of destroyRecord.
<1>17. ASSUME NEW h \in Handlers, NEW id \in Ids, NEW step \in {"none", "del", "sid", "sub"},
              NextJob(h, id, step), UNCHANGED act, step = "sid" => HasSid(id),
              seen' \in [Handlers -> [Ids -> (0 .. MaxTok) \cup {None}]]
       PROVE  ActsOK'
  BY <1>a, <1>17 DEF NextJob, ActsOK, ShapeOf, HasSid
<1>18. ASSUME NEW h \in Handlers, NEW id \in Ids, JobGet(h, id) PROVE ActsOK'
  <2>1. seen' \in [Handlers -> [Ids -> (0 .. MaxTok) \cup {None}]]
    BY <1>a, <1>18 DEF JobGet, ActsOK, Session
  <2> QED
    BY <1>17, <1>18, <2>1 DEF JobGet
<1>19. ASSUME NEW h \in Handlers, NEW id \in Ids, JobDel(h, id) \/ JobSid(h, id) \/ JobSub(h, id)
       PROVE  ActsOK'
  <2>1. UNCHANGED <<act, seen>>
        /\ \E step \in {"none", "sid", "sub"} : NextJob(h, id, step) /\ (step = "sid" => HasSid(id))
    BY <1>19 DEF JobDel, JobSid, JobSub
  <2> QED
    BY <1>a, <1>17, <2>1 DEF ActsOK
<1>20. ASSUME UNCHANGED <<act, job, seen>> PROVE ActsOK'
  BY <1>a, <1>20 DEF ActsOK, ShapeOf, HasSid
<1>21. ASSUME NEW id \in Ids, LockExpires(id) \/ RecordExpires(id) PROVE ActsOK'
  BY <1>20, <1>21 DEF LockExpires, RecordExpires
<1>22. ASSUME NEW s \in Sids, SidIndexExpires(s) PROVE ActsOK'
  BY <1>20, <1>22 DEF SidIndexExpires
<1>23. ASSUME NEW u \in Subs, SubIndexExpires(u) PROVE ActsOK'
  BY <1>20, <1>23 DEF SubIndexExpires
<1>24. CASE UNCHANGED vars
  BY <1>20, <1>24 DEF vars
<1> QED
  BY <1>1, <1>2, <1>3, <1>4, <1>5, <1>6, <1>7, <1>8, <1>9, <1>10, <1>11, <1>12, <1>13, <1>14,
     <1>15, <1>16, <1>18, <1>19, <1>21, <1>22, <1>23, <1>24 DEF Next, Request, Step, Environment

LEMMA TypeStep == TypeInv /\ [Next]_vars => TypeInv'
<1>1. TypeInv' <=> WorldOK' /\ ActsOK'
  BY Halves, PTL
<1> QED
  BY <1>1, WorldStep, ActsStep

\* Every reachable state has the types the modules declare, and every
\* activation holds what the commands it is about to send need.
THEOREM TypeCorrect == Spec => []TypeInv
  BY TypeInit, TypeStep, PTL DEF Spec

\* The part of it that TLC checks.
THEOREM TypesHold == Spec => []TypeOK
<1>1. TypeInv => TypeOK
  BY DEF TypeInv
<1> QED
  BY <1>1, TypeCorrect, PTL


-----------------------------------------------------------------------------
(* The refresh lock.  The invariant is inductive once the types are known. *)

LEMMA LockInit == Init => OneRefreshAtATime
  BY NoneAssumption DEF Init, OneRefreshAtATime, InSection, Locked, Idle

\* A step of h that leaves the lock alone and does not bring h into a section.
LEMMA LockFrame ==
  ASSUME OneRefreshAtATime, NEW h \in Handlers, Others(h), UNCHANGED lock,
         \A id \in Ids : InSection(h, id)' => InSection(h, id)
  PROVE  OneRefreshAtATime'
<1>1. ASSUME NEW g \in Handlers, NEW id \in Ids, InSection(g, id)' PROVE InSection(g, id)
  BY <1>1 DEF Others, InSection, Locked
<1> QED
  BY <1>1 DEF OneRefreshAtATime

LEMMA LockStep ==
  ASSUME ~SlowRefresh, TypeInv, OneRefreshAtATime, [Next]_vars
  PROVE  OneRefreshAtATime'
<1>a. /\ TypeOK /\ act \in [Handlers -> Activation] /\ lock \in [Ids -> BOOLEAN]
      /\ \A h \in Handlers : ShapeOf(h)
  BY DEF TypeInv, TypeOK, StoreTypeOK, Shape
<1>1. ASSUME NEW h \in Handlers, WriteRecord(h) \/ WriteSid(h) PROVE OneRefreshAtATime'
  <2>1. Others(h) /\ UNCHANGED lock /\ \A id \in Ids : InSection(h, id)' => InSection(h, id)
    BY <1>a, <1>1, GotoFacts
    DEF WriteRecord, WriteSid, SetSession, SetSid, At, InSection, Locked, Pcs
  <2> QED
    BY <2>1, LockFrame
<1>2. ASSUME NEW h \in Handlers, WriteSub(h) PROVE OneRefreshAtATime'
  <2>1. CASE Answer(h)
    BY <1>a, <1>2, <2>1, AnswerFacts, LockFrame DEF WriteSub, AddSub, InSection, Locked
  <2>2. CASE Locked(act[h]) /\ Goto(h, "unlock")
    BY <1>a, <1>2, <2>2, GotoFacts, LockFrame DEF WriteSub, AddSub, InSection, Locked, Pcs
  <2>3. CASE GotoAs(h, "forward", "none")
    BY <1>a, <1>2, <2>3, GotoAsFacts, LockFrame
    DEF WriteSub, AddSub, InSection, Locked, Pcs, Phases
  <2> QED
    BY <1>2, <2>1, <2>2, <2>3 DEF WriteSub
<1>3. ASSUME NEW h \in Handlers, TakeLock(h) PROVE OneRefreshAtATime'
  <2>1. act[h].id \in Ids
    BY <1>a, <1>3 DEF TakeLock, At, ShapeOf, Holding
  <2>2. CASE ~lock[act[h].id] /\ SetLock(act[h].id, TRUE) /\ Goto(h, "grant")
    <3>1. Others(h) /\ act'[h].id = act[h].id
      BY <1>a, <2>2, GotoFacts DEF Pcs
    <3>2. lock' = [lock EXCEPT ![act[h].id] = TRUE]
      BY <2>2 DEF SetLock
    <3>3. \A g \in Handlers : ~InSection(g, act[h].id)
      BY <2>1, <2>2 DEF OneRefreshAtATime
    <3>4. ASSUME NEW g \in Handlers \ {h}, NEW id \in Ids PROVE InSection(g, id)' <=> InSection(g, id)
      BY <3>1 DEF Others, InSection, Locked
    <3>5. ASSUME NEW id \in Ids, InSection(h, id)' PROVE id = act[h].id
      BY <3>1, <3>5 DEF InSection
    <3> QED
      BY <1>a, <2>1, <3>2, <3>3, <3>4, <3>5 DEF OneRefreshAtATime
  <2>3. CASE UNCHANGED store /\ Goto(h, "adopt")
    BY <1>a, <2>3, GotoFacts, LockFrame DEF store, InSection, Locked, Pcs
  <2> QED
    BY <1>3, <2>2, <2>3 DEF TakeLock
<1>4. ASSUME NEW h \in Handlers, Granted(h) PROVE OneRefreshAtATime'
  <2>1. Others(h) /\ act'[h].id = act[h].id
    BY <1>a, <1>4 DEF Granted, Others, Activation
  <2> QED
    BY <1>4, <2>1, LockFrame DEF Granted, store, InSection, At
<1>5. ASSUME NEW h \in Handlers, Refused(h) \/ Unanswered(h) PROVE OneRefreshAtATime'
  BY <1>a, <1>5, GotoAsFacts, LockFrame DEF Refused, Unanswered, store, InSection, At, Pcs, Phases
<1>6. ASSUME NEW h \in Handlers, Unlock(h) PROVE OneRefreshAtATime'
  <2>1. act[h].id \in Ids /\ InSection(h, act[h].id)
    BY <1>a, <1>6 DEF Unlock, At, ShapeOf, InSection
  <2>2. lock' = [lock EXCEPT ![act[h].id] = FALSE]
    BY <1>6 DEF Unlock, SetLock
  <2>3. Others(h) /\ \A id \in Ids : ~InSection(h, id)'
    <3>1. CASE GotoAs(h, "set", "reseal")
      BY <1>a, <3>1, GotoAsFacts DEF InSection, Locked, Pcs, Phases
    <3>2. CASE GotoAs(h, "replay", "none")
      BY <1>a, <3>2, GotoAsFacts DEF InSection, Locked, Pcs, Phases
    <3>3. CASE Destroy(h, "proxy", act[h].id, {act[h].id})
      BY <1>a, <2>1, <3>3, DestroyFacts DEF InSection, Locked, Tasks
    <3>4. CASE Answer(h)
      BY <1>a, <3>4, AnswerFacts DEF InSection, Locked
    <3> QED
      BY <1>6, <3>1, <3>2, <3>3, <3>4 DEF Unlock
  <2>4. ASSUME NEW g \in Handlers \ {h}, NEW id \in Ids PROVE InSection(g, id)' <=> InSection(g, id)
    BY <2>3 DEF Others, InSection, Locked
  <2> QED
    BY <1>a, <2>1, <2>2, <2>3, <2>4 DEF OneRefreshAtATime
<1>7. ASSUME NEW h \in Handlers, Adopt(h) PROVE OneRefreshAtATime'
  <2>1. act[h].id \in Ids /\ rec[act[h].id] \in Session \cup {None}
    BY <1>a, <1>7 DEF Adopt, At, ShapeOf, Holding, TypeOK, StoreTypeOK
  <2>2. Others(h) /\ \A id \in Ids : ~InSection(h, id)'
    <3>1. CASE Destroy(h, "proxy", act[h].id, {act[h].id})
      BY <1>a, <2>1, <3>1, DestroyFacts DEF InSection, Locked, Tasks
    <3>2. CASE Begin(h, "set", "proxy", act[h].id, rec[act[h].id], "reseal")
      BY <1>a, <2>1, <3>2, BeginFacts DEF InSection, Locked, Pcs, Tasks, Phases
    <3>3. CASE GotoAs(h, "forward", "none")
      BY <1>a, <3>3, GotoAsFacts DEF InSection, Locked, Pcs, Phases
    <3>4. CASE Begin(h, "replay", "proxy", act[h].id, rec[act[h].id], "none")
      BY <1>a, <2>1, <3>4, BeginFacts DEF InSection, Locked, Pcs, Tasks, Phases
    <3> QED
      BY <1>7, <3>1, <3>2, <3>3, <3>4 DEF Adopt
  <2> QED
    BY <1>7, <2>2, LockFrame DEF Adopt, store
<1>8. ASSUME NEW h \in Handlers, Forward(h) PROVE OneRefreshAtATime'
  <2>1. CASE GotoAs(h, "lock", "reactive")
    BY <1>a, <1>8, <2>1, GotoAsFacts, LockFrame DEF Forward, store, InSection, Locked, Pcs, Phases
  <2>2. CASE Goto(h, "replay")
    BY <1>a, <1>8, <2>2, GotoFacts, LockFrame DEF Forward, store, InSection, Locked, Pcs
  <2>3. CASE Answer(h)
    BY <1>a, <1>8, <2>3, AnswerFacts, LockFrame DEF Forward, store, InSection, Locked
  <2> QED
    BY <1>8, <2>1, <2>2, <2>3 DEF Forward
<1>9. ASSUME NEW h \in Handlers, Replay(h) \/ RevokeUpstream(h) \/ Crash(h)
      PROVE  OneRefreshAtATime'
  BY <1>a, <1>9, AnswerFacts, LockFrame DEF Replay, RevokeUpstream, Crash, store, InSection, Locked
<1>10. ASSUME NEW h \in Handlers, Destroyed(h) PROVE OneRefreshAtATime'
  <2>1. CASE Goto(h, "clean") \/ Goto(h, "revoke")
    BY <1>a, <1>10, <2>1, GotoFacts, LockFrame DEF Destroyed, store, InSection, Locked, Pcs
  <2>2. CASE Answer(h)
    BY <1>a, <1>10, <2>2, AnswerFacts, LockFrame DEF Destroyed, store, InSection, Locked
  <2> QED
    BY <1>10, <2>1, <2>2 DEF Destroyed
<1>11. ASSUME NEW h \in Handlers, CleanSid(h) PROVE OneRefreshAtATime'
  BY <1>a, <1>11, GotoFacts, LockFrame DEF CleanSid, DelSid, InSection, Locked, Pcs
<1>12. ASSUME NEW h \in Handlers, NEW id \in Ids, Callback(h, id) PROVE OneRefreshAtATime'
  <2>1. Others(h) /\ act'[h].pc = "set" /\ act'[h].phase = "none"
    BY <1>a, <1>12 DEF Callback, Begin, Others
  <2> QED
    BY <1>12, <2>1, LockFrame DEF Callback, store, InSection, Locked
<1>13. ASSUME NEW h \in Handlers, NEW id \in Ids, ProxyRead(h, id) PROVE OneRefreshAtATime'
  <2>1. CASE Begin(h, "forward", "proxy", id, rec[id], "none") /\ NoJobChange
    BY <1>a, <1>13, <2>1, BeginRead, LockFrame DEF ProxyRead, store, InSection, Locked, Pcs, Phases
  <2>2. CASE Begin(h, "lock", "proxy", id, rec[id], "proactive") /\ NoJobChange
    BY <1>a, <1>13, <2>2, BeginRead, LockFrame DEF ProxyRead, store, InSection, Locked, Pcs, Phases
  <2>3. CASE Destroy(h, "proxy", id, {id})
    BY <1>a, <1>13, <2>3, DestroyFacts, LockFrame DEF ProxyRead, store, InSection, Locked, Tasks
  <2> QED
    BY <1>13, <2>1, <2>2, <2>3 DEF ProxyRead
<1>14. ASSUME NEW h \in Handlers,
              NEW task \in Tasks, NEW id \in Ids \cup {None}, NEW S, Destroy(h, task, id, S),
              UNCHANGED store
       PROVE  OneRefreshAtATime'
  BY <1>a, <1>14, DestroyFacts, LockFrame DEF store, InSection, Locked
<1>15. ASSUME NEW h \in Handlers, NEW id \in Ids, LogoutRead(h, id) PROVE OneRefreshAtATime'
  BY <1>14, <1>15 DEF LogoutRead, Tasks
<1>16. ASSUME NEW h \in Handlers, NEW s \in Sids, BackchannelSid(h, s) PROVE OneRefreshAtATime'
  BY <1>a, <1>14, <1>16 DEF BackchannelSid, Tasks, TypeOK, StoreTypeOK
<1>17. ASSUME NEW h \in Handlers, NEW u \in Subs, BackchannelSub(h, u) PROVE OneRefreshAtATime'
  BY <1>14, <1>17 DEF BackchannelSub, Tasks
<1>18. ASSUME NEW h \in Handlers, StoreFault(h) PROVE OneRefreshAtATime'
  BY <1>a, <1>18, GotoAsFacts, LockFrame DEF StoreFault, store, InSection, Pcs, Phases
<1>19. ASSUME NEW id \in Ids, LockExpires(id) PROVE OneRefreshAtATime'
  BY <1>a, <1>19 DEF LockExpires, SetLock, OneRefreshAtATime, InSection, Locked
<1>20. ASSUME UNCHANGED act, UNCHANGED lock PROVE OneRefreshAtATime'
  BY <1>20 DEF OneRefreshAtATime, InSection, Locked
<1>21. ASSUME NEW h \in Handlers, NEW id \in Ids,
              JobGet(h, id) \/ JobDel(h, id) \/ JobSid(h, id) \/ JobSub(h, id)
       PROVE  OneRefreshAtATime'
  BY <1>20, <1>21 DEF JobGet, JobDel, JobSid, JobSub, DelSession, DelSid, RemSub, store
<1>22. ASSUME NEW id \in Ids, RecordExpires(id) PROVE OneRefreshAtATime'
  BY <1>20, <1>22 DEF RecordExpires, DelSession
<1>23. ASSUME NEW s \in Sids, SidIndexExpires(s) PROVE OneRefreshAtATime'
  BY <1>20, <1>23 DEF SidIndexExpires, ExpireSid
<1>24. ASSUME NEW u \in Subs, SubIndexExpires(u) PROVE OneRefreshAtATime'
  BY <1>20, <1>24 DEF SubIndexExpires, ExpireSub
<1>25. CASE UNCHANGED vars
  BY <1>20, <1>25 DEF vars, store
<1> QED
  BY <1>1, <1>2, <1>3, <1>4, <1>5, <1>6, <1>7, <1>8, <1>9, <1>10, <1>11, <1>12, <1>13, <1>15,
     <1>16, <1>17, <1>18, <1>19, <1>21, <1>22, <1>23, <1>24, <1>25 DEF Next, Request, Step, Environment

\* As long as no refresh outlives the lock's TTL, withRefreshLock lets at most
\* one activation refresh a session at a time, and the lock stands while it does.
THEOREM RefreshIsExclusive == ASSUME ~SlowRefresh PROVE Spec => []OneRefreshAtATime
<1>1. TypeInv /\ OneRefreshAtATime /\ [Next]_vars => OneRefreshAtATime'
  BY LockStep
<1> QED
  BY <1>1, LockInit, TypeCorrect, PTL DEF Spec

-----------------------------------------------------------------------------
(* The reverse indexes.  What takes an entry out of an index does so after *)
(* a record has been deleted (the id is in ended); what hands a browser    *)
(* its reference does so after the entries have been put in; and an index  *)
(* key expires only when no record it has been renewed for is left.  Local *)
(* says how far each activation has got with that.                         *)

SidHeld(s) == sidIdx[s] # None \/ \E e \in ended : SidOf[e] = s
SidKept(id) == HasSid(id) /\ Due(id, "sid") => SidHeld(SidOf[id])

Local(h) ==
    /\ \A id \in Ids : job[h][id] \in {"sid", "sub"} => id \in ended
    /\ act[h].pc = "destroy" /\ act[h].task = "bySid"
           => job[h][act[h].id] \in {"get", "del"} \/ act[h].id \in ended
    /\ act[h].pc = "clean" => act[h].id \in ended
    /\ act[h].pc = "sub" /\ act[h].task = "login" => SidKept(act[h].id)

IndexInv ==
    /\ FoundBySubject
    /\ \A h \in Handlers : Local(h)
    /\ \A id \in issued : SidKept(id)

LEMMA IndexInit == Init => IndexInv
  BY NoneAssumption DEF Init, IndexInv, FoundBySubject, Local, Idle, NoJobs

\* A step of h that takes nothing out of the indexes before its time.
LEMMA IndexFrame ==
  ASSUME TypeInv, IndexInv, NEW h \in Handlers, Others(h), OtherJobs(h), Local(h)',
         UNCHANGED issued, ended \subseteq ended',
         \A id \in issued \ ended :
            Due(id, "sub")' =>
               \/ id \in subIdx'[SubOf[id]]
               \/ Due(id, "sub") /\ (id \in subIdx[SubOf[id]] => id \in subIdx'[SubOf[id]]),
         \A id \in Ids : SidKept(id) => SidKept(id)'
  PROVE  IndexInv'
<1>1. ASSUME NEW g \in Handlers, g # h PROVE Local(g)'
  <2>1. act'[g] = act[g] /\ job'[g] = job[g] /\ Local(g)
    BY <1>1 DEF Others, OtherJobs, IndexInv
  <2>2. act[g].pc = "sub" => act[g].id \in Ids
    BY DEF TypeInv, Shape, ShapeOf, Holding
  <2> QED
    BY <2>1, <2>2 DEF Local
<1>2. issued \subseteq Ids
  BY DEF TypeInv, TypeOK
<1>3. FoundBySubject'
  BY DEF IndexInv, FoundBySubject
<1> QED
  BY <1>1, <1>2, <1>3 DEF IndexInv

\* A step of h that leaves the indexes, the records and every deletion alone.
LEMMA IndexSame ==
  ASSUME TypeInv, IndexInv, NEW h \in Handlers, Others(h), OtherJobs(h), Local(h)',
         UNCHANGED <<issued, ended, rec, sidIdx, subIdx, behind>>
  PROVE  IndexInv'
<1>1. \A id \in Ids : SidKept(id) => SidKept(id)'
  BY DEF SidKept, SidHeld, HasSid, Due, Covered
<1>2. \A id \in issued : Due(id, "sub")' => Due(id, "sub")
  BY DEF Due, Covered
<1> QED
  BY <1>1, <1>2, IndexFrame

\* What deleting or writing a record, or ending one, does to SidKept.
LEMMA KeptStays ==
  ASSUME NEW id \in Ids, SidKept(id), Due(id, "sid")' => Due(id, "sid"),
         SidHeld(SidOf[id]) => SidHeld(SidOf[id])'
  PROVE  SidKept(id)'
  BY DEF SidKept, HasSid

LEMMA IndexStep == TypeInv /\ IndexInv /\ [Next]_vars => IndexInv'
<1> SUFFICES ASSUME TypeInv, IndexInv, [Next]_vars PROVE IndexInv'
  OBVIOUS
<1>a. /\ TypeOK /\ act \in [Handlers -> Activation]
      /\ job \in [Handlers -> [Ids -> {"none", "get", "del", "sid", "sub"}]]
      /\ subIdx \in [Subs -> SUBSET Ids] /\ sidIdx \in [Sids -> Ids \cup {None}]
      /\ rec \in [Ids -> Session \cup {None}] /\ behind \in [Ids -> SUBSET {"sid", "sub"}]
      /\ issued \subseteq Ids /\ \A h \in Handlers : ShapeOf(h)
  BY DEF TypeInv, TypeOK, StoreTypeOK, Shape
<1>b. \A h \in Handlers : Local(h)
  BY DEF IndexInv
\* Steps after which the activation is at none of the points Local speaks of.
<1>1. ASSUME NEW h \in Handlers, NoJobChange, Others(h),
             act'[h].pc \notin {"destroy", "clean", "sub"},
             UNCHANGED <<issued, ended, rec, sidIdx, subIdx, behind>>
      PROVE  IndexInv'
  <2>1. OtherJobs(h)
    BY <1>1 DEF NoJobChange, OtherJobs
  <2>2. Local(h)'
    BY <1>b, <1>1 DEF Local, NoJobChange
  <2> QED
    BY <1>1, <2>1, <2>2, IndexSame
<1>2. ASSUME NEW h \in Handlers, Answer(h), UNCHANGED <<issued, ended, rec, sidIdx, subIdx, behind>>
      PROVE  IndexInv'
  <2>1. Others(h) /\ OtherJobs(h) /\ act'[h].pc = "idle" /\ \A id \in Ids : job'[h][id] = "none"
    BY <1>a, <1>2, AnswerFacts
  <2>2. Local(h)'
    BY <2>1 DEF Local
  <2> QED
    BY <1>2, <2>1, <2>2, IndexSame
<1>3. ASSUME NEW h \in Handlers, NEW task \in Tasks, NEW id \in Ids \cup {None}, NEW S,
             Destroy(h, task, id, S), task = "bySid" => id \in Ids /\ id \in S,
             UNCHANGED <<issued, ended, rec, sidIdx, subIdx, behind>>
      PROVE  IndexInv'
  <2>1. Others(h) /\ OtherJobs(h) /\ act'[h].pc = "destroy" /\ act'[h].task = task
        /\ act'[h].id = id /\ \A i \in Ids : job'[h][i] \in {"none", "get"}
    BY <1>a, <1>3, DestroyFacts
  <2>2. \A i \in Ids : i \in S => job'[h][i] = "get"
    BY <1>a, <1>3 DEF Destroy
  <2>3. Local(h)'
    BY <1>3, <2>1, <2>2 DEF Local
  <2> QED
    BY <1>3, <2>1, <2>3, IndexSame
<1>4. ASSUME NEW h \in Handlers, WriteRecord(h) PROVE IndexInv'
  <2>1. Others(h) /\ OtherJobs(h) /\ act'[h].id = act[h].id
        /\ act'[h].pc = (IF HasSid(act[h].id) THEN "sid" ELSE "sub")
    BY <1>a, <1>4, GotoFacts DEF WriteRecord, Pcs, NoJobChange, OtherJobs
  <2>2. act[h].id \in Ids /\ UNCHANGED <<issued, ended, sidIdx, subIdx, job>>
        /\ rec' = [rec EXCEPT ![act[h].id] = act[h].sess]
        /\ behind' = [behind EXCEPT ![act[h].id] = {"sid", "sub"}]
    BY <1>a, <1>4 DEF WriteRecord, SetSession, At, ShapeOf, Holding, history, NoJobChange
  <2>3. \A id \in Ids : \A index \in {"sid", "sub"} : Due(id, index)' => Due(id, index)
    BY <1>a, <2>2 DEF Due, Covered
  <2>4. \A id \in Ids : SidKept(id) => SidKept(id)'
    BY <2>2, <2>3, KeptStays DEF SidHeld
  <2>5. ~HasSid(act[h].id) => SidKept(act[h].id)'
    BY <2>1 DEF SidKept, HasSid
  <2>6. Local(h)'
    BY <1>b, <2>1, <2>2, <2>5 DEF Local
  <2> QED
    BY <1>a, <2>1, <2>2, <2>3, <2>4, <2>6, IndexFrame
<1>5. ASSUME NEW h \in Handlers, WriteSid(h) PROVE IndexInv'
  <2>1. Others(h) /\ OtherJobs(h) /\ act'[h].id = act[h].id /\ act'[h].pc = "sub"
    BY <1>a, <1>5, GotoFacts DEF WriteSid, Pcs, NoJobChange, OtherJobs
  <2>2. act[h].id \in Ids /\ HasSid(act[h].id) /\ SidOf[act[h].id] \in Sids
    BY <1>a, <1>5, DataAssumption DEF WriteSid, At, ShapeOf, Holding, HasSid
  <2>3. sidIdx' = [sidIdx EXCEPT ![SidOf[act[h].id]] = act[h].id]
        /\ behind' = [behind EXCEPT ![act[h].id] = @ \ {"sid"}]
        /\ UNCHANGED <<issued, ended, rec, subIdx, job>>
    BY <1>5 DEF WriteSid, SetSid, history, NoJobChange
  <2>4. sidIdx'[SidOf[act[h].id]] # None
    BY <1>a, <2>2, <2>3, NoneAssumption
  <2>5. ASSUME NEW id \in Ids, SidKept(id) PROVE SidKept(id)'
    <3>1. CASE SidOf[id] = SidOf[act[h].id]
      BY <2>4, <3>1 DEF SidKept, SidHeld
    <3>2. CASE SidOf[id] # SidOf[act[h].id]
      <4>1. SidHeld(SidOf[id]) => SidHeld(SidOf[id])'
        BY <1>a, <2>3, <3>2 DEF SidHeld
      <4>2. Due(id, "sid")' => Due(id, "sid")
        BY <1>a, <2>3, <3>2 DEF Due, Covered
      <4> QED
        BY <2>5, <4>1, <4>2, KeptStays
    <3> QED
      BY <3>1, <3>2
  <2>6. SidKept(act[h].id)'
    BY <2>1, <2>4 DEF SidKept, SidHeld
  <2>7. \A id \in Ids : Due(id, "sub")' => Due(id, "sub")
    BY <1>a, <2>3 DEF Due, Covered
  <2>8. Local(h)'
    BY <1>b, <2>1, <2>3, <2>6 DEF Local
  <2> QED
    BY <1>a, <2>1, <2>3, <2>5, <2>7, <2>8, IndexFrame
<1>6. ASSUME NEW h \in Handlers, WriteSub(h) PROVE IndexInv'
  <2>1. act[h].id \in Ids /\ SubOf[act[h].id] \in Subs
        /\ subIdx' = [subIdx EXCEPT ![SubOf[act[h].id]] = @ \cup {act[h].id}]
        /\ behind' = [behind EXCEPT ![act[h].id] = @ \ {"sub"}]
        /\ UNCHANGED <<ended, rec, sidIdx>>
    BY <1>a, <1>6, DataAssumption DEF WriteSub, AddSub, At, ShapeOf, Holding
  <2>2. act[h].id \in subIdx'[SubOf[act[h].id]]
        /\ \A id \in Ids : id \in subIdx[SubOf[id]] => id \in subIdx'[SubOf[id]]
    BY <1>a, <2>1, DataAssumption
  <2>3. \A id \in Ids : /\ Due(id, "sid")' => Due(id, "sid")
                        /\ Due(id, "sub")' => Due(id, "sub") \/ id = act[h].id
    BY <1>a, <2>1 DEF Due, Covered
  <2>4. \A id \in Ids : SidKept(id) => SidKept(id)'
    BY <2>1, <2>3, KeptStays DEF SidHeld
  <2>5. CASE act[h].task = "login" /\ Answer(h) /\ issued' = issued \cup {act[h].id}
    <3>1. Others(h) /\ OtherJobs(h) /\ act'[h].pc = "idle" /\ \A id \in Ids : job'[h][id] = "none"
      BY <1>a, <2>5, AnswerFacts
    <3>2. ASSUME NEW g \in Handlers PROVE Local(g)'
      <4>1. CASE g = h
        BY <3>1, <4>1 DEF Local
      <4>2. CASE g # h
        <5>1. act'[g] = act[g] /\ job'[g] = job[g] /\ Local(g) /\ (act[g].pc = "sub" => act[g].id \in Ids)
          BY <1>a, <1>b, <3>1, <4>2 DEF Others, OtherJobs, ShapeOf, Holding
        <5> QED
          BY <2>1, <2>4, <5>1 DEF Local
      <4> QED
        BY <4>1, <4>2
    <3>3. FoundBySubject'
      BY <1>a, <2>1, <2>2, <2>3, <2>5 DEF IndexInv, FoundBySubject
    <3>4. SidKept(act[h].id)
      BY <1>b, <1>6, <2>5 DEF Local, WriteSub, At
    <3>5. \A id \in issued' : SidKept(id)'
      BY <1>a, <2>1, <2>4, <2>5, <3>4 DEF IndexInv
    <3> QED
      BY <3>2, <3>3, <3>5 DEF IndexInv
  <2>6. CASE Goto(h, "unlock") /\ NoJobChange /\ UNCHANGED issued
    <3>1. Others(h) /\ OtherJobs(h) /\ act'[h].pc = "unlock"
      BY <1>a, <2>6, GotoFacts DEF Pcs, NoJobChange, OtherJobs
    <3>2. Local(h)'
      BY <1>b, <2>1, <2>6, <3>1 DEF Local, NoJobChange
    <3> QED
      BY <1>a, <2>1, <2>2, <2>3, <2>4, <2>6, <3>1, <3>2, IndexFrame
  <2>7. CASE GotoAs(h, "forward", "none") /\ NoJobChange /\ UNCHANGED issued
    <3>1. Others(h) /\ OtherJobs(h) /\ act'[h].pc = "forward"
      BY <1>a, <2>7, GotoAsFacts DEF Pcs, Phases, NoJobChange, OtherJobs
    <3>2. Local(h)'
      BY <1>b, <2>1, <2>7, <3>1 DEF Local, NoJobChange
    <3> QED
      BY <1>a, <2>1, <2>2, <2>3, <2>4, <2>7, <3>1, <3>2, IndexFrame
  <2> QED
    BY <1>6, <2>5, <2>6, <2>7 DEF WriteSub
<1>7. ASSUME NEW h \in Handlers, TakeLock(h) PROVE IndexInv'
  <2>1. Goto(h, "grant") \/ Goto(h, "adopt")
    BY <1>7 DEF TakeLock
  <2>2. Others(h) /\ act'[h].pc \notin {"destroy", "clean", "sub"}
    BY <1>a, <2>1, GotoFacts DEF Pcs
  <2> QED
    BY <1>1, <1>7, <2>2 DEF TakeLock, SetLock, store, history
<1>8. ASSUME NEW h \in Handlers, Granted(h) PROVE IndexInv'
  <2>1. Others(h) /\ act'[h].pc = "set"
    BY <1>a, <1>8 DEF Granted, Others, Activation
  <2> QED
    BY <1>1, <1>8, <2>1 DEF Granted, store, history
<1>9. ASSUME NEW h \in Handlers, Refused(h) \/ Unanswered(h) \/ StoreFault(h) PROVE IndexInv'
  <2>1. Others(h) /\ act'[h].pc = "unlock"
    BY <1>a, <1>9, GotoAsFacts DEF Refused, Unanswered, StoreFault, Pcs, Phases
  <2> QED
    BY <1>1, <1>9, <2>1 DEF Refused, Unanswered, StoreFault, store, history
<1>10. ASSUME NEW h \in Handlers, Unlock(h) PROVE IndexInv'
  <2>1. UNCHANGED <<issued, ended, rec, sidIdx, subIdx, behind>> /\ act[h].id \in Ids
    BY <1>a, <1>10 DEF Unlock, SetLock, history, At, ShapeOf
  <2>2. CASE (GotoAs(h, "set", "reseal") \/ GotoAs(h, "replay", "none")) /\ NoJobChange
    <3>1. Others(h) /\ act'[h].pc \notin {"destroy", "clean", "sub"}
      BY <1>a, <2>2, GotoAsFacts DEF Pcs, Phases
    <3> QED
      BY <1>1, <2>1, <2>2, <3>1
  <2>3. CASE Destroy(h, "proxy", act[h].id, {act[h].id})
    BY <1>3, <2>1, <2>3 DEF Tasks
  <2>4. CASE Answer(h)
    BY <1>2, <2>1, <2>4
  <2> QED
    BY <1>10, <2>2, <2>3, <2>4 DEF Unlock
<1>11. ASSUME NEW h \in Handlers, Adopt(h) PROVE IndexInv'
  <2>1. UNCHANGED <<issued, ended, rec, sidIdx, subIdx, behind>> /\ act[h].id \in Ids
    BY <1>a, <1>11 DEF Adopt, store, history, At, ShapeOf, Holding
  <2>2. CASE Destroy(h, "proxy", act[h].id, {act[h].id})
    BY <1>3, <2>1, <2>2 DEF Tasks
  <2>3. CASE \/ Begin(h, "set", "proxy", act[h].id, rec[act[h].id], "reseal") /\ NoJobChange
             \/ Begin(h, "replay", "proxy", act[h].id, rec[act[h].id], "none") /\ NoJobChange
    <3>1. Others(h) /\ act'[h].pc \notin {"destroy", "clean", "sub"}
      BY <1>a, <2>1, <2>3, BeginRead DEF Pcs, Phases
    <3> QED
      BY <1>1, <2>1, <2>3, <3>1
  <2>4. CASE GotoAs(h, "forward", "none") /\ NoJobChange
    <3>1. Others(h) /\ act'[h].pc = "forward"
      BY <1>a, <2>4, GotoAsFacts DEF Pcs, Phases
    <3> QED
      BY <1>1, <2>1, <2>4, <3>1
  <2> QED
    BY <1>11, <2>2, <2>3, <2>4 DEF Adopt
<1>12. ASSUME NEW h \in Handlers, Forward(h) PROVE IndexInv'
  <2>1. CASE (GotoAs(h, "lock", "reactive") \/ Goto(h, "replay")) /\ NoJobChange
    <3>1. Others(h) /\ act'[h].pc \in {"lock", "replay"}
      BY <1>a, <2>1, GotoFacts, GotoAsFacts DEF Pcs, Phases
    <3> QED
      BY <1>1, <1>12, <2>1, <3>1 DEF Forward, store, history
  <2>2. CASE Answer(h)
    BY <1>2, <1>12, <2>2 DEF Forward, store, history
  <2> QED
    BY <1>12, <2>1, <2>2 DEF Forward
<1>13. ASSUME NEW h \in Handlers, Replay(h) \/ RevokeUpstream(h) \/ Crash(h) PROVE IndexInv'
  BY <1>2, <1>13 DEF Replay, RevokeUpstream, Crash, store, history
<1>14. ASSUME NEW h \in Handlers, Destroyed(h) PROVE IndexInv'
  <2>1. UNCHANGED <<issued, ended, rec, sidIdx, subIdx, behind>>
    BY <1>14 DEF Destroyed, store, history
  <2>2. CASE act[h].task = "bySid" /\ Goto(h, "clean") /\ NoJobChange
    <3>1. Others(h) /\ act'[h].pc = "clean" /\ act'[h].id = act[h].id /\ act'[h].task = "bySid"
      BY <1>a, <2>2, GotoFacts DEF Pcs
    <3>2. act[h].id \in Ids /\ job[h][act[h].id] = "none"
      BY <1>a, <1>14, <2>2 DEF Destroyed, At, ShapeOf, NoJobs
    <3>3. act[h].id \in ended
      BY <1>b, <1>14, <2>2, <3>2 DEF Local, Destroyed, At
    <3>4. Local(h)' /\ OtherJobs(h)
      BY <1>b, <2>1, <2>2, <3>1, <3>3 DEF Local, NoJobChange, OtherJobs
    <3> QED
      BY <2>1, <3>1, <3>4, IndexSame
  <2>3. CASE Goto(h, "revoke") /\ NoJobChange
    <3>1. Others(h) /\ act'[h].pc = "revoke"
      BY <1>a, <2>3, GotoFacts DEF Pcs
    <3> QED
      BY <1>1, <2>1, <2>3, <3>1
  <2>4. CASE Answer(h)
    BY <1>2, <2>1, <2>4
  <2> QED
    BY <1>14, <2>2, <2>3, <2>4 DEF Destroyed
<1>15. ASSUME NEW h \in Handlers, CleanSid(h) PROVE IndexInv'
  <2>1. Others(h) /\ act'[h].pc = "revoke" /\ OtherJobs(h)
    BY <1>a, <1>15, GotoFacts DEF CleanSid, Pcs, NoJobChange, OtherJobs
  <2>2. act[h].id \in ended /\ sidIdx' = [sidIdx EXCEPT ![SidOf[act[h].id]] = None]
        /\ UNCHANGED <<issued, ended, rec, subIdx, behind>>
    BY <1>b, <1>15 DEF Local, CleanSid, At, DelSid, history
  <2>3. \A id \in Ids : SidKept(id) => SidKept(id)'
    BY <1>a, <2>2, DataAssumption DEF SidKept, SidHeld, HasSid, Due, Covered
  <2>4. Local(h)'
    BY <1>b, <1>15, <2>1 DEF Local, CleanSid, NoJobChange, history
  <2> QED
    BY <1>a, <2>1, <2>2, <2>3, <2>4, IndexFrame DEF Due, Covered
<1>16. ASSUME NEW h \in Handlers, NEW id \in Ids, Callback(h, id) PROVE IndexInv'
  <2>1. Others(h) /\ act'[h].pc = "set"
    BY <1>a, <1>16 DEF Callback, Begin, Others
  <2> QED
    BY <1>1, <1>16, <2>1 DEF Callback, store
<1>17. ASSUME NEW h \in Handlers, NEW id \in Ids, ProxyRead(h, id) PROVE IndexInv'
  <2>1. CASE \/ Begin(h, "forward", "proxy", id, rec[id], "none") /\ NoJobChange
             \/ Begin(h, "lock", "proxy", id, rec[id], "proactive") /\ NoJobChange
    <3>1. Others(h) /\ act'[h].pc \in {"forward", "lock"}
      BY <1>a, <2>1, BeginRead DEF Pcs, Phases
    <3> QED
      BY <1>1, <1>17, <2>1, <3>1 DEF ProxyRead, store, history
  <2>2. CASE Destroy(h, "proxy", id, {id})
    BY <1>3, <1>17, <2>2 DEF ProxyRead, store, history, Tasks
  <2> QED
    BY <1>17, <2>1, <2>2 DEF ProxyRead
<1>18. ASSUME NEW h \in Handlers, NEW id \in Ids, LogoutRead(h, id) PROVE IndexInv'
  BY <1>3, <1>18 DEF LogoutRead, store, history, Tasks
<1>19. ASSUME NEW h \in Handlers, NEW s \in Sids, BackchannelSid(h, s) PROVE IndexInv'
  BY <1>a, <1>3, <1>19 DEF BackchannelSid, store, history, Tasks
<1>20. ASSUME NEW h \in Handlers, NEW u \in Subs, BackchannelSub(h, u) PROVE IndexInv'
  BY <1>3, <1>20 DEF BackchannelSub, store, history, Tasks
<1>21. ASSUME NEW h \in Handlers, NEW id \in Ids, NEW step \in {"none", "del", "sid", "sub"},
              NextJob(h, id, step), UNCHANGED act,
              step \in {"sid", "sub", "none"} => id \in ended',
              ended \subseteq ended', \A i \in Ids : SidKept(i) => SidKept(i)'
       PROVE  Others(h) /\ OtherJobs(h) /\ Local(h)'
  <2>1. job' = [job EXCEPT ![h][id] = step]
    BY <1>21 DEF NextJob
  <2>2. job'[h][id] = step /\ \A i \in Ids \ {id} : job'[h][i] = job[h][i]
    BY <1>a, <2>1
  <2>3. /\ act[h].pc = "sub" => act[h].id \in Ids
        /\ act[h].pc = "destroy" /\ act[h].task = "bySid" => act[h].id \in Ids
    BY <1>a DEF ShapeOf, Holding
  <2>4. Local(h)'
    BY <1>b, <1>21, <2>2, <2>3 DEF Local
  <2> QED
    BY <1>21, <2>1, <2>4 DEF Others, OtherJobs
<1>22. ASSUME NEW h \in Handlers, NEW id \in Ids, JobGet(h, id) PROVE IndexInv'
  <2>1. UNCHANGED <<act, issued, ended, rec, sidIdx, subIdx, behind>> /\ NextJob(h, id, "del")
    BY <1>22 DEF JobGet, store, history
  <2>2. \A i \in Ids : SidKept(i) => SidKept(i)'
    BY <2>1 DEF SidKept, SidHeld, HasSid, Due, Covered
  <2> QED
    BY <1>21, <2>1, <2>2, IndexSame
<1>23. ASSUME NEW h \in Handlers, NEW id \in Ids, JobDel(h, id) PROVE IndexInv'
  <2>1. UNCHANGED <<issued, subIdx, sidIdx, act>> /\ ended' = ended \cup {id}
        /\ rec' = [rec EXCEPT ![id] = None] /\ behind' = [behind EXCEPT ![id] = {}]
    BY <1>23 DEF JobDel, DelSession
  <2>2. \E step \in {"none", "sid", "sub"} : NextJob(h, id, step)
    BY <1>23 DEF JobDel
  <2>3. \A i \in Ids : \A index \in {"sid", "sub"} : Due(i, index)' => Due(i, index)
    BY <1>a, <2>1 DEF Due, Covered
  <2>4. \A i \in Ids : SidKept(i) => SidKept(i)'
    BY <2>1, <2>3, KeptStays DEF SidHeld
  <2>5. Others(h) /\ OtherJobs(h) /\ Local(h)'
    BY <1>21, <2>1, <2>2, <2>4
  <2> QED
    BY <1>a, <2>1, <2>3, <2>4, <2>5, IndexFrame
<1>24. ASSUME NEW h \in Handlers, NEW id \in Ids, JobSid(h, id) PROVE IndexInv'
  <2>1. UNCHANGED <<issued, ended, rec, subIdx, behind, act>> /\ NextJob(h, id, "sub")
        /\ sidIdx' = [sidIdx EXCEPT ![SidOf[id]] = None]
    BY <1>24 DEF JobSid, DelSid, history
  <2>2. id \in ended
    BY <1>b, <1>24 DEF Local, JobSid
  <2>3. \A i \in Ids : SidKept(i) => SidKept(i)'
    BY <1>a, <2>1, <2>2, DataAssumption DEF SidKept, SidHeld, HasSid, Due, Covered
  <2>4. Others(h) /\ OtherJobs(h) /\ Local(h)'
    BY <1>21, <2>1, <2>2, <2>3
  <2> QED
    BY <1>a, <2>1, <2>3, <2>4, IndexFrame DEF Due, Covered
<1>25. ASSUME NEW h \in Handlers, NEW id \in Ids, JobSub(h, id) PROVE IndexInv'
  <2>1. UNCHANGED <<issued, ended, rec, sidIdx, behind, act>> /\ NextJob(h, id, "none")
        /\ subIdx' = [subIdx EXCEPT ![SubOf[id]] = @ \ {id}]
    BY <1>25 DEF JobSub, RemSub, history
  <2>2. id \in ended
    BY <1>b, <1>25 DEF Local, JobSub
  <2>3. \A i \in issued \ ended : i \in subIdx[SubOf[i]] => i \in subIdx'[SubOf[i]]
    BY <1>a, <2>1, <2>2, DataAssumption
  <2>4. \A i \in Ids : SidKept(i) => SidKept(i)'
    BY <2>1 DEF SidKept, SidHeld, HasSid, Due, Covered
  <2>5. Others(h) /\ OtherJobs(h) /\ Local(h)'
    BY <1>21, <2>1, <2>2, <2>4
  <2> QED
    BY <2>1, <2>3, <2>4, <2>5, IndexFrame DEF Due, Covered
\* Steps that no activation takes.
<1>26. ASSUME UNCHANGED <<act, job, issued, ended>>,
              \A id \in issued \ ended :
                 Due(id, "sub")' => Due(id, "sub") /\ (id \in subIdx[SubOf[id]] => id \in subIdx'[SubOf[id]]),
              \A id \in Ids : SidKept(id) => SidKept(id)'
       PROVE  IndexInv'
  <2>1. FoundBySubject'
    BY <1>26 DEF IndexInv, FoundBySubject
  <2>2. ASSUME NEW h \in Handlers PROVE Local(h)'
    <3>1. act[h].pc = "sub" => act[h].id \in Ids
      BY <1>a DEF ShapeOf, Holding
    <3> QED
      BY <1>b, <1>26, <3>1 DEF Local
  <2> QED
    BY <1>a, <1>26, <2>1, <2>2 DEF IndexInv
<1>27. ASSUME UNCHANGED <<act, job, issued, ended, rec, sidIdx, subIdx, behind>> PROVE IndexInv'
  BY <1>26, <1>27 DEF SidKept, SidHeld, HasSid, Due, Covered
<1>28. ASSUME NEW id \in Ids, LockExpires(id) PROVE IndexInv'
  BY <1>27, <1>28 DEF LockExpires, SetLock, history
<1>29. ASSUME NEW id \in Ids, RecordExpires(id) PROVE IndexInv'
  <2>1. UNCHANGED <<act, job, issued, ended, sidIdx, subIdx>>
        /\ rec' = [rec EXCEPT ![id] = None] /\ behind' = [behind EXCEPT ![id] = {}]
    BY <1>29 DEF RecordExpires, DelSession, history
  <2>2. \A i \in Ids : \A index \in {"sid", "sub"} : Due(i, index)' => Due(i, index)
    BY <1>a, <2>1 DEF Due, Covered
  <2>3. \A i \in Ids : SidKept(i) => SidKept(i)'
    BY <2>1, <2>2, KeptStays DEF SidHeld
  <2> QED
    BY <1>a, <1>26, <2>1, <2>2, <2>3
<1>30. ASSUME NEW s \in Sids, SidIndexExpires(s) PROVE IndexInv'
  <2>1. UNCHANGED <<act, job, issued, ended, rec, subIdx, behind>> /\ Expiry
        /\ sidIdx' = [sidIdx EXCEPT ![s] = None]
        /\ \A id \in Ids : SidOf[id] = s => ~Covered(id, "sid")
    BY <1>30 DEF SidIndexExpires, ExpireSid, history
  <2>2. \A id \in Ids : SidKept(id) => SidKept(id)'
    BY <1>a, <2>1 DEF SidKept, SidHeld, HasSid, Due, Covered
  <2> QED
    BY <1>26, <2>1, <2>2 DEF Due, Covered
<1>31. ASSUME NEW u \in Subs, SubIndexExpires(u) PROVE IndexInv'
  <2>1. UNCHANGED <<act, job, issued, ended, rec, sidIdx, behind>> /\ Expiry
        /\ subIdx' = [subIdx EXCEPT ![u] = {}]
        /\ \A id \in Ids : SubOf[id] = u => ~Covered(id, "sub")
    BY <1>31 DEF SubIndexExpires, ExpireSub, history
  <2>2. \A id \in Ids : SidKept(id) => SidKept(id)'
    BY <2>1 DEF SidKept, SidHeld, HasSid, Due, Covered
  <2>3. \A id \in issued : Due(id, "sub")' => subIdx'[SubOf[id]] = subIdx[SubOf[id]] /\ Due(id, "sub")
    BY <1>a, <2>1 DEF Due, Covered
  <2> QED
    BY <1>26, <2>1, <2>2, <2>3
<1>32. CASE UNCHANGED vars
  BY <1>27, <1>32 DEF vars, store, history
<1> QED
  BY <1>4, <1>5, <1>6, <1>7, <1>8, <1>9, <1>10, <1>11, <1>12, <1>13, <1>14, <1>15, <1>16, <1>17,
     <1>18, <1>19, <1>20, <1>22, <1>23, <1>24, <1>25, <1>28, <1>29, <1>30, <1>31, <1>32
  DEF Next, Request, Step, Environment

\* A session in use is in its subject's set, whatever writes, tear-downs and
\* logouts are under way: revokeBySubject cannot miss it.
THEOREM SubjectIndexComplete == Spec => []FoundBySubject
<1>1. IndexInv => FoundBySubject
  BY DEF IndexInv
<1> QED
  BY <1>1, TypeInit, TypeStep, IndexInit, IndexStep, PTL DEF Spec

\* Unless a session of the same OP session has been ended, the sid index of a
\* session in use names a session of that sid: revokeBySid has something to find.
THEOREM SidIndexComplete == Spec => []FoundBySid
<1>1. TypeInv /\ IndexInv => FoundBySid
  <2> SUFFICES ASSUME TypeInv, IndexInv, NEW id \in issued \ ended, HasSid(id), Due(id, "sid"),
                      \A other \in ended : SidOf[other] # SidOf[id]
               PROVE  \E found \in Ids : sidIdx[SidOf[id]] = found /\ SidOf[found] = SidOf[id]
    BY DEF FoundBySid
  <2>1. SidOf[id] \in Sids
    BY DataAssumption DEF HasSid, TypeInv, TypeOK
  <2>2. sidIdx[SidOf[id]] # None /\ sidIdx[SidOf[id]] \in Ids \cup {None}
    BY <2>1 DEF IndexInv, SidKept, SidHeld, TypeInv, TypeOK, StoreTypeOK
  <2> QED
    BY <2>1, <2>2 DEF TypeInv, Shape
<1> QED
  BY <1>1, TypeInit, TypeStep, IndexInit, IndexStep, PTL DEF Spec
-----------------------------------------------------------------------------
(* The token a refresh has been given.                                     *)

\* An activation that may still redeem or store the token of the record it holds.
Carries(g, id) ==
  /\ act[g].id = id
  /\ act[g].pc \in Holding \/ (act[g].pc = "unlock" /\ act[g].phase = "proactive")

Rotating(h) == Locked(act[h]) /\ At(h, "set")

\* Every token in use has been minted, so the next one to be minted is new.
Minted ==
  \A id \in Ids :
    /\ id \notin born => minted[id] = 0
    /\ \A t \in spent[id] : t <= minted[id]
    /\ rec[id] # None => rec[id].tok <= minted[id]
    /\ \A g \in Handlers : Carries(g, id) => act[g].sess.tok <= minted[id]

\* A rotated token that is yet to be stored is in nobody else's hands.
OwnToken(h, id) ==
  /\ act[h].sess.tok # 0
  /\ act[h].sess.tok \notin spent[id]
  /\ rec[id] # None => rec[id].tok # act[h].sess.tok
  /\ \A g \in Handlers \ {h} : Carries(g, id) => act[g].sess.tok # act[h].sess.tok

Own == \A h \in Handlers : \A id \in Ids : Rotating(h) /\ act[h].id = id => OwnToken(h, id)

TokenInv == Minted /\ Own

LEMMA CarryFacts ==
  ASSUME TypeInv, NEW g \in Handlers
  PROVE  /\ Rotating(g) => act[g].id \in Ids /\ Carries(g, act[g].id)
         /\ \A id \in Ids : Carries(g, id) => act[g].sess \in Session /\ act[g].sess.tok \in Nat
<1>1. ShapeOf(g)
  BY DEF TypeInv, Shape
<1>2. Rotating(g) => act[g].id \in Ids /\ Carries(g, act[g].id)
  BY <1>1 DEF ShapeOf, Rotating, At, Holding, Carries
<1>3. ASSUME NEW id \in Ids, Carries(g, id) PROVE act[g].sess \in Session
  BY <1>1, <1>3 DEF ShapeOf, Carries
<1> QED
  BY <1>2, <1>3, DataAssumption DEF Session

\* A step of h that redeems nothing: what it holds afterwards it has held before or
\* has read from the record, and a record it sets is what it has held.
LEMMA TokenFrame ==
  ASSUME TypeInv, TokenInv, NEW h \in Handlers, Others(h), UNCHANGED <<minted, spent, born>>,
         \A id \in Ids : Carries(h, id)' =>
           \/ Carries(h, id) /\ act'[h].sess = act[h].sess
           \/ rec[id] # None /\ act'[h].sess = rec[id],
         \A id \in Ids :
           \/ rec'[id] = rec[id] \/ rec'[id] = None
           \/ Carries(h, id) /\ rec'[id] = act[h].sess,
         ~ Rotating(h)'
  PROVE  TokenInv'
<1>1. \A g \in Handlers \ {h} : /\ act'[g] = act[g] /\ Rotating(g)' = Rotating(g)
                                /\ \A id \in Ids : Carries(g, id)' = Carries(g, id)
  BY DEF Others, Rotating, Locked, At, Carries
<1>2. Minted'
  <2> SUFFICES ASSUME NEW id \in Ids
               PROVE  /\ id \notin born' => minted'[id] = 0
                      /\ \A t \in spent'[id] : t <= minted'[id]
                      /\ rec'[id] # None => rec'[id].tok <= minted'[id]
                      /\ \A g \in Handlers : Carries(g, id)' => act'[g].sess.tok <= minted'[id]
    BY DEF Minted
  <2>1. rec'[id] # None => rec'[id].tok <= minted[id]
    BY DEF TokenInv, Minted
  <2>2. ASSUME NEW g \in Handlers, Carries(g, id)' PROVE act'[g].sess.tok <= minted[id]
    BY <1>1, <2>2 DEF TokenInv, Minted
  <2> QED
    BY <2>1, <2>2 DEF TokenInv, Minted
<1>3. ASSUME NEW k \in Handlers, NEW id \in Ids, Rotating(k)', act'[k].id = id
      PROVE  OwnToken(k, id)'
  <2>1. k # h /\ act'[k] = act[k] /\ Rotating(k) /\ act[k].id = id
    BY <1>1, <1>3
  <2>2. OwnToken(k, id)
    BY <2>1 DEF TokenInv, Own
  <2>3. rec'[id] # None => rec'[id].tok # act[k].sess.tok
    BY <2>1, <2>2 DEF OwnToken
  <2>4. ASSUME NEW g \in Handlers \ {k}, Carries(g, id)' PROVE act'[g].sess.tok # act[k].sess.tok
    BY <1>1, <2>1, <2>2, <2>4 DEF OwnToken
  <2> QED
    BY <2>1, <2>2, <2>3, <2>4 DEF OwnToken
<1> QED
  BY <1>2, <1>3 DEF TokenInv, Own

\* The steps in which no activation changes what it holds.
LEMMA TokenStill ==
  ASSUME TokenInv, UNCHANGED <<act, minted, spent, born>>,
         \A id \in Ids : rec'[id] = rec[id] \/ rec'[id] = None
  PROVE  TokenInv'
<1>1. Minted'
  BY DEF TokenInv, Minted, Carries
<1>2. Own'
  BY DEF TokenInv, Own, OwnToken, Rotating, Locked, At, Carries
<1> QED
  BY <1>1, <1>2 DEF TokenInv

LEMMA GrantStep ==
  ASSUME TypeInv, TokenInv, NEW h \in Handlers, Granted(h)
  PROVE  TokenInv'
<1>1. PICK i \in Ids : i = act[h].id /\ Carries(h, i) /\ act[h].sess.tok \in Nat
  BY CarryFacts DEF TypeInv, Shape, ShapeOf, Granted, At, Holding, Carries
<1>2. PICK m \in Nat : m = minted[i]
  BY DEF TypeInv, TypeOK, HostTypeOK
<1>3. PICK u \in Nat : u = act[h].sess.tok /\ u <= m
  BY <1>1, <1>2 DEF TokenInv, Minted
<1>4. /\ minted' = [minted EXCEPT ![i] = m + 1] /\ spent' = [spent EXCEPT ![i] = @ \cup {u}]
      /\ UNCHANGED <<rec, born>>
  BY <1>1, <1>2, <1>3 DEF Granted, Redeem, store, history
<1>5. /\ minted'[i] = m + 1 /\ spent'[i] = spent[i] \cup {u}
      /\ \A id \in Ids \ {i} : minted'[id] = minted[id] /\ spent'[id] = spent[id]
  BY <1>4 DEF TypeInv, TypeOK, HostTypeOK
<1>6. /\ act'[h].id = i /\ act'[h].pc = "set" /\ act'[h].phase = act[h].phase
      /\ act'[h].sess.tok = m + 1 /\ Others(h)
  BY <1>1, <1>2 DEF Granted, Others, TypeInv, TypeOK, Activation
<1>7. \A g \in Handlers \ {h} : /\ act'[g] = act[g] /\ Rotating(g)' = Rotating(g)
                                /\ \A id \in Ids : Carries(g, id)' = Carries(g, id)
  BY <1>6 DEF Others, Rotating, Locked, At, Carries
<1>8. \A id \in Ids : Carries(h, id)' => id = i
  BY <1>6 DEF Carries
<1>9. i \in born
  \* A token that is there to be redeemed has been minted.
  BY <1>1, <1>2, <1>3 DEF TokenInv, Minted, TypeInv, Shape, ShapeOf, Granted, At
<1>10. /\ \A t \in spent[i] : t <= m
       /\ rec[i] # None => rec[i].tok <= m
       /\ \A g \in Handlers : Carries(g, i) => act[g].sess.tok <= m
  BY <1>2 DEF TokenInv, Minted
<1>11. Minted'
  <2>1. ASSUME NEW id \in Ids \ {i}
        PROVE  /\ id \notin born' => minted'[id] = 0
               /\ \A t \in spent'[id] : t <= minted'[id]
               /\ rec'[id] # None => rec'[id].tok <= minted'[id]
               /\ \A g \in Handlers : Carries(g, id)' => act'[g].sess.tok <= minted'[id]
    BY <1>4, <1>5, <1>7, <1>8 DEF TokenInv, Minted
  <2>2. \A t \in spent'[i] : t <= m + 1
    BY <1>3, <1>5, <1>10 DEF TypeInv, TypeOK, HostTypeOK
  <2>3. rec[i] # None => rec[i].tok <= m + 1
    <3>1. rec[i] # None => rec[i].tok \in Nat
      BY DataAssumption DEF TypeInv, TypeOK, StoreTypeOK, Session
    <3> QED
      BY <1>10, <3>1
  <2>4. ASSUME NEW g \in Handlers, Carries(g, i)' PROVE act'[g].sess.tok <= m + 1
    <3>1. CASE g = h
      BY <1>6, <3>1
    <3>2. CASE g # h
      <4>1. act'[g] = act[g] /\ act[g].sess.tok \in Nat /\ act[g].sess.tok <= m
        BY <1>7, <1>10, <2>4, <3>2, CarryFacts
      <4> QED
        BY <4>1
    <3> QED
      BY <3>1, <3>2
  <2> QED
    BY <1>4, <1>5, <1>9, <2>1, <2>2, <2>3, <2>4 DEF Minted
<1>12. OwnToken(h, i)'
  <2>1. m + 1 \notin spent'[i]
    BY <1>3, <1>5, <1>10
  <2>2. rec[i] # None => rec[i].tok # m + 1
    BY <1>10
  <2>3. ASSUME NEW g \in Handlers \ {h}, Carries(g, i)' PROVE act'[g].sess.tok # m + 1
    BY <1>7, <1>10, <2>3
  <2> QED
    BY <1>4, <1>6, <2>1, <2>2, <2>3 DEF OwnToken
\* The token that is redeemed is not the one another activation is about to store.
<1>13. ASSUME NEW k \in Handlers \ {h}, NEW id \in Ids, Rotating(k)', act'[k].id = id
       PROVE  OwnToken(k, id)'
  <2>1. act'[k] = act[k] /\ OwnToken(k, id)
    BY <1>7, <1>13 DEF TokenInv, Own
  <2>2. act[k].sess.tok \notin spent'[id]
    <3>1. CASE id = i
      BY <1>1, <1>3, <1>5, <2>1, <3>1 DEF OwnToken
    <3> QED
      BY <1>5, <2>1, <3>1 DEF OwnToken
  <2>3. ASSUME NEW g \in Handlers \ {k}, Carries(g, id)' PROVE act'[g].sess.tok # act[k].sess.tok
    <3>1. CASE g = h
      <4>1. id = i /\ Carries(k, i)
        BY <1>7, <1>8, <1>13, <2>3, <3>1, CarryFacts
      <4>2. act[k].sess.tok <= m /\ act[k].sess.tok \in Nat
        BY <1>10, <4>1, CarryFacts
      <4> QED
        BY <1>6, <3>1, <4>2
    <3>2. CASE g # h
      BY <1>7, <2>1, <2>3, <3>2 DEF OwnToken
    <3> QED
      BY <3>1, <3>2
  <2> QED
    BY <1>4, <2>1, <2>2, <2>3 DEF OwnToken
<1> QED
  BY <1>6, <1>11, <1>12, <1>13 DEF TokenInv, Own

\* A grant whose answer is lost: the new token goes to nobody, and the token that
\* is redeemed is not the one another activation is about to store.
LEMMA LostGrantStep ==
  ASSUME TypeInv, TokenInv, NEW h \in Handlers, At(h, "grant"),
         Redeem(act[h].id, act[h].sess.tok), GotoAs(h, "unlock", "unanswered"),
         UNCHANGED <<rec, history>>
  PROVE  TokenInv'
<1>1. PICK i \in Ids : i = act[h].id /\ Carries(h, i) /\ act[h].sess.tok \in Nat
  BY CarryFacts DEF TypeInv, Shape, ShapeOf, At, Holding, Carries
<1>2. PICK m \in Nat : m = minted[i]
  BY DEF TypeInv, TypeOK, HostTypeOK
<1>3. PICK u \in Nat : u = act[h].sess.tok /\ u <= m
  BY <1>1, <1>2 DEF TokenInv, Minted
<1>4. /\ minted'[i] = m + 1 /\ spent'[i] = spent[i] \cup {u}
      /\ \A id \in Ids \ {i} : minted'[id] = minted[id] /\ spent'[id] = spent[id]
      /\ UNCHANGED <<rec, born>>
  BY <1>1, <1>2, <1>3 DEF Redeem, history, TypeInv, TypeOK, HostTypeOK
<1>5. Others(h) /\ act'[h].pc = "unlock" /\ act'[h].phase = "unanswered"
  BY GotoAsFacts DEF TypeInv, TypeOK, Pcs, Phases
<1>6. ~ Rotating(h)' /\ \A id \in Ids : ~ Carries(h, id)'
  BY <1>5 DEF Rotating, At, Carries, Holding
<1>7. \A g \in Handlers \ {h} : /\ act'[g] = act[g] /\ Rotating(g)' = Rotating(g)
                                /\ \A id \in Ids : Carries(g, id)' = Carries(g, id)
  BY <1>5 DEF Others, Rotating, Locked, At, Carries
<1>8. i \in born
  BY <1>1, <1>2, <1>3 DEF TokenInv, Minted, TypeInv, Shape, ShapeOf, At
<1>9. /\ \A t \in spent[i] : t <= m
      /\ rec[i] # None => rec[i].tok <= m
      /\ \A g \in Handlers : Carries(g, i) => act[g].sess.tok <= m
  BY <1>2 DEF TokenInv, Minted
<1>10. Minted'
  <2>1. ASSUME NEW id \in Ids \ {i}
        PROVE  /\ id \notin born' => minted'[id] = 0
               /\ \A t \in spent'[id] : t <= minted'[id]
               /\ rec'[id] # None => rec'[id].tok <= minted'[id]
               /\ \A g \in Handlers : Carries(g, id)' => act'[g].sess.tok <= minted'[id]
    BY <1>4, <1>6, <1>7 DEF TokenInv, Minted
  <2>2. \A t \in spent'[i] : t <= m + 1
    BY <1>3, <1>4, <1>9 DEF TypeInv, TypeOK, HostTypeOK
  <2>3. rec[i] # None => rec[i].tok <= m + 1
    <3>1. rec[i] # None => rec[i].tok \in Nat
      BY DataAssumption DEF TypeInv, TypeOK, StoreTypeOK, Session
    <3> QED
      BY <1>9, <3>1
  <2>4. ASSUME NEW g \in Handlers, Carries(g, i)' PROVE act'[g].sess.tok <= m + 1
    <3>1. act'[g] = act[g] /\ act[g].sess.tok \in Nat /\ act[g].sess.tok <= m
      BY <1>6, <1>7, <1>9, <2>4, CarryFacts
    <3> QED
      BY <3>1
  <2> QED
    BY <1>4, <1>8, <2>1, <2>2, <2>3, <2>4 DEF Minted
<1>11. ASSUME NEW k \in Handlers, NEW id \in Ids, Rotating(k)', act'[k].id = id
       PROVE  OwnToken(k, id)'
  <2>1. k # h /\ act'[k] = act[k] /\ OwnToken(k, id)
    BY <1>6, <1>7, <1>11 DEF TokenInv, Own
  <2>2. act[k].sess.tok \notin spent'[id]
    BY <1>1, <1>3, <1>4, <2>1 DEF OwnToken
  <2>3. ASSUME NEW g \in Handlers \ {k}, Carries(g, id)' PROVE act'[g].sess.tok # act[k].sess.tok
    BY <1>6, <1>7, <2>1, <2>3 DEF OwnToken
  <2> QED
    BY <1>4, <2>1, <2>2, <2>3 DEF OwnToken
<1> QED
  BY <1>10, <1>11 DEF TokenInv, Own

LEMMA CallbackStep ==
  ASSUME TypeInv, TokenInv, NEW h \in Handlers, NEW i \in Ids, Callback(h, i)
  PROVE  TokenInv'
<1>1. /\ i \notin born /\ minted[i] = 0 /\ born' = born \cup {i}
      /\ UNCHANGED <<rec, spent>>
  BY DEF Callback, SignIn, store, TokenInv, Minted
<1>2. /\ minted'[i] \in 0 .. MaxTok
      /\ \A id \in Ids \ {i} : minted'[id] = minted[id]
  BY DataAssumption DEF Callback, SignIn, TypeInv, TypeOK, HostTypeOK
<1>3. /\ act'[h].id = i /\ act'[h].sess.tok = minted'[i] /\ act'[h].phase = "none" /\ Others(h)
  <2> DEFINE first == [tok |-> minted'[i], ver |-> 1]
  <2>1. first \in Session /\ first.tok = minted'[i]
    BY <1>2 DEF Session
  <2>2. /\ Begin(h, "set", "login", i, first, "none")
        /\ "set" \in Pcs /\ "login" \in Tasks /\ "none" \in Phases
        /\ act \in [Handlers -> Activation]
    BY DEF Callback, Pcs, Tasks, Phases, TypeInv, TypeOK
  <2> HIDE DEF first
  <2> QED
    BY <2>1, <2>2, BeginFacts
<1>4. \A g \in Handlers \ {h} : /\ act'[g] = act[g] /\ Rotating(g)' = Rotating(g)
                                /\ \A id \in Ids : Carries(g, id)' = Carries(g, id)
  BY <1>3 DEF Others, Rotating, Locked, At, Carries
<1>5. ~ Rotating(h)' /\ \A id \in Ids : Carries(h, id)' => id = i
  BY <1>3 DEF Rotating, Locked, Carries
\* Nobody has had a token of the id before: what there is of it has none.
<1>6. /\ \A t \in spent[i] : t <= 0
      /\ rec[i] # None => rec[i].tok <= 0
      /\ \A g \in Handlers : Carries(g, i) => act[g].sess.tok <= 0
  BY <1>1 DEF TokenInv, Minted
<1>7. Minted'
  <2>1. ASSUME NEW id \in Ids \ {i}
        PROVE  /\ id \notin born' => minted'[id] = 0
               /\ \A t \in spent'[id] : t <= minted'[id]
               /\ rec'[id] # None => rec'[id].tok <= minted'[id]
               /\ \A g \in Handlers : Carries(g, id)' => act'[g].sess.tok <= minted'[id]
    BY <1>1, <1>2, <1>4, <1>5 DEF TokenInv, Minted
  <2>2. PICK m \in Nat : m = minted'[i]
    BY <1>2, DataAssumption
  <2>3. \A t \in spent[i] : t <= m
    BY <1>6, DataAssumption DEF TypeInv, TypeOK, HostTypeOK
  <2>4. rec[i] # None => rec[i].tok <= m
    <3>1. rec[i] # None => rec[i].tok \in Nat
      BY DataAssumption DEF TypeInv, TypeOK, StoreTypeOK, Session
    <3> QED
      BY <1>6, <3>1
  <2>5. ASSUME NEW g \in Handlers, Carries(g, i)' PROVE act'[g].sess.tok <= m
    <3>1. CASE g = h
      BY <1>3, <2>2, <3>1
    <3>2. CASE g # h
      <4>1. act'[g] = act[g] /\ act[g].sess.tok \in Nat /\ act[g].sess.tok <= 0
        BY <1>4, <1>6, <2>5, <3>2, CarryFacts
      <4> QED
        BY <4>1
    <3> QED
      BY <3>1, <3>2
  <2> QED
    BY <1>1, <2>1, <2>2, <2>3, <2>4, <2>5 DEF Minted
<1>8. ASSUME NEW k \in Handlers, NEW id \in Ids, Rotating(k)', act'[k].id = id
      PROVE  OwnToken(k, id)'
  <2>1. k # h /\ act'[k] = act[k] /\ Rotating(k) /\ OwnToken(k, id) /\ act[k].id = id
    BY <1>4, <1>5, <1>8 DEF TokenInv, Own
  <2>2. id # i
    <3>1. SUFFICES ASSUME id = i PROVE FALSE
      OBVIOUS
    <3>2. act[k].sess.tok \in Nat /\ act[k].sess.tok <= 0
      BY <1>6, <2>1, <3>1, CarryFacts
    <3> QED
      BY <2>1, <3>2 DEF OwnToken
  <2>3. ASSUME NEW g \in Handlers \ {k}, Carries(g, id)' PROVE g # h /\ Carries(g, id) /\ act'[g] = act[g]
    BY <1>4, <1>5, <2>2, <2>3
  <2> QED
    BY <1>1, <2>1, <2>3 DEF OwnToken
<1> QED
  BY <1>7, <1>8 DEF TokenInv, Own

LEMMA TokenStep ==
  ASSUME TypeInv, TokenInv, [Next]_vars
  PROVE  TokenInv'
<1>a. /\ TypeOK /\ act \in [Handlers -> Activation] /\ rec \in [Ids -> Session \cup {None}]
      /\ \A h \in Handlers : ShapeOf(h)
  BY DEF TypeInv, TypeOK, StoreTypeOK, Shape
\* h lets go of what it holds.
<1>b. ASSUME NEW h \in Handlers, Others(h), UNCHANGED <<rec, minted, spent, born>>,
             act'[h].pc \in {"idle", "destroy", "replay", "clean", "revoke"}
      PROVE  TokenInv'
  <2>1. ~ Rotating(h)' /\ \A id \in Ids : ~ Carries(h, id)'
    BY <1>b DEF Rotating, At, Carries, Holding
  <2> QED
    BY <1>b, <2>1, TokenFrame
\* h goes on with what it holds.
<1>c. ASSUME NEW h \in Handlers, Others(h), UNCHANGED <<minted, spent, born>>,
             act[h].pc \in Holding \/ (act[h].pc = "unlock" /\ act[h].phase = "proactive"),
             act'[h].id = act[h].id, act'[h].sess = act[h].sess,
             act'[h].pc # "set" \/ act'[h].phase = "reseal",
             rec' = rec \/ SetSession(act[h].id, act[h].sess)
      PROVE  TokenInv'
  <2>1. ~ Rotating(h)' /\ \A id \in Ids : Carries(h, id)' => Carries(h, id)
    BY <1>c DEF Rotating, Locked, At, Carries
  <2>2. \A id \in Ids : rec'[id] = rec[id] \/ (Carries(h, id) /\ rec'[id] = act[h].sess)
    BY <1>a, <1>c DEF SetSession, Carries
  <2> QED
    BY <1>c, <2>1, <2>2, TokenFrame
\* h goes on with the record it has just read.
<1>d. ASSUME NEW h \in Handlers, NEW i \in Ids, Others(h), UNCHANGED <<rec, minted, spent, born>>,
             rec[i] # None, act'[h].id = i, act'[h].sess = rec[i],
             act'[h].pc # "set" \/ act'[h].phase = "reseal"
      PROVE  TokenInv'
  <2>1. ~ Rotating(h)' /\ \A id \in Ids : Carries(h, id)' => id = i
    BY <1>d DEF Rotating, Locked, At, Carries
  <2> QED
    BY <1>d, <2>1, TokenFrame
<1>1. ASSUME NEW h \in Handlers, WriteRecord(h) \/ WriteSid(h) PROVE TokenInv'
  <2>1. /\ act[h].pc \in Holding /\ UNCHANGED <<minted, spent, born>>
        /\ rec' = rec \/ SetSession(act[h].id, act[h].sess)
    BY <1>1 DEF WriteRecord, WriteSid, SetSid, At, Holding, host, history
  <2>2. PICK pc \in {"sid", "sub"} : Goto(h, pc)
    BY <1>1 DEF WriteRecord, WriteSid
  <2>3. Others(h) /\ act'[h].pc # "set" /\ act'[h].id = act[h].id /\ act'[h].sess = act[h].sess
    BY <1>a, <2>2, GotoFacts DEF Pcs
  <2> QED
    BY <1>c, <2>1, <2>3
<1>2. ASSUME NEW h \in Handlers, WriteSub(h) PROVE TokenInv'
  <2>1. act[h].pc \in Holding /\ UNCHANGED <<rec, minted, spent, born>>
    BY <1>2 DEF WriteSub, AddSub, At, Holding, host
  <2>2. CASE Answer(h)
    BY <1>a, <1>b, <2>1, <2>2, AnswerFacts
  <2>3. CASE Goto(h, "unlock")
    BY <1>a, <1>c, <2>1, <2>3, GotoFacts DEF Pcs
  <2>4. CASE GotoAs(h, "forward", "none")
    BY <1>a, <1>c, <2>1, <2>4, GotoAsFacts DEF Pcs, Phases
  <2> QED
    BY <1>2, <2>2, <2>3, <2>4 DEF WriteSub
<1>3. ASSUME NEW h \in Handlers, TakeLock(h) PROVE TokenInv'
  <2>1. act[h].pc \in Holding /\ UNCHANGED <<rec, minted, spent, born>>
    BY <1>3 DEF TakeLock, SetLock, store, At, Holding, host, history
  <2>2. PICK pc \in {"grant", "adopt"} : Goto(h, pc)
    BY <1>3 DEF TakeLock
  <2> QED
    BY <1>a, <1>c, <2>1, <2>2, GotoFacts DEF Pcs
<1>4. ASSUME NEW h \in Handlers, Refused(h) \/ Unanswered(h) \/ StoreFault(h) PROVE TokenInv'
  <2>1. act[h].pc \in Holding /\ UNCHANGED <<rec, born>>
    BY <1>4 DEF Refused, Unanswered, StoreFault, Locked, store, At, Holding, history
  <2>2. PICK phase \in {"refused", "unanswered", "fault"} : GotoAs(h, "unlock", phase)
    BY <1>4 DEF Refused, Unanswered, StoreFault
  <2>3. CASE UNCHANGED <<minted, spent>>
    BY <1>a, <1>c, <2>1, <2>2, <2>3, GotoAsFacts DEF Pcs, Phases
  <2>4. CASE Unanswered(h) /\ Redeem(act[h].id, act[h].sess.tok)
    BY <2>4, LostGrantStep DEF Unanswered, store
  <2> QED
    BY <1>4, <2>3, <2>4 DEF Refused, Unanswered, StoreFault, Refuse, host
<1>5. ASSUME NEW h \in Handlers, Unlock(h) PROVE TokenInv'
  <2>1. /\ act[h].pc = "unlock" /\ act[h].id \in Ids
        /\ UNCHANGED <<rec, minted, spent, born>>
    BY <1>a, <1>5 DEF Unlock, SetLock, At, ShapeOf, host, history
  <2>2. CASE act[h].phase = "proactive" /\ GotoAs(h, "set", "reseal")
    BY <1>a, <1>c, <2>1, <2>2, GotoAsFacts DEF Pcs, Phases
  <2>3. CASE GotoAs(h, "replay", "none")
    BY <1>a, <1>b, <2>1, <2>3, GotoAsFacts DEF Pcs, Phases
  <2>4. CASE Destroy(h, "proxy", act[h].id, {act[h].id})
    BY <1>a, <1>b, <2>1, <2>4, DestroyFacts DEF Tasks
  <2>5. CASE Answer(h)
    BY <1>a, <1>b, <2>1, <2>5, AnswerFacts
  <2> QED
    BY <1>5, <2>2, <2>3, <2>4, <2>5 DEF Unlock
<1>6. ASSUME NEW h \in Handlers, Adopt(h) PROVE TokenInv'
  <2>1. /\ act[h].pc \in Holding /\ act[h].id \in Ids
        /\ UNCHANGED <<rec, minted, spent, born>>
    BY <1>a, <1>6 DEF Adopt, At, ShapeOf, Holding, store, host, history
  <2>2. CASE Destroy(h, "proxy", act[h].id, {act[h].id})
    BY <1>a, <1>b, <2>1, <2>2, DestroyFacts DEF Tasks
  <2>3. CASE /\ rec[act[h].id] # None /\ NoJobChange
             /\ Begin(h, "set", "proxy", act[h].id, rec[act[h].id], "reseal")
    BY <1>a, <1>d, <2>1, <2>3, BeginRead DEF Pcs, Phases
  <2>4. CASE /\ rec[act[h].id] # None /\ NoJobChange
             /\ Begin(h, "replay", "proxy", act[h].id, rec[act[h].id], "none")
    BY <1>a, <1>d, <2>1, <2>4, BeginRead DEF Pcs, Phases
  <2>5. CASE GotoAs(h, "forward", "none")
    BY <1>a, <1>c, <2>1, <2>5, GotoAsFacts DEF Pcs, Phases
  <2> QED
    BY <1>6, <2>2, <2>3, <2>4, <2>5 DEF Adopt
<1>7. ASSUME NEW h \in Handlers, Forward(h) PROVE TokenInv'
  <2>1. act[h].pc \in Holding /\ UNCHANGED <<rec, minted, spent, born>>
    BY <1>7 DEF Forward, At, Holding, store, host, history
  <2>2. CASE GotoAs(h, "lock", "reactive")
    BY <1>a, <1>c, <2>1, <2>2, GotoAsFacts DEF Pcs, Phases
  <2>3. CASE Goto(h, "replay")
    BY <1>a, <1>c, <2>1, <2>3, GotoFacts DEF Pcs
  <2>4. CASE Answer(h)
    BY <1>a, <1>b, <2>1, <2>4, AnswerFacts
  <2> QED
    BY <1>7, <2>2, <2>3, <2>4 DEF Forward
<1>8. ASSUME NEW h \in Handlers, NEW i \in Ids, ProxyRead(h, i) PROVE TokenInv'
  <2>1. rec[i] # None /\ UNCHANGED <<rec, minted, spent, born>>
    BY <1>8 DEF ProxyRead, store, host, history
  <2>2. CASE Begin(h, "forward", "proxy", i, rec[i], "none") /\ NoJobChange
    BY <1>a, <1>d, <2>1, <2>2, BeginRead DEF Pcs, Phases
  <2>3. CASE Begin(h, "lock", "proxy", i, rec[i], "proactive") /\ NoJobChange
    BY <1>a, <1>d, <2>1, <2>3, BeginRead DEF Pcs, Phases
  <2>4. CASE Destroy(h, "proxy", i, {i})
    BY <1>a, <1>b, <2>1, <2>4, DestroyFacts DEF Tasks
  <2> QED
    BY <1>8, <2>2, <2>3, <2>4 DEF ProxyRead
\* The steps of a teardown or a logout, and the ends of requests.
<1>9. ASSUME NEW h \in Handlers,
             \/ Replay(h) \/ Crash(h) \/ RevokeUpstream(h)
             \/ Destroyed(h) \/ CleanSid(h)
      PROVE  TokenInv'
  <2>1. UNCHANGED <<rec, minted, spent, born>>
    BY <1>9 DEF Replay, Crash, RevokeUpstream, RevokeTokens, Destroyed, CleanSid, DelSid,
                store, host, history
  <2>2. CASE Answer(h)
    BY <1>a, <1>b, <2>1, <2>2, AnswerFacts
  <2>3. ASSUME NEW pc \in {"clean", "revoke"}, Goto(h, pc) PROVE TokenInv'
    BY <1>a, <1>b, <2>1, <2>3, GotoFacts DEF Pcs
  <2> QED
    BY <1>9, <2>2, <2>3 DEF Replay, Crash, RevokeUpstream, Destroyed, CleanSid
<1>10. ASSUME NEW h \in Handlers, NEW id \in Ids, LogoutRead(h, id) PROVE TokenInv'
  BY <1>a, <1>b, <1>10, DestroyFacts DEF LogoutRead, store, host, history, Tasks
<1>11. ASSUME NEW h \in Handlers, NEW s \in Sids, BackchannelSid(h, s) PROVE TokenInv'
  <2>1. sidIdx[s] \in Ids
    BY <1>11 DEF BackchannelSid, TypeInv, TypeOK, StoreTypeOK
  <2> QED
    BY <1>a, <1>b, <1>11, <2>1, DestroyFacts DEF BackchannelSid, store, host, history, Tasks
<1>12. ASSUME NEW h \in Handlers, NEW u \in Subs, BackchannelSub(h, u) PROVE TokenInv'
  BY <1>a, <1>b, <1>12, DestroyFacts DEF BackchannelSub, store, host, history, Tasks
\* No activation changes what it holds.
<1>13. ASSUME NEW h \in Handlers, NEW id \in Ids,
              JobGet(h, id) \/ JobDel(h, id) \/ JobSid(h, id) \/ JobSub(h, id)
       PROVE  TokenInv'
  <2>1. UNCHANGED <<act, minted, spent, born>>
    BY <1>13 DEF JobGet, JobDel, JobSid, JobSub, host, history
  <2>2. \A i \in Ids : rec'[i] = rec[i] \/ rec'[i] = None
    BY <1>a, <1>13 DEF JobGet, JobDel, JobSid, JobSub, DelSession, DelSid, RemSub, store
  <2> QED
    BY <2>1, <2>2, TokenStill
<1>14. ASSUME NEW id \in Ids, LockExpires(id) \/ RecordExpires(id) PROVE TokenInv'
  <2>1. UNCHANGED <<act, minted, spent, born>>
    BY <1>14 DEF LockExpires, RecordExpires, host, history
  <2>2. \A i \in Ids : rec'[i] = rec[i] \/ rec'[i] = None
    BY <1>a, <1>14 DEF LockExpires, RecordExpires, SetLock, DelSession
  <2> QED
    BY <2>1, <2>2, TokenStill
<1>15. ASSUME NEW s \in Sids, SidIndexExpires(s) PROVE TokenInv'
  BY <1>15, TokenStill DEF SidIndexExpires, ExpireSid, host, history
<1>16. ASSUME NEW u \in Subs, SubIndexExpires(u) PROVE TokenInv'
  BY <1>16, TokenStill DEF SubIndexExpires, ExpireSub, host, history
<1>17. CASE UNCHANGED vars
  BY <1>17, TokenStill DEF vars, store, host, history
<1> QED
  BY <1>1, <1>2, <1>3, <1>4, <1>5, <1>6, <1>7, <1>8, <1>9, <1>10, <1>11, <1>12, <1>13, <1>14,
     <1>15, <1>16, <1>17, GrantStep, CallbackStep DEF Next, Request, Step, Environment

LEMMA TokenInit == Init => TokenInv
  BY NoneAssumption
  DEF Init, StoreInit, HostInit, TokenInv, Minted, Own, Carries, Rotating, At, Idle, Holding

\* The token a refresh is about to store has been redeemed by nobody, even where
\* the lock has lapsed under the refresh and others have refreshed meanwhile
\* (refreshUnderLock): it was minted for this refresh, and nobody else can have it
\* before it is stored.
THEOREM StoredTokenUnspent == Spec => []RotatedTokenUnspent
<1>1. TypeInv /\ TokenInv => RotatedTokenUnspent
  BY CarryFacts DEF TokenInv, Own, OwnToken, Rotating, RotatedTokenUnspent
<1> QED
  BY <1>1, TypeInit, TypeStep, TokenInit, TokenStep, PTL DEF Spec

-----------------------------------------------------------------------------
(* What a refused refresh says of the grant.  A token is revoked alone only *)
(* by a back-channel logout, which has deleted the record first; the reuse  *)
(* of a redeemed token revokes all of them.                                 *)

Whole(id) == dead[id] = {} \/ dead[id] = 1 .. MaxTok \/ id \in ended
Gone(id) == dead[id] = 1 .. MaxTok \/ minted[id] >= MaxTok \/ id \in ended

LogoutOf(h) ==
    /\ \A id \in Ids : job[h][id] # "none" => act[h].pc = "destroy"
    /\ \A id \in Ids : seen[h][id] # None => job[h][id] = "del" \/ id \in ended
    /\ act[h].pc = "unlock" /\ act[h].phase = "refused" => act[h].id \in born /\ Gone(act[h].id)

GoneInv == (\A id \in Ids : Whole(id)) /\ \A h \in Handlers : LogoutOf(h)

\* A step of h: what it does to the auth host, and to its own jobs.
LEMMA GoneFrame ==
  ASSUME TypeInv, GoneInv, NEW h \in Handlers, Others(h), OtherJobs(h),
         \A g \in Handlers \ {h} : seen'[g] = seen[g],
         born \subseteq born', ended \subseteq ended', \A id \in Ids : Whole(id)',
         \A id \in born : Gone(id) => Gone(id)',
         LogoutOf(h)'
  PROVE  GoneInv'
<1>1. ASSUME NEW g \in Handlers \ {h} PROVE LogoutOf(g)'
  BY <1>1 DEF Others, OtherJobs, GoneInv, LogoutOf
<1> QED
  BY <1>1 DEF GoneInv

LEMMA GoneSame ==
  ASSUME GoneInv, UNCHANGED <<minted, dead>>, born \subseteq born', ended \subseteq ended'
  PROVE  /\ \A id \in Ids : Whole(id)'
         /\ \A id \in born : Gone(id) => Gone(id)'
  BY DEF GoneInv, Whole, Gone

LEMMA GoneStep ==
  ASSUME TypeInv, TokenInv, GoneInv, [Next]_vars
  PROVE  GoneInv'
<1>a. /\ TypeOK /\ HostTypeOK /\ act \in [Handlers -> Activation]
      /\ rec \in [Ids -> Session \cup {None}]
      /\ born \subseteq Ids /\ ended \subseteq Ids
      /\ \A h \in Handlers : ShapeOf(h) /\ LogoutOf(h)
  BY DEF TypeInv, TypeOK, StoreTypeOK, Shape, GoneInv
\* An activation that goes on.
<1>b. ASSUME NEW h \in Handlers, Others(h), NoJobChange, UNCHANGED <<minted, dead, born, ended>>,
             act[h].pc # "destroy" \/ job[h] = NoJobs,
             act'[h].pc # "unlock" \/ act'[h].phase # "refused"
      PROVE  GoneInv'
  <2>1. \A id \in Ids : job[h][id] = "none"
    BY <1>a, <1>b DEF LogoutOf, NoJobs
  <2>2. LogoutOf(h)'
    BY <1>a, <1>b, <2>1 DEF LogoutOf, NoJobChange
  <2> QED
    BY <1>b, <2>2, GoneSame, GoneFrame DEF NoJobChange, OtherJobs
<1>c. ASSUME NEW h \in Handlers, Answer(h), born \subseteq born', ended \subseteq ended',
             \A id \in Ids : Whole(id)', \A id \in born : Gone(id) => Gone(id)'
      PROVE  GoneInv'
  <2>1. /\ Others(h) /\ OtherJobs(h) /\ act'[h].pc = "idle"
        /\ \A id \in Ids : job'[h][id] = "none"
    BY <1>a, <1>c, AnswerFacts
  <2>2. (\A g \in Handlers \ {h} : seen'[g] = seen[g]) /\ \A id \in Ids : seen'[h][id] = None
    BY <1>c DEF Answer, NothingSeen, TypeInv, TypeOK
  <2>3. LogoutOf(h)'
    BY <2>1, <2>2 DEF LogoutOf
  <2> QED
    BY <1>c, <2>1, <2>2, <2>3, GoneFrame
<1>d. ASSUME NEW h \in Handlers, Answer(h), UNCHANGED <<minted, dead, born, ended>>
      PROVE  GoneInv'
  BY <1>c, <1>d, GoneSame
<1>e. ASSUME NEW h \in Handlers, NEW task \in Tasks, NEW id \in Ids \cup {None}, NEW S,
             Destroy(h, task, id, S), UNCHANGED <<minted, dead, born, ended>>,
             act[h].pc # "destroy"
      PROVE  GoneInv'
  <2>1. Others(h) /\ OtherJobs(h) /\ act'[h].pc = "destroy" /\ seen' = seen
    BY <1>a, <1>e, DestroyFacts
  <2>2. \A i \in Ids : job[h][i] = "none"
    BY <1>a, <1>e DEF LogoutOf
  <2>3. LogoutOf(h)'
    BY <1>a, <1>e, <2>1, <2>2 DEF LogoutOf
  <2> QED
    BY <1>e, <2>1, <2>3, GoneSame, GoneFrame
\* The token a refresh presents has been minted for a sign-in that has begun.
<1>f. ASSUME NEW h \in Handlers, At(h, "grant")
      PROVE  act[h].id \in born /\ act[h].sess.tok \in 1 .. MaxTok
  <2>1. PICK i \in Ids : i = act[h].id /\ Carries(h, i)
    BY <1>a, <1>f DEF At, ShapeOf, Holding, Carries
  <2>2. act[h].sess.tok \in 1 .. MaxTok
    BY <1>a, <1>f, DataAssumption DEF At, ShapeOf, Holding, Session
  <2>3. act[h].sess.tok <= minted[i]
    BY <2>1 DEF TokenInv, Minted
  <2> QED
    BY <2>1, <2>2, <2>3 DEF TokenInv, Minted
\* A token is redeemed: the family grows.
<1>g. ASSUME NEW i \in Ids, NEW t, Redeem(i, t), UNCHANGED <<born, ended>>
      PROVE  (\A id \in Ids : Whole(id)') /\ \A id \in born : Gone(id) => Gone(id)'
  <2>1. UNCHANGED dead /\ \A id \in Ids : minted[id] \in Nat /\ minted'[id] >= minted[id]
    BY <1>a, <1>g DEF Redeem, HostTypeOK
  <2>2. \A id \in Ids : Whole(id)'
    BY <1>g, <2>1 DEF GoneInv, Whole
  <2>3. ASSUME NEW id \in born, Gone(id) PROVE Gone(id)'
    <3>1. minted[id] >= MaxTok => minted'[id] >= MaxTok
      BY <1>a, <1>g, <2>1, DataAssumption DEF HostTypeOK, Redeem
    <3> QED
      BY <1>g, <2>1, <2>3, <3>1 DEF Gone
  <2> QED
    BY <2>2, <2>3
\* A grant is refused: a reused token takes the others with it.
<1>h. ASSUME NEW i \in Ids, NEW t, Refuse(i, t), UNCHANGED <<born, ended>>
      PROVE  /\ \A id \in Ids : Whole(id)'
             /\ \A id \in born : Gone(id) => Gone(id)'
             /\ Gone(i)'
  <2>1. CASE ~Accepts(i, t) /\ UNCHANGED host
    <3>1. Gone(i)
      <4>1. t \in dead[i] \/ ~(minted[i] < MaxTok)
        BY <2>1 DEF Accepts
      <4>2. minted[i] \in Nat /\ MaxTok \in Nat
        BY <1>a, DataAssumption DEF HostTypeOK
      <4>3. CASE t \in dead[i]
        BY <4>3 DEF GoneInv, Whole, Gone
      <4>4. CASE ~(minted[i] < MaxTok)
        BY <4>2, <4>4 DEF Gone
      <4> QED
        BY <4>1, <4>3, <4>4
    <3> QED
      BY <1>h, <2>1, <3>1 DEF host, GoneInv, Whole, Gone
  <2>2. CASE dead' = [dead EXCEPT ![i] = 1 .. MaxTok] /\ UNCHANGED <<minted, spent>>
    BY <1>a, <1>h, <2>2 DEF HostTypeOK, GoneInv, Whole, Gone
  <2> QED
    BY <1>h, <2>1, <2>2 DEF Refuse
<1>1. ASSUME NEW h \in Handlers, WriteRecord(h) \/ WriteSid(h) \/ TakeLock(h) PROVE GoneInv'
  <2>1. /\ NoJobChange /\ UNCHANGED <<minted, dead, born, ended>>
        /\ act[h].pc # "destroy"
    BY <1>1 DEF WriteRecord, WriteSid, TakeLock, At, host, history
  <2>2. PICK pc \in {"sid", "sub", "grant", "adopt"} : Goto(h, pc)
    BY <1>1 DEF WriteRecord, WriteSid, TakeLock
  <2> QED
    BY <1>a, <1>b, <2>1, <2>2, GotoFacts DEF Pcs
<1>2. ASSUME NEW h \in Handlers, WriteSub(h) PROVE GoneInv'
  <2>1. UNCHANGED <<minted, dead, born, ended>> /\ act[h].pc # "destroy"
    BY <1>2 DEF WriteSub, At, host
  <2>2. CASE Answer(h)
    BY <1>d, <2>1, <2>2
  <2>3. CASE Locked(act[h]) /\ Goto(h, "unlock") /\ NoJobChange
    BY <1>a, <1>b, <2>1, <2>3, GotoFacts DEF Locked, Pcs
  <2>4. CASE GotoAs(h, "forward", "none") /\ NoJobChange
    BY <1>a, <1>b, <2>1, <2>4, GotoAsFacts DEF Pcs, Phases
  <2> QED
    BY <1>2, <2>2, <2>3, <2>4 DEF WriteSub
<1>3. ASSUME NEW h \in Handlers, Granted(h) PROVE GoneInv'
  <2>1. Others(h) /\ act'[h].pc = "set"
    BY <1>a, <1>3 DEF Granted, Others, Activation
  <2>2. act[h].id \in Ids /\ NoJobChange /\ UNCHANGED <<born, ended>> /\ act[h].pc = "grant"
    BY <1>a, <1>3 DEF Granted, At, ShapeOf, Holding, history
  <2>3. (\A id \in Ids : Whole(id)') /\ \A id \in born : Gone(id) => Gone(id)'
    BY <1>3, <1>g, <2>2 DEF Granted
  <2>4. LogoutOf(h)'
    BY <1>a, <2>1, <2>2 DEF LogoutOf, NoJobChange
  <2> QED
    BY <2>1, <2>2, <2>3, <2>4, GoneFrame DEF NoJobChange, OtherJobs
<1>4. ASSUME NEW h \in Handlers, Refused(h) \/ Unanswered(h) PROVE GoneInv'
  <2>1. PICK i \in Ids : i = act[h].id /\ i \in born
    BY <1>a, <1>4, <1>f DEF Refused, Unanswered
  <2>a. NoJobChange /\ UNCHANGED <<born, ended>> /\ act[h].pc = "grant"
    BY <1>4 DEF Refused, Unanswered, At, history
  <2>2. PICK phase \in {"refused", "unanswered"} :
            GotoAs(h, "unlock", phase) /\ (phase = "refused" => Refused(h))
    BY <1>4 DEF Refused, Unanswered
  <2>3. Others(h) /\ act'[h].pc = "unlock" /\ act'[h].phase = phase /\ act'[h].id = i
    BY <1>a, <2>1, <2>2, GotoAsFacts DEF Pcs, Phases
  <2>4. (\A id \in Ids : Whole(id)') /\ \A id \in born : Gone(id) => Gone(id)'
    <3>1. CASE UNCHANGED host
      BY <2>a, <3>1, GoneSame DEF host
    <3> QED
      BY <1>4, <1>g, <1>h, <2>1, <2>a, <3>1 DEF Refused, Unanswered
  <2>5. phase = "refused" => Gone(i)'
    BY <1>h, <2>1, <2>a, <2>2 DEF Refused
  <2>6. LogoutOf(h)'
    BY <1>a, <2>1, <2>a, <2>3, <2>5 DEF LogoutOf, NoJobChange, Gone
  <2> QED
    BY <2>a, <2>3, <2>4, <2>6, GoneFrame DEF NoJobChange, OtherJobs
<1>5. ASSUME NEW h \in Handlers, Unlock(h) PROVE GoneInv'
  <2>1. UNCHANGED <<minted, dead, born, ended>> /\ act[h].pc = "unlock" /\ act[h].id \in Ids
    BY <1>a, <1>5 DEF Unlock, At, ShapeOf, host, history
  <2>2. CASE (GotoAs(h, "set", "reseal") \/ GotoAs(h, "replay", "none")) /\ NoJobChange
    BY <1>a, <1>b, <2>1, <2>2, GotoAsFacts DEF Pcs, Phases
  <2>3. CASE Destroy(h, "proxy", act[h].id, {act[h].id})
    BY <1>e, <2>1, <2>3 DEF Tasks
  <2>4. CASE Answer(h)
    BY <1>d, <2>1, <2>4
  <2> QED
    BY <1>5, <2>2, <2>3, <2>4 DEF Unlock
<1>6. ASSUME NEW h \in Handlers, Adopt(h) PROVE GoneInv'
  <2>1. UNCHANGED <<minted, dead, born, ended>> /\ act[h].pc = "adopt" /\ act[h].id \in Ids
    BY <1>a, <1>6 DEF Adopt, At, ShapeOf, Holding, host, history
  <2>2. CASE Destroy(h, "proxy", act[h].id, {act[h].id})
    BY <1>e, <2>1, <2>2 DEF Tasks
  <2>3. CASE \/ Begin(h, "set", "proxy", act[h].id, rec[act[h].id], "reseal") /\ NoJobChange
             \/ Begin(h, "replay", "proxy", act[h].id, rec[act[h].id], "none") /\ NoJobChange
    BY <1>a, <1>b, <2>1, <2>3, BeginRead DEF Pcs, Phases
  <2>4. CASE GotoAs(h, "forward", "none") /\ NoJobChange
    BY <1>a, <1>b, <2>1, <2>4, GotoAsFacts DEF Pcs, Phases
  <2> QED
    BY <1>6, <2>2, <2>3, <2>4 DEF Adopt
<1>7. ASSUME NEW h \in Handlers, Forward(h) PROVE GoneInv'
  <2>1. UNCHANGED <<minted, dead, born, ended>> /\ act[h].pc = "forward"
    BY <1>7 DEF Forward, At, host, history
  <2>2. CASE GotoAs(h, "lock", "reactive") /\ NoJobChange
    BY <1>a, <1>b, <2>1, <2>2, GotoAsFacts DEF Pcs, Phases
  <2>3. CASE Goto(h, "replay") /\ NoJobChange
    BY <1>a, <1>b, <2>1, <2>3, GotoFacts DEF Pcs
  <2>4. CASE Answer(h)
    BY <1>d, <2>1, <2>4
  <2> QED
    BY <1>7, <2>2, <2>3, <2>4 DEF Forward
<1>8. ASSUME NEW h \in Handlers, NEW i \in Ids, ProxyRead(h, i) PROVE GoneInv'
  <2>1. UNCHANGED <<minted, dead, born, ended>> /\ act[h].pc = "idle"
    BY <1>8 DEF ProxyRead, At, host, history
  <2>2. CASE \/ Begin(h, "forward", "proxy", i, rec[i], "none") /\ NoJobChange
             \/ Begin(h, "lock", "proxy", i, rec[i], "proactive") /\ NoJobChange
    BY <1>a, <1>b, <2>1, <2>2, BeginRead DEF Pcs, Phases
  <2>3. CASE Destroy(h, "proxy", i, {i})
    BY <1>e, <2>1, <2>3 DEF Tasks
  <2> QED
    BY <1>8, <2>2, <2>3 DEF ProxyRead
<1>9. ASSUME NEW h \in Handlers, Replay(h) \/ Crash(h) PROVE GoneInv'
  BY <1>9, <1>d DEF Replay, Crash, host, history
<1>10. ASSUME NEW h \in Handlers, StoreFault(h) PROVE GoneInv'
  <2>1. /\ NoJobChange /\ UNCHANGED <<minted, dead, born, ended>> /\ act[h].pc # "destroy"
        /\ GotoAs(h, "unlock", "fault")
    BY <1>10 DEF StoreFault, Locked, host, history
  <2> QED
    BY <1>a, <1>b, <2>1, GotoAsFacts DEF Pcs, Phases
\* The code exchange: nobody refreshes a session that has only just begun.
<1>11. ASSUME NEW h \in Handlers, NEW i \in Ids, Callback(h, i) PROVE GoneInv'
  <2> DEFINE first == [tok |-> minted'[i], ver |-> 1]
  <2>1. /\ i \notin born /\ UNCHANGED <<dead, ended>> /\ born' = born \cup {i} /\ NoJobChange
        /\ act[h].pc = "idle" /\ \A id \in Ids \ {i} : minted'[id] = minted[id]
        /\ minted'[i] \in 0 .. MaxTok
    BY <1>a, <1>11, DataAssumption DEF Callback, At, SignIn, HostTypeOK
  <2>2. first \in Session
    BY <2>1 DEF Session
  <2>3. Begin(h, "set", "login", i, first, "none")
    BY <1>11 DEF Callback
  <2> HIDE DEF first
  <2>4. Others(h) /\ act'[h].pc = "set"
    BY <1>a, <2>2, <2>3, BeginFacts DEF Pcs, Tasks, Phases
  <2>5. (\A id \in Ids : Whole(id)') /\ \A id \in born : Gone(id) => Gone(id)'
    BY <1>a, <2>1 DEF GoneInv, Whole, Gone
  <2>6. LogoutOf(h)'
    BY <1>a, <2>1, <2>4 DEF LogoutOf, NoJobChange
  <2> QED
    BY <2>1, <2>4, <2>5, <2>6, GoneFrame DEF NoJobChange, OtherJobs
<1>12. ASSUME NEW h \in Handlers, NEW id \in Ids, LogoutRead(h, id) PROVE GoneInv'
  BY <1>12, <1>e DEF LogoutRead, At, host, history, Tasks
<1>13. ASSUME NEW h \in Handlers, NEW s \in Sids, BackchannelSid(h, s) PROVE GoneInv'
  <2>1. sidIdx[s] \in Ids
    BY <1>13 DEF BackchannelSid, TypeInv, TypeOK, StoreTypeOK
  <2> QED
    BY <1>13, <1>e, <2>1 DEF BackchannelSid, At, host, history, Tasks
<1>14. ASSUME NEW h \in Handlers, NEW u \in Subs, BackchannelSub(h, u) PROVE GoneInv'
  BY <1>14, <1>e DEF BackchannelSub, At, host, history, Tasks
<1>15. ASSUME NEW h \in Handlers, NEW id \in Ids,
              JobGet(h, id) \/ JobDel(h, id) \/ JobSid(h, id) \/ JobSub(h, id)
       PROVE  GoneInv'
  <2>1. /\ UNCHANGED <<act, minted, dead, born>> /\ ended \subseteq ended'
        /\ job[h][id] # "none" /\ \E step : NextJob(h, id, step)
    BY <1>15 DEF JobGet, JobDel, JobSid, JobSub, host, history
  <2>2. /\ \A g \in Handlers \ {h} : job'[g] = job[g] /\ seen'[g] = seen[g] /\ act'[g] = act[g]
        /\ \A i \in Ids \ {id} : job'[h][i] = job[h][i] /\ seen'[h][i] = seen[h][i]
    BY <1>a, <1>15, <2>1 DEF JobGet, JobDel, JobSid, JobSub, NextJob, TypeOK
  <2>3. act[h].pc = "destroy"
    BY <1>a, <2>1 DEF LogoutOf
  <2>4. seen'[h][id] # None => job'[h][id] = "del" \/ id \in ended'
    <3>1. CASE JobGet(h, id)
      BY <1>a, <3>1 DEF JobGet, NextJob, TypeOK
    <3>2. CASE JobDel(h, id)
      BY <3>2 DEF JobDel
    <3>3. CASE JobSid(h, id) \/ JobSub(h, id)
      <4>1. seen' = seen /\ ended' = ended /\ job[h][id] # "del"
        BY <3>3 DEF JobSid, JobSub, history
      <4> QED
        BY <1>a, <4>1 DEF LogoutOf
    <3> QED
      BY <1>15, <3>1, <3>2, <3>3
  <2>5. LogoutOf(h)'
    BY <1>a, <2>1, <2>2, <2>3, <2>4 DEF LogoutOf
  <2> QED
    BY <2>1, <2>2, <2>5, GoneSame, GoneFrame DEF Others, OtherJobs
<1>16. ASSUME NEW h \in Handlers, Destroyed(h) PROVE GoneInv'
  <2>1. UNCHANGED <<minted, dead, born, ended>> /\ job[h] = NoJobs
    BY <1>16 DEF Destroyed, host, history
  <2>2. CASE Answer(h)
    BY <1>d, <2>1, <2>2
  <2>3. ASSUME NEW pc \in {"clean", "revoke"}, Goto(h, pc), NoJobChange PROVE GoneInv'
    BY <1>a, <1>b, <2>1, <2>3, GotoFacts DEF Pcs
  <2> QED
    BY <1>16, <2>2, <2>3 DEF Destroyed
<1>17. ASSUME NEW h \in Handlers, CleanSid(h) PROVE GoneInv'
  <2>1. /\ NoJobChange /\ UNCHANGED <<minted, dead, born, ended>> /\ act[h].pc # "destroy"
        /\ Goto(h, "revoke")
    BY <1>17 DEF CleanSid, At, host, history
  <2> QED
    BY <1>a, <1>b, <2>1, GotoFacts DEF Pcs
\* Only tokens of sessions that have been ended are revoked one by one.
<1>18. ASSUME NEW h \in Handlers, RevokeUpstream(h) PROVE GoneInv'
  <2>1. PICK S \in SUBSET {id \in Ids : seen[h][id] \notin {None, 0}} : RevokeTokens(S, seen[h])
    BY <1>18 DEF RevokeUpstream
  <2>2. UNCHANGED <<minted, born, ended>> /\ act[h].pc = "revoke" /\ Answer(h)
    BY <1>18, <2>1 DEF RevokeUpstream, RevokeTokens, At, history
  <2>3. ASSUME NEW id \in S PROVE id \in ended
    BY <1>a, <2>2 DEF LogoutOf
  <2>4. \A id \in Ids : id \notin ended => dead'[id] = dead[id]
    BY <1>a, <2>1, <2>3 DEF RevokeTokens
  <2>5. (\A id \in Ids : Whole(id)') /\ \A id \in born : Gone(id) => Gone(id)'
    BY <1>a, <2>2, <2>4 DEF GoneInv, Whole, Gone
  <2> QED
    BY <1>c, <2>2, <2>5
<1>19. ASSUME UNCHANGED <<act, job, seen, minted, dead, born, ended>> PROVE GoneInv'
  BY <1>19 DEF GoneInv, LogoutOf, Whole, Gone
<1>20. ASSUME NEW id \in Ids, LockExpires(id) \/ RecordExpires(id) PROVE GoneInv'
  BY <1>19, <1>20 DEF LockExpires, RecordExpires, host, history
<1>21. ASSUME NEW s \in Sids, SidIndexExpires(s) PROVE GoneInv'
  BY <1>19, <1>21 DEF SidIndexExpires, host, history
<1>22. ASSUME NEW u \in Subs, SubIndexExpires(u) PROVE GoneInv'
  BY <1>19, <1>22 DEF SubIndexExpires, host, history
<1>23. CASE UNCHANGED vars
  BY <1>19, <1>23 DEF vars, host, history
<1> QED
  BY <1>1, <1>2, <1>3, <1>4, <1>5, <1>6, <1>7, <1>8, <1>9, <1>10, <1>11, <1>12, <1>13, <1>14,
     <1>15, <1>16, <1>17, <1>18, <1>20, <1>21, <1>22, <1>23 DEF Next, Request, Step, Environment

LEMMA GoneInit == Init => GoneInv
  BY NoneAssumption
  DEF Init, HostInit, GoneInv, Whole, LogoutOf, Idle, NoJobs, NothingSeen

\* When the auth host has refused a refresh, the session is torn down rightly
\* (tearDownDeadSession): whatever token the store holds by then, a peer's newer
\* one included, the auth host refuses too, or the session had been ended before.
THEOREM RefusalEndsTheGrant == Spec => []RefusedGrantIsGone
<1>1. TypeInv /\ GoneInv => RefusedGrantIsGone
  <2> SUFFICES ASSUME TypeInv, GoneInv, NEW h \in Handlers, NEW id, id = act[h].id,
                      act[h].pc = "unlock", act[h].phase = "refused", id \notin ended,
                      rec[id] # None, HasRefresh(rec[id]), Accepts(id, rec[id].tok)
               PROVE  FALSE
    BY DEF RefusedGrantIsGone, At
  <2>1. id \in Ids /\ Gone(id)
    BY DEF GoneInv, LogoutOf, TypeInv, TypeOK
  <2>2. rec[id].tok \in 1 .. MaxTok
    BY <2>1, DataAssumption DEF TypeInv, TypeOK, StoreTypeOK, Session, HasRefresh
  <2>3. minted[id] \in Nat /\ MaxTok \in Nat
    BY <2>1, DataAssumption DEF TypeInv, TypeOK, HostTypeOK
  <2> QED
    BY <2>1, <2>2, <2>3 DEF Gone, Accepts
<1> QED
  BY <1>1, TypeInit, TypeStep, TokenInit, TokenStep, GoneInit, GoneStep, PTL DEF Spec

-----------------------------------------------------------------------------
(* BffSession implements SessionLife.                                      *)

\* The abstract step.
Abs == [Life!LifeNext]_(Life!lifeVars)

-----------------------------------------------------------------------------
(* What a step of h does to the copies held.                               *)

LEMMA HoldersKept ==
  ASSUME NEW h \in Handlers, Others(h),
         \/ act'[h].id = act[h].id /\ (HoldsCopy(act[h]) <=> HoldsCopy(act'[h]))
         \/ ~HoldsCopy(act[h]) /\ ~HoldsCopy(act'[h])
  PROVE  Holders' = Holders
<1>1. ASSUME NEW g \in Handlers, NEW id \in Ids
      PROVE  (act'[g].id = id /\ HoldsCopy(act'[g])) <=> (act[g].id = id /\ HoldsCopy(act[g]))
  BY DEF Others
<1> QED
  BY <1>1 DEF Holders, HoldsCopy

LEMMA HoldersDropped ==
  ASSUME NEW h \in Handlers, Others(h), NEW id \in Ids,
         act[h].id = id, ~HoldsCopy(act'[h])
  PROVE  Holders' = [Holders EXCEPT ![id] = @ \ {h}]
<1>1. ASSUME NEW g \in Handlers, NEW i \in Ids
      PROVE  (act'[g].id = i /\ HoldsCopy(act'[g]))
             <=> (act[g].id = i /\ HoldsCopy(act[g]) /\ ~(i = id /\ g = h))
  BY DEF Others
<1>2. ASSUME NEW i \in Ids
      PROVE  {g \in Handlers : act'[g].id = i /\ HoldsCopy(act'[g])}
             = IF i = id THEN Holders[i] \ {h} ELSE Holders[i]
  BY <1>1 DEF Holders
<1>3. Holders' = [i \in Ids |-> {g \in Handlers : act'[g].id = i /\ HoldsCopy(act'[g])}]
  BY DEF Holders, HoldsCopy
<1>4. [Holders EXCEPT ![id] = @ \ {h}]
      = [i \in Ids |-> IF i = id THEN Holders[i] \ {h} ELSE Holders[i]]
  BY DEF Holders
<1> QED
  BY <1>2, <1>3, <1>4

LEMMA HoldersTaken ==
  ASSUME NEW h \in Handlers, Others(h), NEW id \in Ids,
         ~HoldsCopy(act[h]), act'[h].id = id, HoldsCopy(act'[h])
  PROVE  Holders' = [Holders EXCEPT ![id] = @ \cup {h}]
<1>1. ASSUME NEW g \in Handlers, NEW i \in Ids
      PROVE  (act'[g].id = i /\ HoldsCopy(act'[g]))
             <=> ((act[g].id = i /\ HoldsCopy(act[g])) \/ (i = id /\ g = h))
  BY DEF Others
<1>2. ASSUME NEW i \in Ids
      PROVE  {g \in Handlers : act'[g].id = i /\ HoldsCopy(act'[g])}
             = IF i = id THEN Holders[i] \cup {h} ELSE Holders[i]
  BY <1>1 DEF Holders
<1> QED
  BY <1>2 DEF Holders, HoldsCopy

\* The abstract steps these make.
LEMMA AbsKept ==
  ASSUME NEW h \in Handlers, Others(h), UNCHANGED <<born, rec>>,
         \/ act'[h].id = act[h].id /\ (HoldsCopy(act[h]) <=> HoldsCopy(act'[h]))
         \/ ~HoldsCopy(act[h]) /\ ~HoldsCopy(act'[h])
  PROVE  Abs
<1>1. Holders' = Holders
  BY HoldersKept
<1>2. Live' = Live
  BY DEF Live
<1> QED
  BY <1>1, <1>2 DEF Abs, Life!lifeVars

LEMMA AbsDropped ==
  ASSUME NEW h \in Handlers, Others(h), UNCHANGED <<born, rec>>,
         act[h].id \in Ids, ~HoldsCopy(act'[h])
  PROVE  Abs
<1>1. Holders' = [Holders EXCEPT ![act[h].id] = @ \ {h}]
  BY HoldersDropped
<1>2. Live' = Live
  BY DEF Live
<1> QED
  BY <1>1, <1>2 DEF Abs, Life!LifeNext, Life!Drop

LEMMA AbsCopied ==
  ASSUME NEW h \in Handlers, Others(h), UNCHANGED <<born, rec>>, NEW id \in Ids,
         rec[id] # None, ~HoldsCopy(act[h]), act'[h].id = id, HoldsCopy(act'[h])
  PROVE  Abs
<1>1. Holders' = [Holders EXCEPT ![id] = @ \cup {h}]
  BY HoldersTaken
<1>2. Live' = Live /\ id \in Live
  BY DEF Live
<1> QED
  BY <1>1, <1>2 DEF Abs, Life!LifeNext, Life!Copy

LEMMA AbsSame == ASSUME UNCHANGED <<born, rec, act>> PROVE Abs
  BY DEF Abs, Life!lifeVars, Live, Holders

LEMMA AbsEnded ==
  ASSUME NEW id \in Ids, TypeOK, DelSession(id), UNCHANGED <<born, act>> PROVE Abs
<1>1. Live' = Live \ {id}
  BY DEF Live, DelSession, TypeOK, StoreTypeOK
<1>2. Holders' = Holders
  BY DEF Holders
<1> QED
  BY <1>1, <1>2 DEF Abs, Life!LifeNext, Life!End

\* An activation that drops whatever it holds, or held nothing.
LEMMA AbsLeaves ==
  ASSUME TypeInv, NEW h \in Handlers, Others(h), UNCHANGED <<born, rec>>, ~HoldsCopy(act'[h])
  PROVE  Abs
<1>1. CASE HoldsCopy(act[h])
  <2>1. act[h].id \in Ids
    BY <1>1 DEF HoldsCopy, TypeInv, Shape, ShapeOf, Holding
  <2> QED
    BY <2>1, AbsDropped
<1>2. CASE ~HoldsCopy(act[h])
  BY <1>2, AbsKept
<1> QED
  BY <1>1, <1>2

-----------------------------------------------------------------------------

LEMMA AbsInit == Init => Life!LifeInit
  BY DEF Init, StoreInit, Life!LifeInit, Live, Holders, HoldsCopy, Idle

LEMMA AbsStep == TypeInv /\ [Next]_vars => Abs
<1> SUFFICES ASSUME TypeInv, [Next]_vars PROVE Abs
  OBVIOUS
<1>a. /\ TypeOK /\ act \in [Handlers -> Activation] /\ rec \in [Ids -> Session \cup {None}]
      /\ \A h \in Handlers : ShapeOf(h)
  BY DEF TypeInv, TypeOK, StoreTypeOK, Shape
<1>1. ASSUME NEW h \in Handlers, NEW id \in Ids, Callback(h, id) PROVE Abs
  <2>1. Others(h) /\ act'[h].id = id /\ HoldsCopy(act'[h]) /\ ~HoldsCopy(act[h])
    BY <1>a, <1>1 DEF Callback, Begin, At, Others, HoldsCopy
  <2>2. Holders' = [Holders EXCEPT ![id] = @ \cup {h}]
    BY <2>1, HoldersTaken
  <2>3. Live' = Live
    BY <1>1 DEF Callback, store, Live
  <2> QED
    BY <1>1, <2>2, <2>3 DEF Callback, Abs, Life!LifeNext, Life!Draw
<1>2. ASSUME NEW h \in Handlers, WriteRecord(h) PROVE Abs
  <2>1. act[h].id \in Ids /\ act[h].sess \in Session /\ HoldsCopy(act[h])
    BY <1>a, <1>2 DEF WriteRecord, At, ShapeOf, Holding, HoldsCopy
  <2>2. Others(h) /\ act'[h].id = act[h].id /\ HoldsCopy(act'[h])
    BY <1>a, <1>2, GotoFacts DEF WriteRecord, HoldsCopy, Pcs
  <2>3. Holders' = Holders
    BY <2>1, <2>2, HoldersKept
  <2>4. Live' = Live \cup {act[h].id}
    BY <1>a, <1>2, <2>1, NoneAssumption DEF WriteRecord, SetSession, Live
  <2>5. h \in Holders[act[h].id]
    BY <2>1 DEF Holders
  <2> QED
    BY <1>2, <2>1, <2>3, <2>4, <2>5 DEF WriteRecord, history, Abs, Life!LifeNext, Life!Put
<1>3. ASSUME NEW h \in Handlers, WriteSid(h) PROVE Abs
  <2>1. Others(h) /\ act'[h].id = act[h].id /\ HoldsCopy(act[h]) /\ HoldsCopy(act'[h])
    BY <1>a, <1>3, GotoFacts DEF WriteSid, At, HoldsCopy, Pcs
  <2> QED
    BY <1>3, <2>1, AbsKept DEF WriteSid, SetSid, history
<1>4. ASSUME NEW h \in Handlers, WriteSub(h) PROVE Abs
  <2>1. UNCHANGED <<born, rec>> /\ HoldsCopy(act[h])
    BY <1>4 DEF WriteSub, AddSub, At, HoldsCopy
  <2>2. CASE Answer(h)
    <3>1. Others(h) /\ ~HoldsCopy(act'[h])
      BY <1>a, <2>2, AnswerFacts DEF HoldsCopy
    <3> QED
      BY <2>1, <3>1, AbsLeaves
  <2>3. CASE Locked(act[h]) /\ Goto(h, "unlock")
    <3>1. Others(h) /\ act'[h].pc = "unlock" /\ act'[h].phase = act[h].phase
          /\ act'[h].id = act[h].id
      BY <1>a, <2>3, GotoFacts DEF Pcs
    <3>2. CASE act[h].phase = "proactive"
      BY <2>1, <3>1, <3>2, AbsKept DEF HoldsCopy
    <3>3. CASE act[h].phase # "proactive"
      BY <2>1, <3>1, <3>3, AbsLeaves DEF HoldsCopy
    <3> QED
      BY <3>2, <3>3
  <2>4. CASE GotoAs(h, "forward", "none")
    <3>1. Others(h) /\ act'[h].id = act[h].id /\ HoldsCopy(act'[h])
      BY <1>a, <2>4, GotoAsFacts DEF HoldsCopy, Pcs, Phases
    <3> QED
      BY <2>1, <3>1, AbsKept
  <2> QED
    BY <1>4, <2>2, <2>3, <2>4 DEF WriteSub
<1>5. ASSUME NEW h \in Handlers, NEW id \in Ids, ProxyRead(h, id) PROVE Abs
  <2>1. UNCHANGED <<born, rec>> /\ rec[id] # None /\ ~HoldsCopy(act[h])
    BY <1>5 DEF ProxyRead, store, history, At, HoldsCopy
  <2>2. CASE \/ Begin(h, "forward", "proxy", id, rec[id], "none") /\ NoJobChange
             \/ Begin(h, "lock", "proxy", id, rec[id], "proactive") /\ NoJobChange
    <3>1. Others(h) /\ act'[h].id = id /\ HoldsCopy(act'[h])
      BY <1>a, <2>2, BeginRead DEF HoldsCopy, Pcs, Phases
    <3> QED
      BY <2>1, <3>1, AbsCopied
  <2>3. CASE Destroy(h, "proxy", id, {id})
    <3>1. Others(h) /\ ~HoldsCopy(act'[h])
      BY <1>a, <2>3, DestroyFacts DEF HoldsCopy, Tasks
    <3> QED
      BY <2>1, <3>1, AbsLeaves
  <2> QED
    BY <1>5, <2>2, <2>3 DEF ProxyRead
<1>6. ASSUME NEW h \in Handlers, TakeLock(h) PROVE Abs
  <2>1. UNCHANGED <<born, rec>> /\ HoldsCopy(act[h])
    BY <1>6 DEF TakeLock, SetLock, store, history, At, HoldsCopy
  <2>2. CASE Goto(h, "grant")
    <3>1. Others(h) /\ act'[h].id = act[h].id /\ HoldsCopy(act'[h])
      BY <1>a, <2>2, GotoFacts DEF HoldsCopy, Pcs
    <3> QED
      BY <2>1, <3>1, AbsKept
  <2>3. CASE Goto(h, "adopt")
    <3>1. Others(h) /\ ~HoldsCopy(act'[h])
      BY <1>a, <2>3, GotoFacts DEF HoldsCopy, Pcs
    <3> QED
      BY <2>1, <3>1, AbsLeaves
  <2> QED
    BY <1>6, <2>2, <2>3 DEF TakeLock
<1>7. ASSUME NEW h \in Handlers, Granted(h) PROVE Abs
  <2>1. Others(h) /\ act'[h].id = act[h].id /\ act'[h].pc = "set"
    BY <1>a, <1>7 DEF Granted, Others, Activation
  <2>2. HoldsCopy(act[h]) /\ HoldsCopy(act'[h])
    BY <1>7, <2>1 DEF Granted, At, HoldsCopy
  <2> QED
    BY <1>7, <2>1, <2>2, AbsKept DEF Granted, store, history
<1>8. ASSUME NEW h \in Handlers, Refused(h) \/ Unanswered(h) \/ StoreFault(h) PROVE Abs
  <2>1. Others(h) /\ ~HoldsCopy(act'[h])
    BY <1>a, <1>8, GotoAsFacts DEF Refused, Unanswered, StoreFault, HoldsCopy, Pcs, Phases
  <2> QED
    BY <1>8, <2>1, AbsLeaves DEF Refused, Unanswered, StoreFault, store, history
<1>9. ASSUME NEW h \in Handlers, Unlock(h) PROVE Abs
  <2>1. UNCHANGED <<born, rec>> /\ act[h].id \in Ids /\ act[h].pc = "unlock"
    BY <1>a, <1>9 DEF Unlock, SetLock, history, At, ShapeOf
  <2>2. CASE act[h].phase = "proactive" /\ GotoAs(h, "set", "reseal")
    <3>1. Others(h) /\ act'[h].id = act[h].id /\ act'[h].pc = "set"
      BY <1>a, <2>2, GotoAsFacts DEF Pcs, Phases
    <3> QED
      BY <2>1, <2>2, <3>1, AbsKept DEF HoldsCopy
  <2>3. CASE GotoAs(h, "replay", "none")
    <3>1. Others(h) /\ ~HoldsCopy(act'[h])
      BY <1>a, <2>3, GotoAsFacts DEF HoldsCopy, Pcs, Phases
    <3> QED
      BY <2>1, <3>1, AbsLeaves
  <2>4. CASE Destroy(h, "proxy", act[h].id, {act[h].id})
    <3>1. Others(h) /\ ~HoldsCopy(act'[h])
      BY <1>a, <2>1, <2>4, DestroyFacts DEF HoldsCopy, Tasks
    <3> QED
      BY <2>1, <3>1, AbsLeaves
  <2>5. CASE Answer(h)
    <3>1. Others(h) /\ ~HoldsCopy(act'[h])
      BY <1>a, <2>5, AnswerFacts DEF HoldsCopy
    <3> QED
      BY <2>1, <3>1, AbsLeaves
  <2> QED
    BY <1>9, <2>2, <2>3, <2>4, <2>5 DEF Unlock
<1>10. ASSUME NEW h \in Handlers, Adopt(h) PROVE Abs
  <2>1. UNCHANGED <<born, rec>> /\ act[h].id \in Ids /\ ~HoldsCopy(act[h])
    BY <1>a, <1>10 DEF Adopt, store, history, At, ShapeOf, Holding, HoldsCopy
  <2>2. CASE Destroy(h, "proxy", act[h].id, {act[h].id})
    <3>1. Others(h) /\ ~HoldsCopy(act'[h])
      BY <1>a, <2>1, <2>2, DestroyFacts DEF HoldsCopy, Tasks
    <3> QED
      BY <2>1, <3>1, AbsLeaves
  <2>3. CASE rec[act[h].id] # None /\ NoJobChange
             /\ Begin(h, "set", "proxy", act[h].id, rec[act[h].id], "reseal")
    <3>1. Others(h) /\ act'[h].id = act[h].id /\ HoldsCopy(act'[h])
      BY <1>a, <2>1, <2>3, BeginRead DEF HoldsCopy, Pcs, Phases
    <3> QED
      BY <2>1, <2>3, <3>1, AbsCopied
  <2>4. CASE rec[act[h].id] # None /\ GotoAs(h, "forward", "none")
    <3>1. Others(h) /\ act'[h].id = act[h].id /\ HoldsCopy(act'[h])
      BY <1>a, <2>4, GotoAsFacts DEF HoldsCopy, Pcs, Phases
    <3> QED
      BY <2>1, <2>4, <3>1, AbsCopied
  <2>5. CASE NoJobChange /\ Begin(h, "replay", "proxy", act[h].id, rec[act[h].id], "none")
    <3>1. Others(h) /\ ~HoldsCopy(act'[h])
      BY <1>a, <2>1, <2>5, BeginRead DEF HoldsCopy, Pcs, Phases
    <3> QED
      BY <2>1, <3>1, AbsLeaves
  <2> QED
    BY <1>10, <2>2, <2>3, <2>4, <2>5 DEF Adopt
<1>11. ASSUME NEW h \in Handlers, Forward(h) PROVE Abs
  <2>1. UNCHANGED <<born, rec>> /\ HoldsCopy(act[h])
    BY <1>11 DEF Forward, store, history, At, HoldsCopy
  <2>2. CASE GotoAs(h, "lock", "reactive")
    <3>1. Others(h) /\ act'[h].id = act[h].id /\ HoldsCopy(act'[h])
      BY <1>a, <2>2, GotoAsFacts DEF HoldsCopy, Pcs, Phases
    <3> QED
      BY <2>1, <3>1, AbsKept
  <2>3. CASE Goto(h, "replay") \/ Answer(h)
    <3>1. Others(h) /\ ~HoldsCopy(act'[h])
      BY <1>a, <2>3, GotoFacts, AnswerFacts DEF HoldsCopy, Pcs
    <3> QED
      BY <2>1, <3>1, AbsLeaves
  <2> QED
    BY <1>11, <2>2, <2>3 DEF Forward
<1>12. ASSUME NEW h \in Handlers, Replay(h) \/ RevokeUpstream(h) \/ Crash(h) PROVE Abs
  <2>1. Others(h) /\ ~HoldsCopy(act'[h])
    BY <1>a, <1>12, AnswerFacts DEF Replay, RevokeUpstream, Crash, HoldsCopy
  <2> QED
    BY <1>12, <2>1, AbsLeaves DEF Replay, RevokeUpstream, Crash, store, history
<1>13. ASSUME NEW h \in Handlers, NEW task \in Tasks, NEW id \in Ids \cup {None}, NEW S,
              Destroy(h, task, id, S), UNCHANGED <<born, rec>>
       PROVE  Abs
  <2>1. Others(h) /\ ~HoldsCopy(act'[h])
    BY <1>a, <1>13, DestroyFacts DEF HoldsCopy
  <2> QED
    BY <1>13, <2>1, AbsLeaves
<1>14. ASSUME NEW h \in Handlers, NEW id \in Ids, LogoutRead(h, id) PROVE Abs
  BY <1>13, <1>14 DEF LogoutRead, store, history, Tasks
<1>15. ASSUME NEW h \in Handlers, NEW s \in Sids, BackchannelSid(h, s) PROVE Abs
  BY <1>a, <1>13, <1>15 DEF BackchannelSid, store, history, Tasks, TypeOK, StoreTypeOK
<1>16. ASSUME NEW h \in Handlers, NEW u \in Subs, BackchannelSub(h, u) PROVE Abs
  BY <1>13, <1>16 DEF BackchannelSub, store, history, Tasks
<1>17. ASSUME NEW h \in Handlers, Destroyed(h) PROVE Abs
  <2>1. Others(h) /\ ~HoldsCopy(act'[h])
    BY <1>a, <1>17, GotoFacts, AnswerFacts DEF Destroyed, HoldsCopy, Pcs
  <2> QED
    BY <1>17, <2>1, AbsLeaves DEF Destroyed, store, history
<1>18. ASSUME NEW h \in Handlers, CleanSid(h) PROVE Abs
  <2>1. Others(h) /\ ~HoldsCopy(act'[h])
    BY <1>a, <1>18, GotoFacts DEF CleanSid, HoldsCopy, Pcs
  <2> QED
    BY <1>18, <2>1, AbsLeaves DEF CleanSid, DelSid, history
<1>19. ASSUME NEW h \in Handlers, NEW id \in Ids, JobDel(h, id) PROVE Abs
  BY <1>a, <1>19, AbsEnded DEF JobDel
<1>20. ASSUME NEW h \in Handlers, NEW id \in Ids, JobGet(h, id) \/ JobSid(h, id) \/ JobSub(h, id)
       PROVE  Abs
  BY <1>20, AbsSame DEF JobGet, JobSid, JobSub, DelSid, RemSub, store, history
<1>21. ASSUME NEW id \in Ids, RecordExpires(id) PROVE Abs
  BY <1>a, <1>21, AbsEnded DEF RecordExpires, history
<1>22. ASSUME NEW id \in Ids, LockExpires(id) PROVE Abs
  BY <1>22, AbsSame DEF LockExpires, SetLock, history
<1>23. ASSUME NEW s \in Sids, SidIndexExpires(s) PROVE Abs
  BY <1>23, AbsSame DEF SidIndexExpires, ExpireSid, history
<1>24. ASSUME NEW u \in Subs, SubIndexExpires(u) PROVE Abs
  BY <1>24, AbsSame DEF SubIndexExpires, ExpireSub, history
<1>25. CASE UNCHANGED vars
  BY <1>25, AbsSame DEF vars, store, history
<1> QED
  BY <1>1, <1>2, <1>3, <1>4, <1>5, <1>6, <1>7, <1>8, <1>9, <1>10, <1>11, <1>12, <1>14, <1>15,
     <1>16, <1>17, <1>18, <1>19, <1>20, <1>21, <1>22, <1>23, <1>24, <1>25 DEF Next, Request, Step, Environment

\* The store, the lock and the handlers together keep the promise of
\* SessionLife: a record is written only from a copy the writer holds, and a
\* copy comes only from a login or from a record that is there.
THEOREM ImplementsSessionLife == Spec => ImplementsLife
<1> QED
  BY AbsInit, AbsStep, TypeInit, TypeStep, PTL DEF Spec, ImplementsLife, Life!LifeSpec, Abs

\* The promise itself, for the sessions of BffSession: once a session's record
\* is gone and no activation holds a copy of it, no step brings it back.
THEOREM OverIsForGood == Spec => Life!OverForGood
<1>1. ASSUME Abs, NEW id \in Ids, Life!Over(id) PROVE Life!Over(id)'
  <2>1. Holders \in [Ids -> SUBSET Handlers] /\ id \in born /\ id \notin Live /\ Holders[id] = {}
    BY <1>1 DEF Life!Over, Holders
  <2>2. CASE UNCHANGED <<born, Live, Holders>>
    BY <2>1, <2>2 DEF Life!Over
  <2>3. ASSUME NEW i \in Ids, Life!End(i) PROVE Life!Over(id)'
    BY <2>1, <2>3 DEF Life!End, Life!Over
  <2>4. ASSUME NEW i \in Ids, NEW h \in Handlers,
               Life!Draw(h, i) \/ Life!Copy(h, i) \/ Life!Put(h, i) \/ Life!Drop(h, i)
        PROVE  Life!Over(id)'
    <3>1. CASE i = id
      BY <2>1, <2>4, <3>1 DEF Life!Draw, Life!Copy, Life!Put, Life!Drop, Life!Over
    <3>2. CASE i # id
      BY <2>1, <2>4, <3>2 DEF Life!Draw, Life!Copy, Life!Put, Life!Drop, Life!Over
    <3> QED
      BY <3>1, <3>2
  <2> QED
    BY <1>1, <2>2, <2>3, <2>4 DEF Abs, Life!LifeNext, Life!lifeVars
<1>2. Abs => [\A id \in Ids : Life!Over(id) => Life!Over(id)']_(Life!lifeVars)
  BY <1>1
<1> QED
  BY <1>2, AbsStep, TypeInit, TypeStep, PTL DEF Spec, Life!OverForGood
=============================================================================
