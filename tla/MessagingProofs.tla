---------------------------- MODULE MessagingProofs ----------------------------
(*****************************************************************************)
(* Proofs about Presence, EmailDelivery and BrowserQueue, for any number of  *)
(* connections, pages, emails and events: the types; that a connection which *)
(* ran to its end leaves nothing behind; that an email that was sent stays   *)
(* sent; that every browser event is accounted for, and that a batch is sent *)
(* in the context it was held for; that the browser queue is an EventLine.   *)
(*****************************************************************************)
EXTENDS Presence, EmailDelivery, BrowserQueue, SequenceTheorems, TLAPS

Stages == {"new", "tracked", "open", "moving", "found", "removed", "last", "closed"}

SocketState == [at : Stages, known : BOOLEAN, page : Pages \cup {NoPage}]

PresenceTypes == PresenceTypeOK /\ socket \in [Sockets -> SocketState]

\* A connection on its way to a page has one to go to.
Headed == \A c \in Sockets : socket[c].at = "moving" => socket[c].page \in Pages

\* No key and no set knows of c.
Absent(c) ==
  /\ c \notin conn2user /\ c \notin userSet
  /\ \A p \in Pages : c \notin pageViewers[p]

\* c can be found by its keys, and is on no page but its own.
Traceable(c) ==
  /\ c \in conn2user /\ c \in connTenant
  /\ \A p \in Pages : c \in pageViewers[p] => p = connPage[c]

\* Where a connection stands whose keys have not expired.
Placed(c) ==
  /\ socket[c].at \in {"new", "removed", "last", "closed"} => Absent(c)
  /\ socket[c].at \in {"tracked", "open", "moving", "found"} => Traceable(c)
  /\ socket[c].at = "moving" => \A p \in Pages : c \notin pageViewers[p]

AllPlaced == \A c \in Sockets \ lapsed : Placed(c)

PresenceInv == PresenceTypes /\ Headed /\ AllPlaced

-----------------------------------------------------------------------------
(* The record updates.                                                     *)

\* s is socket with c at another stage.
StageIs(s, c, at) ==
  /\ s \in [Sockets -> SocketState] /\ s[c].at = at
  /\ \A d \in Sockets \ {c} : s[d] = socket[d]

LEMMA NewFacts == NewSocket \in SocketState /\ NewSocket.at = "new"
  BY DEF NewSocket, SocketState, Stages

LEMMA AtFacts ==
  ASSUME socket \in [Sockets -> SocketState], NEW c \in Sockets, NEW at \in Stages, At(c, at)
  PROVE  StageIs(socket', c, at)
<1>1. ASSUME NEW s \in SocketState, NEW q, q = [s EXCEPT !.at = at]
      PROVE  q \in SocketState /\ q.at = at
  BY <1>1 DEF SocketState
<1>2. socket' = [socket EXCEPT ![c] = [socket[c] EXCEPT !.at = at]]
  BY DEF At
<1> QED
  BY <1>1, <1>2 DEF StageIs

LEMMA PageFacts ==
  ASSUME socket \in [Sockets -> SocketState], NEW c \in Sockets, NEW at \in Stages,
         NEW p \in Pages \cup {NoPage}, socket' = [socket EXCEPT ![c].at = at, ![c].page = p]
  PROVE  StageIs(socket', c, at) /\ socket'[c].page = p
<1>1. ASSUME NEW s \in SocketState, NEW q, q = [s EXCEPT !.at = at, !.page = p]
      PROVE  q \in SocketState /\ q.at = at /\ q.page = p
  BY <1>1 DEF SocketState
<1> DEFINE q == [socket[c] EXCEPT !.at = at, !.page = p]
<1>2. socket' = [socket EXCEPT ![c] = q]
  OBVIOUS
<1>3. q \in SocketState /\ q.at = at /\ q.page = p
  BY <1>1
<1> HIDE DEF q
<1> QED
  BY <1>2, <1>3 DEF StageIs

LEMMA KnownFacts ==
  ASSUME socket \in [Sockets -> SocketState], NEW c \in Sockets, FindUser(c)
  PROVE  StageIs(socket', c, "found")
<1>1. ASSUME NEW s \in SocketState, NEW q, q = [s EXCEPT !.at = "found", !.known = TRUE]
      PROVE  q \in SocketState /\ q.at = "found"
  BY <1>1 DEF SocketState, Stages
<1>2. ASSUME NEW s \in SocketState, NEW q, q = [s EXCEPT !.at = "found", !.known = FALSE]
      PROVE  q \in SocketState /\ q.at = "found"
  BY <1>2 DEF SocketState, Stages
<1>3. \/ socket' = [socket EXCEPT ![c] = [socket[c] EXCEPT !.at = "found", !.known = TRUE]]
      \/ socket' = [socket EXCEPT ![c] = [socket[c] EXCEPT !.at = "found", !.known = FALSE]]
  <2>1. socket' = [socket EXCEPT ![c].at = "found", ![c].known = UserOf(c)]
    BY DEF FindUser
  <2>2. CASE UserOf(c) = TRUE
    BY <2>1, <2>2
  <2>3. CASE UserOf(c) = FALSE
    BY <2>1, <2>3
  <2> QED
    BY <2>2, <2>3 DEF UserOf
<1> QED
  BY <1>1, <1>2, <1>3 DEF StageIs

LEMMA WithoutFacts ==
  ASSUME pageViewers \in [Pages -> SUBSET Sockets], NEW c \in Sockets, NEW p
  PROVE  /\ WithoutOn(pageViewers, c, p) \in [Pages -> SUBSET Sockets]
         /\ \A q \in Pages :
              /\ q = p => c \notin WithoutOn(pageViewers, c, p)[q]
              /\ WithoutOn(pageViewers, c, p)[q] \subseteq pageViewers[q]
              /\ \A d \in Sockets \ {c} :
                   d \in pageViewers[q] => d \in WithoutOn(pageViewers, c, p)[q]
  BY DEF WithoutOn

-----------------------------------------------------------------------------
(* What every step does for the connections it is not about.               *)

\* The keys of d are as they were, or fewer of the shared sets name it.
Unchanged(d) ==
  /\ socket'[d] = socket[d]
  /\ d \in conn2user' <=> d \in conn2user
  /\ d \in connTenant' <=> d \in connTenant
  /\ d \in userSet' => d \in userSet
  /\ connPage'[d] = connPage[d]
  /\ \A p \in Pages : d \in pageViewers'[p] => d \in pageViewers[p]

LEMMA OthersStay ==
  ASSUME PresenceInv, NEW d \in Sockets \ lapsed, Unchanged(d)
  PROVE  Placed(d)'
  BY DEF PresenceInv, AllPlaced, Unchanged, Placed, Absent, Traceable

\* A step of c that is placed afterwards, or lapsed.
LEMMA SocketStep ==
  ASSUME PresenceInv, NEW c \in Sockets, PresenceTypes',
         \A d \in Sockets \ {c} : Unchanged(d),
         lapsed \subseteq lapsed', c \notin lapsed' => Placed(c)',
         socket'[c].at = "moving" => socket'[c].page \in Pages
  PROVE  PresenceInv'
<1>1. Headed'
  BY DEF PresenceInv, Headed, Unchanged
<1>2. \A d \in Sockets \ {c} : d \notin lapsed' => Placed(d)'
  BY OthersStay
<1>3. AllPlaced'
  BY <1>2 DEF AllPlaced
<1> QED
  BY <1>1, <1>3 DEF PresenceInv

-----------------------------------------------------------------------------
(* The steps.                                                              *)

LEMMA TypeFacts ==
  ASSUME PresenceInv
  PROVE  /\ socket \in [Sockets -> SocketState]
         /\ conn2user \in SUBSET Sockets /\ userSet \in SUBSET Sockets
         /\ connTenant \in SUBSET Sockets /\ lapsed \in SUBSET Sockets
         /\ connPage \in [Sockets -> Pages \cup {NoPage}]
         /\ pageViewers \in [Pages -> SUBSET Sockets]
         /\ announced \in {"nothing", "UserOnline", "UserOffline"}
         /\ NoPage \notin Pages
  BY PresenceAssumption DEF PresenceInv, PresenceTypes, PresenceTypeOK

LEMMA TypesFrom ==
  ASSUME socket' \in [Sockets -> SocketState],
         conn2user' \in SUBSET Sockets, userSet' \in SUBSET Sockets,
         connTenant' \in SUBSET Sockets, lapsed' \in SUBSET Sockets,
         connPage' \in [Sockets -> Pages \cup {NoPage}],
         pageViewers' \in [Pages -> SUBSET Sockets],
         announced' \in {"nothing", "UserOnline", "UserOffline"}
  PROVE  PresenceTypes'
<1>1. \A c \in Sockets : /\ socket'[c].at \in Stages /\ socket'[c].known \in BOOLEAN
                        /\ socket'[c].page \in Pages \cup {NoPage}
  BY DEF SocketState
<1> QED
  BY <1>1 DEF PresenceTypes, PresenceTypeOK, Stages

LEMMA TrackStep ==
  ASSUME PresenceInv, NEW c \in Sockets, TrackConnection(c) PROVE PresenceInv'
<1>1. StageIs(socket', c, "tracked")
  BY AtFacts, TypeFacts DEF TrackConnection, Stages
<1>2. PresenceTypes'
  BY <1>1, TypeFacts, TypesFrom DEF TrackConnection, StageIs
<1>3. \A d \in Sockets \ {c} : Unchanged(d)
  BY <1>1 DEF TrackConnection, StageIs, Unchanged
<1>4. c \notin lapsed' => Placed(c)'
  BY <1>1 DEF TrackConnection, StageIs, PresenceInv, AllPlaced, Placed, Absent, Traceable
<1> QED
  BY <1>1, <1>2, <1>3, <1>4, SocketStep DEF TrackConnection, StageIs

\* Only the stage of c changes, within the same group of stages.
LEMMA StageStep ==
  ASSUME PresenceInv, NEW c \in Sockets, NEW at \in Stages \ {"moving"},
         StageIs(socket', c, at),
         \/ socket[c].at \in {"tracked", "open", "moving"} /\ at \in {"open", "found"}
         \/ socket[c].at \in {"removed", "last"} /\ at \in {"last", "closed"},
         announced' \in {"nothing", "UserOnline", "UserOffline"},
         UNCHANGED <<conn2user, userSet, connTenant, connPage, pageViewers, lapsed>>
  PROVE  PresenceInv'
<1>1. PresenceTypes'
  BY TypeFacts, TypesFrom DEF StageIs
<1>2. \A d \in Sockets \ {c} : Unchanged(d)
  BY DEF StageIs, Unchanged
<1>3. c \notin lapsed' => Placed(c)'
  BY DEF StageIs, PresenceInv, AllPlaced, Placed, Absent, Traceable
<1> QED
  BY <1>1, <1>2, <1>3, SocketStep DEF StageIs

LEMMA StageSteps ==
  ASSUME PresenceInv, NEW c \in Sockets,
         \/ AnnounceOnline(c) \/ FindUser(c) \/ LookForOthers(c) \/ AnnounceOffline(c)
  PROVE  PresenceInv'
<1>1. CASE AnnounceOnline(c)
  BY <1>1, AtFacts, TypeFacts, StageStep DEF AnnounceOnline, Stages
<1>2. CASE FindUser(c)
  BY <1>2, KnownFacts, TypeFacts, StageStep DEF FindUser, Stages
<1>3. CASE LookForOthers(c)
  BY <1>3, AtFacts, TypeFacts, StageStep DEF LookForOthers, Stages
<1>4. CASE AnnounceOffline(c)
  BY <1>4, AtFacts, TypeFacts, StageStep DEF AnnounceOffline, Stages
<1> QED
  BY <1>1, <1>2, <1>3, <1>4

LEMMA LeaveStep ==
  ASSUME PresenceInv, NEW c \in Sockets, NEW p \in Pages, LeavePage(c, p) PROVE PresenceInv'
<1>1. StageIs(socket', c, "moving") /\ socket'[c].page = p
  BY PageFacts, TypeFacts DEF LeavePage, Stages
<1>2. /\ pageViewers' \in [Pages -> SUBSET Sockets]
      /\ \A q \in Pages : /\ q = connPage[c] => c \notin pageViewers'[q]
                          /\ pageViewers'[q] \subseteq pageViewers[q]
  BY TypeFacts, WithoutFacts DEF LeavePage
<1>3. PresenceTypes'
  BY <1>1, <1>2, TypeFacts, TypesFrom DEF LeavePage, StageIs
<1>4. \A d \in Sockets \ {c} : Unchanged(d)
  BY <1>1, <1>2 DEF LeavePage, StageIs, Unchanged
<1>5. c \notin lapsed' => Placed(c)'
  BY <1>1, <1>2 DEF LeavePage, StageIs, PresenceInv, AllPlaced, Placed, Absent, Traceable
<1> QED
  BY <1>1, <1>3, <1>4, <1>5, SocketStep DEF LeavePage, StageIs

LEMMA EnterStep ==
  ASSUME PresenceInv, NEW c \in Sockets, EnterPage(c) PROVE PresenceInv'
<1> DEFINE p == socket[c].page
<1>1. StageIs(socket', c, "open")
  BY PageFacts, TypeFacts DEF EnterPage, Stages
<1>2. p \in Pages
  BY DEF EnterPage, PresenceInv, Headed
<1>3. /\ connPage' = [connPage EXCEPT ![c] = p]
      /\ pageViewers' = [pageViewers EXCEPT ![p] = @ \cup {c}]
      /\ UNCHANGED <<conn2user, userSet, connTenant, announced, lapsed>>
      /\ socket[c].at = "moving"
  BY DEF EnterPage
<1> HIDE DEF p
<1>4. /\ connPage' \in [Sockets -> Pages \cup {NoPage}] /\ connPage'[c] = p
      /\ \A d \in Sockets \ {c} : connPage'[d] = connPage[d]
      /\ pageViewers' \in [Pages -> SUBSET Sockets]
      /\ \A q \in Pages : /\ q # p => pageViewers'[q] = pageViewers[q]
                          /\ \A d \in Sockets \ {c} : d \in pageViewers'[q] => d \in pageViewers[q]
  BY <1>2, <1>3, TypeFacts
<1>5. PresenceTypes'
  BY <1>1, <1>3, <1>4, TypeFacts, TypesFrom DEF StageIs
<1>6. \A d \in Sockets \ {c} : Unchanged(d)
  BY <1>1, <1>3, <1>4 DEF StageIs, Unchanged
<1>7. c \notin lapsed' => Placed(c)'
  BY <1>1, <1>3, <1>4 DEF StageIs, PresenceInv, AllPlaced, Placed, Absent, Traceable
<1> QED
  BY <1>1, <1>3, <1>5, <1>6, <1>7, SocketStep DEF StageIs

\* The one step that clears the keys: found by both, c is on no page but its own.
LEMMA RemoveStep ==
  ASSUME PresenceInv, NEW c \in Sockets, RemoveConnection(c) PROVE PresenceInv'
<1>1. PICK at \in {"removed", "closed"} : StageIs(socket', c, at)
  BY AtFacts, TypeFacts DEF RemoveConnection, Stages
<1>2. CASE UserOf(c)
  <2>1. /\ conn2user' = conn2user \ {c} /\ userSet' = userSet \ {c}
        /\ connTenant' = connTenant \ {c} /\ connPage' = [connPage EXCEPT ![c] = NoPage]
        /\ pageViewers' = WithoutOn(pageViewers, c, connPage[c])
        /\ UNCHANGED <<announced, lapsed>> /\ socket[c].at = "found"
    BY <1>2 DEF RemoveConnection
  <2>2. /\ pageViewers' \in [Pages -> SUBSET Sockets]
        /\ \A q \in Pages : /\ q = connPage[c] => c \notin pageViewers'[q]
                            /\ pageViewers'[q] \subseteq pageViewers[q]
    BY <2>1, TypeFacts, WithoutFacts
  <2>3. PresenceTypes'
    BY <1>1, <2>1, <2>2, TypeFacts, TypesFrom DEF StageIs
  <2>4. \A d \in Sockets \ {c} : Unchanged(d)
    BY <1>1, <2>1, <2>2, TypeFacts DEF StageIs, Unchanged
  <2>5. c \notin lapsed' => Placed(c)'
    BY <1>1, <2>1, <2>2 DEF StageIs, PresenceInv, AllPlaced, Placed, Absent, Traceable
  <2> QED
    BY <1>1, <2>1, <2>3, <2>4, <2>5, SocketStep DEF StageIs
<1>3. CASE ~UserOf(c)
  <2>1. /\ UNCHANGED <<conn2user, userSet, connTenant, connPage, pageViewers>>
        /\ UNCHANGED <<announced, lapsed>> /\ socket[c].at = "found"
    BY <1>3 DEF RemoveConnection
  <2>2. c \in lapsed
    BY <1>3, <2>1 DEF PresenceInv, AllPlaced, Placed, Traceable, UserOf
  <2>3. PresenceTypes'
    BY <1>1, <2>1, TypeFacts, TypesFrom DEF StageIs
  <2>4. \A d \in Sockets \ {c} : Unchanged(d)
    BY <1>1, <2>1 DEF StageIs, Unchanged
  <2> QED
    BY <1>1, <2>1, <2>2, <2>3, <2>4, SocketStep DEF StageIs
<1> QED
  BY <1>2, <1>3

LEMMA CutStep ==
  ASSUME PresenceInv, NEW c \in Sockets, CutOff(c) PROVE PresenceInv'
<1>1. StageIs(socket', c, "closed")
  BY AtFacts, TypeFacts DEF CutOff, Stages
<1>2. PresenceTypes'
  BY <1>1, TypeFacts, TypesFrom DEF CutOff, StageIs
<1>3. \A d \in Sockets \ {c} : Unchanged(d)
  BY <1>1 DEF CutOff, StageIs, Unchanged
<1> QED
  BY <1>1, <1>2, <1>3, SocketStep DEF CutOff, StageIs

LEMMA ExpiryStep ==
  ASSUME PresenceInv,
         \/ \E c \in Sockets : TenantKeyExpires(c) \/ PageKeyExpires(c)
         \/ UserSetExpires
         \/ \E p \in Pages : PageViewersExpire(p)
  PROVE  PresenceInv'
<1>1. UNCHANGED socket /\ UNCHANGED announced
  BY DEF TenantKeyExpires, PageKeyExpires, UserSetExpires, PageViewersExpire
<1>2. /\ PresenceTypes' /\ lapsed \subseteq lapsed'
      /\ \A d \in Sockets \ lapsed' : Unchanged(d)
  <2>1. ASSUME NEW c \in Sockets, TenantKeyExpires(c)
        PROVE  PresenceTypes' /\ lapsed \subseteq lapsed'
               /\ \A d \in Sockets \ lapsed' : Unchanged(d)
    BY <1>1, <2>1, TypeFacts, TypesFrom DEF TenantKeyExpires, Unchanged
  <2>2. ASSUME NEW c \in Sockets, PageKeyExpires(c)
        PROVE  PresenceTypes' /\ lapsed \subseteq lapsed'
               /\ \A d \in Sockets \ lapsed' : Unchanged(d)
    BY <1>1, <2>2, TypeFacts, TypesFrom DEF PageKeyExpires, Unchanged
  <2>3. CASE UserSetExpires
    BY <1>1, <2>3, TypeFacts, TypesFrom DEF UserSetExpires, Unchanged
  <2>4. ASSUME NEW p \in Pages, PageViewersExpire(p)
        PROVE  PresenceTypes' /\ lapsed \subseteq lapsed'
               /\ \A d \in Sockets \ lapsed' : Unchanged(d)
    BY <1>1, <2>4, TypeFacts, TypesFrom DEF PageViewersExpire, Unchanged
  <2> QED
    BY <2>1, <2>2, <2>3, <2>4
<1>3. Headed'
  BY <1>1 DEF PresenceInv, Headed
<1>4. AllPlaced'
  BY <1>2, OthersStay DEF AllPlaced
<1> QED
  BY <1>2, <1>3, <1>4 DEF PresenceInv

-----------------------------------------------------------------------------
(* Every step.                                                             *)

LEMMA PresenceInitInv == PresenceInit => PresenceInv
<1> SUFFICES ASSUME PresenceInit PROVE PresenceInv
  OBVIOUS
<1>1. \A c \in Sockets : socket[c] \in SocketState /\ socket[c].at = "new"
  BY NewFacts DEF PresenceInit
<1>2. socket \in [Sockets -> SocketState]
  BY <1>1 DEF PresenceInit
<1>3. PresenceTypes
  BY <1>2 DEF PresenceInit, PresenceTypes, PresenceTypeOK, SocketState, Stages
<1>4. Headed
  BY <1>1 DEF Headed
<1>5. AllPlaced
  BY <1>1 DEF PresenceInit, AllPlaced, Placed, Absent
<1> QED
  BY <1>3, <1>4, <1>5 DEF PresenceInv

LEMMA PresenceStep == PresenceInv /\ [PresenceNext]_presenceVars => PresenceInv'
<1> SUFFICES ASSUME PresenceInv, [PresenceNext]_presenceVars PROVE PresenceInv'
  OBVIOUS
<1>1. CASE UNCHANGED presenceVars
  BY <1>1 DEF presenceVars, PresenceInv, PresenceTypes, PresenceTypeOK, Headed, AllPlaced,
     Placed, Absent, Traceable
<1> QED
  BY <1>1, TrackStep, StageSteps, LeaveStep, EnterStep, RemoveStep, CutStep, ExpiryStep
     DEF PresenceNext

\* The connections and the keys keep their types (RedisPresenceService).
THEOREM PresenceTypesHold == PresenceSpec => []PresenceTypeOK
<1>1. PresenceInv => PresenceTypeOK
  BY DEF PresenceInv, PresenceTypes
<1> QED
  BY <1>1, PresenceInitInv, PresenceStep, PTL DEF PresenceSpec

\* A connection that ran to its end with its keys in place is listed nowhere
\* (RedisPresenceService.RemoveConnectionAsync).
THEOREM NothingLeftBehind == PresenceSpec => []NoGhosts
<1>1. PresenceInv => NoGhosts
  BY DEF PresenceInv, AllPlaced, Placed, Absent, NoGhosts
<1> QED
  BY <1>1, PresenceInitInv, PresenceStep, PTL DEF PresenceSpec

-----------------------------------------------------------------------------
(* Email delivery.                                                         *)

MailStatus == {"none", "pending", "failed", "sent"}
MailRow == [status : MailStatus, retries : 0..MaxRetries]
Outcomes == {"none", "due", "sent", "failed"}
Run == [at : {"idle", "sending"}, read : [Emails -> MailRow], result : [Emails -> Outcomes]]

MailTypes ==
  /\ mail \in [Emails -> MailRow] /\ handling \subseteq Emails
  /\ retryJob \in [RetryJobs -> Run] /\ failures \in 0..MaxFailures

\* A message is handled while it is pending, and has not been retried before.
HandledPending ==
  \A e \in Emails :
    /\ e \in handling => mail[e].status = "pending"
    /\ mail[e].status \in {"none", "pending"} => mail[e].retries = 0

\* A run works on messages that had failed when it read them, with a retry left; what
\* has failed or been sent since is never pending again.
Failed(m) == m.status \in {"failed", "sent"}

TakenUpFailed ==
  \A j \in RetryJobs : \A e \in Emails :
    retryJob[j].result[e] # "none" =>
      /\ Failed(mail[e])
      /\ retryJob[j].read[e].retries < MaxRetries

EmailInv == MailTypes /\ HandledPending /\ TakenUpFailed

-----------------------------------------------------------------------------
\* A row is its status and its count.
LEMMA MailRowFacts ==
  /\ \A s \in MailStatus, n \in 0..MaxRetries :
       /\ [status |-> s, retries |-> n] \in MailRow
       /\ [status |-> s, retries |-> n].status = s
       /\ [status |-> s, retries |-> n].retries = n
  /\ \A m \in MailRow : m.status \in MailStatus /\ m.retries \in 0..MaxRetries
  /\ \A m \in MailRow, s \in MailStatus :
       /\ [m EXCEPT !.status = s] \in MailRow
       /\ [m EXCEPT !.status = s].status = s /\ [m EXCEPT !.status = s].retries = m.retries
  /\ \A m \in MailRow, n \in 0..MaxRetries :
       /\ [m EXCEPT !.retries = n] \in MailRow
       /\ [m EXCEPT !.retries = n].status = m.status /\ [m EXCEPT !.retries = n].retries = n
  BY DEF MailRow

LEMMA NoMailFacts == NoMail \in MailRow /\ NoMail.status = "none" /\ NoMail.retries = 0
<1>1. 0 \in 0..MaxRetries /\ "none" \in MailStatus
  BY EmailAssumption DEF MailStatus
<1> QED
  BY <1>1, MailRowFacts DEF NoMail

LEMMA RunFacts ==
  /\ \A at \in {"idle", "sending"}, read \in [Emails -> MailRow], result \in [Emails -> Outcomes] :
       LET run == [at |-> at, read |-> read, result |-> result]
       IN run \in Run /\ run.at = at /\ run.read = read /\ run.result = result
  /\ \A run \in Run : run.read \in [Emails -> MailRow] /\ run.result \in [Emails -> Outcomes]
  /\ \A run \in Run, result \in [Emails -> Outcomes] :
       LET next == [run EXCEPT !.result = result]
       IN next \in Run /\ next.read = run.read /\ next.result = result
  BY DEF Run

LEMMA JobRestFacts == JobAtRest \in Run /\ \A e \in Emails : JobAtRest.result[e] = "none"
  BY RunFacts, NoMailFacts DEF JobAtRest, Outcomes

LEMMA EmailInitInv == EmailInit => EmailInv
<1> SUFFICES ASSUME EmailInit PROVE EmailInv
  OBVIOUS
<1>1. MailTypes
  BY NoMailFacts, JobRestFacts, EmailAssumption DEF EmailInit, MailTypes
<1> QED
  BY <1>1, NoMailFacts, JobRestFacts DEF EmailInit, EmailInv, HandledPending, TakenUpFailed

\* The handler's steps: the row of e is nobody else's until it has failed.
LEMMA HandlerStep ==
  ASSUME EmailInv, NEW e \in Emails, AddMail(e) \/ SaveOutcome(e) \/ HandlerFails(e)
  PROVE  EmailInv'
<1> USE DEF EmailInv
<1>1. \A f \in Emails : mail[f] \in MailRow
  BY DEF MailTypes
<1>2. ASSUME mail' \in [Emails -> MailRow], handling' \subseteq Emails,
             UNCHANGED <<retryJob, failures>>,
             \A f \in Emails \ {e} : mail'[f] = mail[f] /\ (f \in handling' => f \in handling),
             ~Failed(mail[e]),
             \/ mail'[e].status = "pending" /\ mail'[e].retries = 0
             \/ e \notin handling' /\ Failed(mail'[e])
      PROVE  EmailInv'
  <2>1. MailTypes'
    BY <1>2 DEF MailTypes
  <2>2. HandledPending'
    BY <1>2 DEF HandledPending, Failed
  <2>3. TakenUpFailed'
    BY <1>2 DEF TakenUpFailed, MailTypes
  <2> QED
    BY <2>1, <2>2, <2>3
<1>3. CASE AddMail(e)
  <2> DEFINE m == [mail[e] EXCEPT !.status = "pending"]
  <2>1. m \in MailRow /\ m.status = "pending" /\ m.retries = mail[e].retries
    BY <1>1, MailRowFacts DEF MailStatus
  <2>2. mail' = [mail EXCEPT ![e] = m]
    BY <1>3 DEF AddMail
  <2> HIDE DEF m
  <2>3. mail' \in [Emails -> MailRow] /\ mail'[e] = m
        /\ \A f \in Emails \ {e} : mail'[f] = mail[f]
    BY <2>1, <2>2 DEF MailTypes
  <2> QED
    BY <1>2, <1>3, <2>1, <2>3 DEF AddMail, MailTypes, HandledPending, Failed
<1>4. CASE SaveOutcome(e)
  <2>1. mail[e].status = "pending" /\ mail[e].retries = 0
    BY <1>4 DEF SaveOutcome, HandledPending
  <2>2. PICK m \in MailRow : Failed(m) /\ mail' = [mail EXCEPT ![e] = m]
    <3>1. CASE mail' = [mail EXCEPT ![e].status = "sent"]
      <4> DEFINE m == [mail[e] EXCEPT !.status = "sent"]
      <4>1. m \in MailRow /\ m.status = "sent"
        BY <1>1, MailRowFacts DEF MailStatus
      <4>2. mail' = [mail EXCEPT ![e] = m]
        BY <3>1
      <4> HIDE DEF m
      <4> QED
        BY <4>1, <4>2 DEF Failed
    <3>2. CASE mail' = [mail EXCEPT ![e] = [status |-> "failed", retries |-> @.retries + 1]]
      <4> DEFINE m == [status |-> "failed", retries |-> mail[e].retries + 1]
      <4>1. m \in MailRow /\ m.status = "failed"
        BY <2>1, MailRowFacts, EmailAssumption DEF MailStatus
      <4>2. mail' = [mail EXCEPT ![e] = m]
        BY <3>2 DEF MailTypes
      <4> HIDE DEF m
      <4> QED
        BY <4>1, <4>2 DEF Failed
    <3> QED
      BY <1>4, <3>1, <3>2 DEF SaveOutcome
  <2> QED
    BY <1>2, <1>4, <2>1, <2>2 DEF SaveOutcome, MailTypes, Failed
<1>5. CASE HandlerFails(e)
  BY <1>2, <1>5 DEF HandlerFails, MailTypes, HandledPending, Failed
<1> QED
  BY <1>3, <1>4, <1>5

\* Only the run j has changed, and what it works on had failed.
LEMMA OnlyRun ==
  ASSUME EmailInv, NEW j \in RetryJobs, NEW run \in Run,
         retryJob' = [retryJob EXCEPT ![j] = run], UNCHANGED <<mail, handling>>,
         failures' \in 0..MaxFailures,
         \A e \in Emails : run.result[e] # "none" =>
                             Failed(mail[e]) /\ run.read[e].retries < MaxRetries
  PROVE  EmailInv'
<1>1. MailTypes' /\ retryJob'[j] = run /\ \A i \in RetryJobs \ {j} : retryJob'[i] = retryJob[i]
  BY DEF EmailInv, MailTypes
<1>2. HandledPending'
  BY DEF EmailInv, HandledPending
<1>3. TakenUpFailed'
  BY <1>1 DEF EmailInv, TakenUpFailed, Failed
<1> QED
  BY <1>1, <1>2, <1>3 DEF EmailInv

LEMMA RunStep ==
  ASSUME EmailInv, NEW j \in RetryJobs,
         ReadFailed(j) \/ RunFails(j) \/ \E e \in Emails : Resend(j, e)
  PROVE  EmailInv'
<1>1. CASE ReadFailed(j)
  <2> DEFINE result == [e \in Emails |-> IF Retryable(e) THEN "due" ELSE "none"]
             run == [at |-> "sending", read |-> mail, result |-> result]
  <2>1. result \in [Emails -> Outcomes]
    BY DEF Outcomes
  <2>2. run \in Run /\ run.read = mail /\ run.result = result
    BY <2>1, RunFacts DEF EmailInv, MailTypes
  <2>3. retryJob' = [retryJob EXCEPT ![j] = run] /\ UNCHANGED <<mail, handling, failures>>
    BY <1>1 DEF ReadFailed
  <2>4. \A e \in Emails : result[e] # "none" => Failed(mail[e]) /\ mail[e].retries < MaxRetries
    BY DEF Retryable, Failed
  <2> HIDE DEF run, result
  <2> QED
    BY <2>2, <2>3, <2>4, OnlyRun DEF EmailInv, MailTypes
<1>2. CASE RunFails(j)
  <2>1. failures' \in 0..MaxFailures
    BY <1>2, EmailAssumption DEF RunFails, EmailInv, MailTypes
  <2> QED
    BY <1>2, <2>1, JobRestFacts, OnlyRun DEF RunFails
<1>3. ASSUME NEW e \in Emails, Resend(j, e) PROVE EmailInv'
  <2>1. PICK outcome \in {"sent", "failed"} :
          retryJob' = [retryJob EXCEPT ![j].result[e] = outcome]
    BY <1>3 DEF Resend
  <2> DEFINE result == [retryJob[j].result EXCEPT ![e] = outcome]
             run == [retryJob[j] EXCEPT !.result = result]
  <2>2. retryJob[j] \in Run
    BY DEF EmailInv, MailTypes
  <2>3. result \in [Emails -> Outcomes]
    BY <2>2, RunFacts DEF Outcomes
  <2>4. run \in Run /\ run.read = retryJob[j].read /\ run.result = result
    BY <2>2, <2>3, RunFacts
  <2>5. retryJob' = [retryJob EXCEPT ![j] = run]
    BY <2>1
  <2>6. \A f \in Emails : result[f] # "none" => retryJob[j].result[f] # "none"
    BY <1>3, <2>2, RunFacts DEF Resend
  <2> HIDE DEF run, result
  <2>7. UNCHANGED <<mail, handling, failures>>
    BY <1>3 DEF Resend
  <2> QED
    BY <2>4, <2>5, <2>6, <2>7, OnlyRun DEF EmailInv, TakenUpFailed, MailTypes
<1> QED
  BY <1>1, <1>2, <1>3

\* What the save of a run makes of a row it has taken up.
LEMMA MergedFacts ==
  ASSUME EmailInv, NEW j \in RetryJobs, NEW e \in Emails,
         retryJob[j].result[e] # "due"
  PROVE  /\ Merged(retryJob[j], e) \in MailRow
         /\ mail[e].status = "sent" => Merged(retryJob[j], e).status = "sent"
         /\ retryJob[j].result[e] = "none" => Merged(retryJob[j], e) = mail[e]
         /\ Failed(mail[e]) => Failed(Merged(retryJob[j], e))
<1> DEFINE run == retryJob[j]
<1>1. run \in Run /\ mail[e] \in MailRow /\ run.read[e] \in MailRow /\ run.result[e] \in Outcomes
  BY RunFacts DEF EmailInv, MailTypes
<1>2. CASE run.result[e] = "sent"
  <2>1. Merged(run, e) = [mail[e] EXCEPT !.status = "sent"]
    BY <1>2 DEF Merged
  <2> QED
    <3>1. "sent" \in MailStatus
      BY DEF MailStatus
    <3>2. Merged(run, e) \in MailRow /\ Merged(run, e).status = "sent"
      BY <1>1, <2>1, <3>1, MailRowFacts
    <3> QED
      BY <1>2, <3>2 DEF Failed
<1>3. CASE run.result[e] = "failed"
  <2>1. Merged(run, e) = [mail[e] EXCEPT !.retries = run.read[e].retries + 1]
    BY <1>3 DEF Merged
  <2>2. run.read[e].retries + 1 \in 0..MaxRetries
    BY <1>1, <1>3, MailRowFacts, EmailAssumption DEF EmailInv, TakenUpFailed
  <2> QED
    BY <1>1, <1>3, <2>1, <2>2, MailRowFacts DEF Failed
<1>4. CASE run.result[e] = "none"
  <2>1. Merged(run, e) = mail[e]
    BY <1>4 DEF Merged
  <2> QED
    BY <1>1, <2>1
<1> QED
  BY <1>1, <1>2, <1>3, <1>4 DEF Outcomes

LEMMA SaveRunStep ==
  ASSUME EmailInv, NEW j \in RetryJobs, SaveRun(j) PROVE EmailInv'
<1>1. /\ mail' = [e \in Emails |-> Merged(retryJob[j], e)]
      /\ retryJob' = [retryJob EXCEPT ![j] = JobAtRest]
      /\ UNCHANGED <<handling, failures>>
      /\ \A e \in Emails : retryJob[j].result[e] # "due"
  BY DEF SaveRun
<1>2. mail' \in [Emails -> MailRow]
  BY <1>1, MergedFacts
<1>3. /\ retryJob' \in [RetryJobs -> Run] /\ retryJob'[j] = JobAtRest
      /\ \A i \in RetryJobs \ {j} : retryJob'[i] = retryJob[i]
  BY <1>1, JobRestFacts DEF EmailInv, MailTypes
<1>4. \A e \in Emails : mail'[e] = mail[e] \/ (Failed(mail[e]) /\ Failed(mail'[e]))
  BY <1>1, MergedFacts DEF EmailInv, TakenUpFailed
<1>5. HandledPending'
  BY <1>1, <1>4 DEF EmailInv, HandledPending, Failed
<1>6. TakenUpFailed'
  BY <1>3, <1>4, JobRestFacts DEF EmailInv, TakenUpFailed
<1> QED
  BY <1>1, <1>2, <1>3, <1>5, <1>6 DEF EmailInv, MailTypes

LEMMA EmailStep == EmailInv /\ [EmailNext]_emailVars => EmailInv'
<1> SUFFICES ASSUME EmailInv, [EmailNext]_emailVars PROVE EmailInv'
  OBVIOUS
<1>1. CASE UNCHANGED emailVars
  BY <1>1 DEF emailVars, EmailInv, MailTypes, HandledPending, TakenUpFailed
<1> QED
  BY <1>1, HandlerStep, RunStep, SaveRunStep DEF EmailNext

\* The messages and the runs of the job keep their types; in particular no message
\* is retried more often than the job allows (EmailMessage.MarkAsFailed).
THEOREM EmailTypesHold == EmailSpec => []EmailTypeOK
<1>1. EmailInv => EmailTypeOK
  BY DEF EmailInv, MailTypes, Run, EmailTypeOK, MailRow, MailStatus, Outcomes
<1> QED
  BY <1>1, EmailInitInv, EmailStep, PTL DEF EmailSpec

\* A message saved as sent stays so, however many runs overlap and whatever of them
\* fails (RetryFailedEmailsJob saves the columns that differ from what it read).
THEOREM SentIsForGood == EmailSpec => SentForGood
<1>1. EmailInv /\ [EmailNext]_emailVars
      => [\A e \in Emails : mail[e].status = "sent" => mail'[e].status = "sent"]_emailVars
  <2> SUFFICES ASSUME EmailInv, EmailNext, NEW e \in Emails, mail[e].status = "sent"
               PROVE  mail'[e].status = "sent"
    OBVIOUS
  <2>1. CASE UNCHANGED mail
    BY <2>1
  <2>2. ASSUME NEW f \in Emails, AddMail(f) \/ SaveOutcome(f) PROVE mail'[e] = mail[e]
    BY <2>2 DEF AddMail, SaveOutcome, EmailInv, MailTypes, HandledPending
  <2>3. ASSUME NEW j \in RetryJobs, SaveRun(j) PROVE mail'[e].status = "sent"
    BY <2>3, MergedFacts DEF SaveRun
  <2> QED
    BY <2>1, <2>2, <2>3 DEF EmailNext, HandlerFails, Resend, ReadFailed, RunFails
<1> QED
  BY <1>1, EmailInitInv, EmailStep, PTL DEF EmailSpec, SentForGood

-----------------------------------------------------------------------------
(* The browser queue.                                                      *)

Generations == 1..MaxResets

DrainStages == {"idle", "sending", "cancelling", "resetting"}

Drain ==
  [at : DrainStages, gen : 0..MaxResets, held : Seq(Generations),
   wire : Generations \cup {NoContext}, timedOut : BOOLEAN]

Stats == [queuedBytes : Nat, exported : Nat, dropped : Nat]

QueueTypes ==
  /\ queue \in Seq(Generations) /\ context \in Generations \cup {NoContext}
  /\ generation \in Generations /\ resets \subseteq Generations
  /\ drain \in Drain /\ stats \in Stats
  /\ offered \in Nat /\ doubled \in Nat

\* There is no context until the request of this generation has been answered.
Unanswered == generation \in resets => context = NoContext

\* The events of q were recorded under c.
Under(q, c) == \A i \in 1..Len(q) : q[i] = c

InContext == Under(queue, context) /\ (drain.at = "sending" => Under(drain.held, drain.wire))

\* Only a batch under way is held.
Resting == drain.at \in {"idle", "resetting"} => drain.held = <<>>

WithinBudget == stats.queuedBytes <= Budget

QueueInv == QueueTypes /\ Unanswered /\ InContext /\ Resting /\ WithinBudget /\ EventsAccounted

-----------------------------------------------------------------------------
LEMMA StatsFacts ==
  ASSUME NEW s \in Stats
  PROVE  /\ s.queuedBytes \in Nat /\ s.exported \in Nat /\ s.dropped \in Nat
         /\ \A b, e, d \in Nat : LET r == [queuedBytes |-> b, exported |-> e, dropped |-> d]
              IN  r \in Stats /\ r.queuedBytes = b /\ r.exported = e /\ r.dropped = d
  BY DEF Stats

\* The stats are those of s but for the fields given.
StatsAre(t, b, e, d) ==
  t \in Stats /\ t.queuedBytes = b /\ t.exported = e /\ t.dropped = d

LEMMA StatsChange ==
  ASSUME NEW s \in Stats, NEW n \in Nat, NEW m \in Nat
  PROVE  /\ StatsAre([s EXCEPT !.queuedBytes = @ + n], s.queuedBytes + n, s.exported, s.dropped)
         /\ StatsAre([s EXCEPT !.exported = @ + n], s.queuedBytes, s.exported + n, s.dropped)
         /\ StatsAre([s EXCEPT !.dropped = @ + n], s.queuedBytes, s.exported, s.dropped + n)
         /\ s.queuedBytes >= m =>
              StatsAre([s EXCEPT !.dropped = @ + n, !.queuedBytes = @ - m],
                       s.queuedBytes - m, s.exported, s.dropped + n)
<1>1. s.queuedBytes \in Nat /\ s.exported \in Nat /\ s.dropped \in Nat
  BY StatsFacts
<1>2. s.queuedBytes + n \in Nat /\ s.exported + n \in Nat /\ s.dropped + n \in Nat
      /\ (s.queuedBytes >= m => s.queuedBytes - m \in Nat)
  BY <1>1
<1>3. StatsAre([s EXCEPT !.queuedBytes = s.queuedBytes + n], s.queuedBytes + n, s.exported, s.dropped)
  BY <1>1, <1>2 DEF StatsAre, Stats
<1>4. StatsAre([s EXCEPT !.exported = s.exported + n], s.queuedBytes, s.exported + n, s.dropped)
  BY <1>1, <1>2 DEF StatsAre, Stats
<1>5. StatsAre([s EXCEPT !.dropped = s.dropped + n], s.queuedBytes, s.exported, s.dropped + n)
  BY <1>1, <1>2 DEF StatsAre, Stats
<1>6. ASSUME s.queuedBytes >= m
      PROVE  StatsAre([s EXCEPT !.dropped = s.dropped + n, !.queuedBytes = s.queuedBytes - m],
                       s.queuedBytes - m, s.exported, s.dropped + n)
  BY <1>1, <1>2, <1>6 DEF StatsAre, Stats
<1> QED
  BY <1>3, <1>4, <1>5, <1>6

LEMMA ClearedFacts ==
  ASSUME NEW s \in Stats, NEW q \in Seq(Generations), s.queuedBytes >= Len(q)
  PROVE  StatsAre(Cleared(s, q), s.queuedBytes - Len(q), s.exported, s.dropped + Len(q))
<1>1. Len(q) \in Nat /\ s.queuedBytes \in Nat /\ s.dropped \in Nat
  BY LenProperties, StatsFacts
<1>2. s.queuedBytes - Len(q) \in Nat /\ s.dropped + Len(q) \in Nat
  BY <1>1
<1>3. Cleared(s, q) = [s EXCEPT !.dropped = s.dropped + Len(q), !.queuedBytes = s.queuedBytes - Len(q)]
  BY DEF Cleared, Stats
<1> QED
  BY <1>2, <1>3 DEF StatsAre, Stats

LEMMA DrainFacts ==
  ASSUME NEW d \in Drain
  PROVE  /\ d.at \in DrainStages /\ d.gen \in 0..MaxResets /\ d.held \in Seq(Generations)
         /\ d.wire \in Generations \cup {NoContext} /\ d.timedOut \in BOOLEAN /\ Len(d.held) \in Nat
<1>1. d.held \in Seq(Generations)
  BY DEF Drain
<1> QED
  BY <1>1, LenProperties DEF Drain

LEMMA AtRest ==
  /\ DrainAtRest \in Drain /\ DrainAtRest.at = "idle" /\ DrainAtRest.held = <<>>
  /\ \A g \in 0..MaxResets :
       LET d == [DrainAtRest EXCEPT !.at = "resetting", !.gen = g]
       IN d \in Drain /\ d.at = "resetting" /\ d.held = <<>>
  /\ \A g \in 0..MaxResets :
       LET d == [DrainAtRest EXCEPT !.gen = g]
       IN d \in Drain /\ d.gen = g /\ d.held = <<>>
<1>1. <<>> \in Seq(Generations) /\ 0 \in 0..MaxResets
  BY EmptySeq, QueueAssumption
<1> QED
  BY <1>1 DEF DrainAtRest, Drain, DrainStages

LEMMA NothingUnder ==
  /\ <<>> \in Seq(Generations) /\ Len(<<>>) = 0
  /\ \A c : Under(<<>>, c)
<1>1. <<>> \in Seq(Generations) /\ Len(<<>>) = 0
  BY EmptySeq
<1> QED
  BY <1>1 DEF Under

LEMMA QueueInitInv == QueueInit => QueueInv
<1> SUFFICES ASSUME QueueInit PROVE QueueInv
  OBVIOUS
<1>1. stats \in Stats /\ stats.queuedBytes = 0 /\ stats.exported = 0 /\ stats.dropped = 0
  BY DEF QueueInit, Stats
<1>2. 1 \in Generations
  BY QueueAssumption DEF Generations
<1>3. QueueTypes
  BY <1>1, <1>2, AtRest, NothingUnder DEF QueueInit, QueueTypes
<1>4. Unanswered /\ InContext /\ Resting
  BY AtRest, NothingUnder DEF QueueInit, Unanswered, InContext, Resting
<1>5. WithinBudget /\ EventsAccounted
  <2>1. Len(queue) = 0 /\ Len(drain.held) = 0 /\ Held = 0 /\ offered = 0 /\ doubled = 0
    BY AtRest, NothingUnder DEF QueueInit, Held
  <2> QED
    BY <1>1, <2>1, QueueAssumption DEF WithinBudget, EventsAccounted
<1> QED
  BY <1>3, <1>4, <1>5 DEF QueueInv

-----------------------------------------------------------------------------
\* A batch is the beginning of the queue, what waits is the rest of it.
LEMMA BatchFacts ==
  ASSUME NEW q \in Seq(Generations), NEW c, Under(q, c), q # <<>>
  PROVE  LET n == IF Len(q) < BatchMax THEN Len(q) ELSE BatchMax
             batch == SubSeq(q, 1, n)
             rest == SubSeq(q, n + 1, Len(q))
         IN  /\ batch \in Seq(Generations) /\ rest \in Seq(Generations)
             /\ Len(batch) \in Nat /\ Len(rest) \in Nat /\ Len(batch) + Len(rest) = Len(q)
             /\ Under(batch, c) /\ Under(rest, c)
<1> DEFINE n == IF Len(q) < BatchMax THEN Len(q) ELSE BatchMax
<1>1. Len(q) \in Nat \ {0} /\ \A i \in 1..Len(q) : q[i] \in Generations
  BY EmptySeq, ElementOfSeq
<1>2. n \in 1..Len(q)
  BY <1>1, QueueAssumption
<1> HIDE DEF n
<1>3. /\ SubSeq(q, 1, n) \in Seq(Generations) /\ Len(SubSeq(q, 1, n)) = n
      /\ \A i \in 1..n : SubSeq(q, 1, n)[i] = q[i]
  <2>1. \A i \in 1..n : q[i] \in Generations
    BY <1>1, <1>2
  <2>2. /\ SubSeq(q, 1, n) \in Seq(Generations)
        /\ Len(SubSeq(q, 1, n)) = (IF 1 <= n THEN n-1+1 ELSE 0)
        /\ \A i \in 1 .. n-1+1 : SubSeq(q, 1, n)[i] = q[1+i-1]
    BY <1>1, <1>2, <2>1, SubSeqProperties
  <2> QED
    BY <1>1, <1>2, <2>2
<1>4. /\ SubSeq(q, n + 1, Len(q)) \in Seq(Generations)
      /\ Len(SubSeq(q, n + 1, Len(q))) = Len(q) - n
      /\ \A i \in 1..(Len(q) - n) : SubSeq(q, n + 1, Len(q))[i] = q[n + i]
  <2>1. \A i \in (n + 1)..Len(q) : q[i] \in Generations
    BY <1>1, <1>2
  <2>2. /\ SubSeq(q, n + 1, Len(q)) \in Seq(Generations)
        /\ Len(SubSeq(q, n + 1, Len(q))) =
             (IF n + 1 <= Len(q) THEN Len(q) - (n + 1) + 1 ELSE 0)
        /\ \A i \in 1..(Len(q) - (n + 1) + 1) :
             SubSeq(q, n + 1, Len(q))[i] = q[(n + 1) + i - 1]
    BY <1>1, <1>2, <2>1, SubSeqProperties
  <2> QED
    BY <1>1, <1>2, <2>2
<1>5. Under(SubSeq(q, 1, n), c) /\ Under(SubSeq(q, n + 1, Len(q)), c)
  <2>1. \A i \in 1..n : q[i] = c
    BY <1>1, <1>2 DEF Under
  <2>2. \A i \in 1..(Len(q) - n) : q[n + i] = c
    BY <1>1, <1>2 DEF Under
  <2> QED
    BY <1>3, <1>4, <2>1, <2>2 DEF Under
<1> QED
  BY <1>1, <1>2, <1>3, <1>4, <1>5 DEF n

\* The books as a round of the drain finds them: nothing is held any more.
Books(q, s) ==
  /\ s \in Stats /\ s.queuedBytes = Len(q) /\ s.queuedBytes <= Budget
  /\ s.exported + s.dropped + Len(q) = offered' + doubled'

\* A reset: the queue q is dropped, the context is gone.
LEMMA ResetStep ==
  ASSUME QueueTypes, NEW q \in Seq(Generations), NEW s \in Stats, s.queuedBytes >= Len(q),
         s.queuedBytes <= Budget, Reset(q, s)
  PROVE  /\ queue' = <<>> /\ context' = NoContext /\ generation' \in Generations
         /\ resets' \subseteq Generations /\ generation' = generation + 1
         /\ StatsAre(stats', s.queuedBytes - Len(q), s.exported, s.dropped + Len(q))
         /\ stats'.queuedBytes <= Budget
<1>1. Len(q) \in Nat /\ s.queuedBytes \in Nat
  BY LenProperties, StatsFacts
<1>2. generation + 1 \in Generations
  BY QueueAssumption DEF QueueTypes, Reset, Generations
<1>3. StatsAre(stats', s.queuedBytes - Len(q), s.exported, s.dropped + Len(q))
  BY ClearedFacts DEF Reset
<1>4. stats'.queuedBytes <= Budget
  BY <1>1, <1>3, QueueAssumption DEF StatsAre
<1> QED
  BY <1>2, <1>3, <1>4 DEF Reset, QueueTypes

\* The next round of a drain takes a batch or is the end of it.
LEMMA ContinueStep ==
  ASSUME QueueTypes, NEW d \in Drain, d.held = <<>>, NEW s, Books(queue, s),
         Under(queue, context), Unanswered, offered' \in Nat, doubled' \in Nat,
         Continue(d, queue, context, s)
  PROVE  QueueInv'
<1>0. /\ queue \in Seq(Generations) /\ Len(queue) \in Nat /\ s \in Stats
      /\ s.queuedBytes = Len(queue) /\ s.queuedBytes <= Budget
      /\ s.exported \in Nat /\ s.dropped \in Nat
      /\ s.exported + s.dropped + Len(queue) = offered' + doubled'
  BY LenProperties, StatsFacts DEF QueueTypes, Books
\* The drain holds nothing any more.
<1>1. ASSUME drain' \in Drain, drain'.held = <<>>, drain'.at \in {"idle", "resetting"},
             queue' \in Seq(Generations), Under(queue', context'), Unanswered',
             context' \in Generations \cup {NoContext}, generation' \in Generations,
             resets' \subseteq Generations,
             stats' \in Stats, stats'.queuedBytes = Len(queue'), stats'.queuedBytes <= Budget,
             stats'.exported + stats'.dropped + Len(queue') = offered' + doubled'
      PROVE  QueueInv'
  <2>1. QueueTypes'
    BY <1>1 DEF QueueTypes
  <2>2. InContext' /\ Resting' /\ WithinBudget'
    BY <1>1 DEF InContext, Resting, WithinBudget
  <2>3. EventsAccounted'
    <3>1. Len(drain'.held) = 0 /\ Held' = 0
      BY <1>1, NothingUnder DEF Held
    <3>2. Len(queue') \in Nat /\ stats'.exported \in Nat /\ stats'.dropped \in Nat
      BY <1>1, LenProperties, StatsFacts
    <3> QED
      BY <1>1, <3>1, <3>2 DEF EventsAccounted
  <2> QED
    BY <1>1, <2>1, <2>2, <2>3 DEF QueueInv
<1>2. CASE LeaveLoop(d, queue, context, s)
  <2>1. CASE drain' = DrainAtRest /\ queue' = queue /\ stats' = s /\ context' = context
             /\ UNCHANGED <<generation, resets>>
    BY <1>0, <1>1, <2>1, AtRest DEF QueueTypes, Unanswered, Under
  <2>2. CASE drain' = DrainAtRest /\ queue' = <<>> /\ stats' = Cleared(s, queue) /\ context' = context
             /\ UNCHANGED <<generation, resets>>
    <3>1. StatsAre(stats', 0, s.exported, s.dropped + Len(queue))
      BY <1>0, <2>2, ClearedFacts
    <3>2. stats'.exported + stats'.dropped + Len(queue') = offered' + doubled'
      BY <1>0, <2>2, <3>1, NothingUnder DEF StatsAre
    <3>3. stats' \in Stats /\ stats'.queuedBytes = Len(queue') /\ stats'.queuedBytes <= Budget
      BY <2>2, <3>1, NothingUnder, QueueAssumption DEF StatsAre
    <3>4. Unanswered' /\ Under(queue', context')
      BY <2>2, NothingUnder DEF Unanswered
    <3> QED
      BY <1>1, <2>2, <3>2, <3>3, <3>4, AtRest, NothingUnder DEF QueueTypes
  <2>3. CASE /\ Reset(queue, s)
             /\ drain' = [DrainAtRest EXCEPT !.at = "resetting", !.gen = generation + 1]
    <3>1. /\ queue' = <<>> /\ context' = NoContext /\ generation' \in Generations
          /\ resets' \subseteq Generations /\ generation' = generation + 1
          /\ StatsAre(stats', 0, s.exported, s.dropped + Len(queue))
      BY <1>0, <2>3, ResetStep
    <3>2. stats'.exported + stats'.dropped + Len(queue') = offered' + doubled'
      BY <1>0, <3>1, NothingUnder DEF StatsAre
    <3>3. stats' \in Stats /\ stats'.queuedBytes = Len(queue') /\ stats'.queuedBytes <= Budget
      BY <3>1, NothingUnder, QueueAssumption DEF StatsAre
    <3>4. drain' \in Drain /\ drain'.at = "resetting" /\ drain'.held = <<>>
      <4>1. generation + 1 \in 0..MaxResets
        BY <3>1, QueueAssumption DEF Generations
      <4> QED
        BY <2>3, <4>1, AtRest
    <3>5. Unanswered' /\ Under(queue', context')
      BY <3>1, NothingUnder DEF Unanswered
    <3> QED
      BY <1>1, <3>1, <3>2, <3>3, <3>4, <3>5, NothingUnder
  <2> QED
    BY <1>2, <2>1, <2>2, <2>3 DEF LeaveLoop
<1>3. CASE ~LeaveLoop(d, queue, context, s)
  <2> DEFINE n == IF Len(queue) < BatchMax THEN Len(queue) ELSE BatchMax
             batch == SubSeq(queue, 1, n)
             rest == SubSeq(queue, n + 1, Len(queue))
  <2>1. /\ queue # <<>> /\ context # NoContext
        /\ drain' = [d EXCEPT !.at = "sending", !.held = batch, !.wire = context]
        /\ queue' = rest /\ stats' = s /\ context' = context
        /\ UNCHANGED <<generation, resets>>
    BY <1>3 DEF Continue
  <2>2. /\ batch \in Seq(Generations) /\ rest \in Seq(Generations)
        /\ Len(batch) \in Nat /\ Len(rest) \in Nat /\ Len(batch) + Len(rest) = Len(queue)
        /\ Under(batch, context) /\ Under(rest, context)
    BY <1>0, <2>1, BatchFacts
  <2> HIDE DEF batch, rest
  <2>3. /\ drain' \in Drain /\ drain'.at = "sending" /\ drain'.held = batch
        /\ drain'.wire = context
    BY <2>1, <2>2 DEF Drain, DrainStages, QueueTypes
  <2>4. QueueTypes'
    BY <1>0, <2>1, <2>2, <2>3 DEF QueueTypes
  <2>5. Unanswered' /\ InContext' /\ Resting' /\ WithinBudget'
    BY <1>0, <2>1, <2>2, <2>3 DEF Unanswered, InContext, Resting, WithinBudget
  <2>6. EventsAccounted'
    <3>1. Held' = Len(batch) /\ Len(drain'.held) = Len(batch) /\ Len(queue') = Len(rest)
      BY <2>1, <2>3 DEF Held
    <3>2. /\ stats'.queuedBytes = Len(batch) + Len(rest)
          /\ stats'.exported + stats'.dropped + (Len(batch) + Len(rest)) = offered' + doubled'
      BY <1>0, <2>1, <2>2
    <3>3. stats'.exported \in Nat /\ stats'.dropped \in Nat
      BY <1>0, <2>1
    <3>4. /\ stats'.queuedBytes = Len(queue') + Len(drain'.held)
          /\ stats'.exported + stats'.dropped + Len(queue') + Held' = offered' + doubled'
      <4>1. PICK e \in Nat, p \in Nat, b \in Nat, r \in Nat :
              /\ stats'.exported = e /\ stats'.dropped = p
              /\ Len(batch) = b /\ Len(rest) = r
        BY <2>2, <3>3
      <4>2. e + p + (b + r) = e + p + r + b /\ b + r = r + b
        OBVIOUS
      <4>3. /\ Len(queue') = r /\ Len(drain'.held) = b /\ Held' = b
            /\ stats'.queuedBytes = b + r /\ e + p + (b + r) = offered' + doubled'
        BY <3>1, <3>2, <4>1
      <4> QED
        BY <4>1, <4>2, <4>3
    <3> QED
      BY <3>4 DEF EventsAccounted
  <2> QED
    BY <2>4, <2>5, <2>6 DEF QueueInv
<1> QED
  BY <1>2, <1>3

-----------------------------------------------------------------------------
LEMMA QueueFacts ==
  ASSUME QueueInv
  PROVE  /\ queue \in Seq(Generations) /\ Len(queue) \in Nat
         /\ drain \in Drain /\ Len(drain.held) \in Nat /\ drain.held \in Seq(Generations)
         /\ stats \in Stats /\ stats.queuedBytes \in Nat /\ stats.exported \in Nat
         /\ stats.dropped \in Nat /\ offered \in Nat /\ doubled \in Nat
         /\ stats.queuedBytes = Len(queue) + Len(drain.held)
         /\ stats.exported + stats.dropped + Len(queue) + Held = offered + doubled
         /\ drain.at \in {"idle", "resetting"} => Len(drain.held) = 0
  BY LenProperties, StatsFacts, DrainFacts, NothingUnder
  DEF QueueInv, QueueTypes, Resting, EventsAccounted

\* The same as numbers: waiting, held, to be counted, exported, dropped, and in all.
LEMMA Numbers ==
  ASSUME QueueInv
  PROVE  \E l, h, w, e, d, t \in Nat :
           /\ l = Len(queue) /\ h = Len(drain.held) /\ w = Held
           /\ e = stats.exported /\ d = stats.dropped /\ t = offered + doubled
           /\ stats.queuedBytes = l + h /\ e + d + l + w = t
<1>1. Held \in Nat /\ offered + doubled \in Nat
  BY QueueFacts DEF Held
<1> QED
  BY <1>1, QueueFacts

LEMMA EnqueueStep ==
  ASSUME QueueInv, Enqueue PROVE QueueInv'
<1>0. /\ offered' = offered + 1 /\ UNCHANGED <<context, generation, resets, drain, doubled>>
      /\ Unanswered' /\ Resting' /\ Held' = Held
  BY DEF Enqueue, QueueInv, Unanswered, Resting, Held
<1>1. PICK l, h, w, e, d, t \in Nat :
        /\ l = Len(queue) /\ h = Len(drain.held) /\ w = Held
        /\ e = stats.exported /\ d = stats.dropped /\ t = offered + doubled
        /\ stats.queuedBytes = l + h /\ e + d + l + w = t
  BY Numbers
<1>2. offered' \in Nat /\ offered' + doubled' = t + 1
  <2>1. offered \in Nat /\ doubled \in Nat /\ t = offered + doubled
    BY <1>1, QueueFacts
  <2>2. (offered + 1) + doubled = t + 1 /\ offered + 1 \in Nat
    BY <2>1
  <2> QED
    BY <1>0, <2>2
<1>total. e + d + l + w = t
  BY <1>1
<1>3. CASE /\ context # NoContext /\ stats.queuedBytes + 1 <= Budget
           /\ queue' = Append(queue, context)
           /\ stats' = [stats EXCEPT !.queuedBytes = @ + 1]
  <2>1. context \in Generations
    BY <1>3 DEF QueueInv, QueueTypes
  <2>2. /\ queue' \in Seq(Generations) /\ Len(queue') = l + 1
        /\ \A i \in 1..l : queue'[i] = queue[i]
        /\ queue'[l + 1] = context
    BY <1>1, <1>3, <2>1, QueueFacts, AppendProperties
  <2>3. /\ stats' \in Stats /\ stats'.queuedBytes = (l + h) + 1 /\ stats'.queuedBytes <= Budget
        /\ stats'.exported = e /\ stats'.dropped = d
    <3>1. StatsAre(stats', stats.queuedBytes + 1, stats.exported, stats.dropped)
      BY <1>3, QueueFacts, StatsChange
    <3> QED
      BY <1>1, <1>3, <3>1 DEF StatsAre
  <2>4. Under(queue', context)
    <3> SUFFICES ASSUME NEW i \in 1..(l + 1) PROVE queue'[i] = context
      BY <2>2 DEF Under
    <3>1. i \in 1..l \/ i = l + 1
      OBVIOUS
    <3> QED
      BY <1>1, <2>2, <3>1 DEF QueueInv, InContext, Under
  <2>5. QueueTypes' /\ InContext' /\ WithinBudget'
    BY <1>0, <1>2, <2>2, <2>3, <2>4, QueueFacts
    DEF QueueInv, QueueTypes, InContext, WithinBudget
  <2>6. (l + h) + 1 = (l + 1) + h /\ e + d + (l + 1) + w = t + 1
    BY <1>total
  <2>7. EventsAccounted'
    BY <1>0, <1>1, <1>2, <2>2, <2>3, <2>6 DEF EventsAccounted
  <2> QED
    BY <1>0, <2>5, <2>7 DEF QueueInv
<1>4. CASE queue' = queue /\ stats' = [stats EXCEPT !.dropped = @ + 1]
  <2>1. /\ stats' \in Stats /\ stats'.queuedBytes = l + h
        /\ stats'.exported = e /\ stats'.dropped = d + 1
    <3>1. StatsAre(stats', stats.queuedBytes, stats.exported, stats.dropped + 1)
      BY <1>4, QueueFacts, StatsChange
    <3> QED
      BY <1>1, <3>1 DEF StatsAre
  <2>2. QueueTypes' /\ InContext' /\ WithinBudget'
    BY <1>0, <1>1, <1>2, <1>4, <2>1, QueueFacts
    DEF QueueInv, QueueTypes, InContext, WithinBudget
  <2>3. e + (d + 1) + l + w = t + 1
    BY <1>total
  <2>4. EventsAccounted'
    BY <1>0, <1>1, <1>2, <1>4, <2>1, <2>3 DEF EventsAccounted
  <2> QED
    BY <1>0, <2>2, <2>4 DEF QueueInv
<1> QED
  BY <1>3, <1>4 DEF Enqueue

\* The queue is dropped, the drain goes on as it was.
LEMMA DroppedStep ==
  ASSUME QueueInv, PageResets \/ Clear PROVE QueueInv'
<1>0. UNCHANGED <<drain, offered, doubled>> /\ stats.queuedBytes <= Budget /\ QueueTypes
      /\ Held' = Held
  BY DEF PageResets, Clear, QueueInv, WithinBudget, Held
<1>1. PICK l, h, w, e, d, t \in Nat :
        /\ l = Len(queue) /\ h = Len(drain.held) /\ w = Held
        /\ e = stats.exported /\ d = stats.dropped /\ t = offered + doubled
        /\ stats.queuedBytes = l + h /\ e + d + l + w = t
  BY Numbers
<1>2. stats.queuedBytes >= Len(queue) /\ stats.queuedBytes - Len(queue) = h
  BY <1>1
<1>3. /\ queue' = <<>> /\ Len(queue') = 0 /\ Under(queue', context')
      /\ context' \in Generations \cup {NoContext} /\ generation' \in Generations
      /\ resets' \subseteq Generations /\ Unanswered'
      /\ StatsAre(stats', h, e, d + l)
  <2>1. CASE PageResets
    <3>1. Reset(queue, stats)
      BY <2>1 DEF PageResets
    <3> QED
      BY <1>0, <1>1, <1>2, <3>1, ResetStep, QueueFacts, NothingUnder DEF Unanswered
  <2>2. CASE Clear
    <3>1. StatsAre(stats', h, e, d + l)
      BY <1>1, <1>2, <2>2, ClearedFacts, QueueFacts DEF Clear
    <3> QED
      BY <1>0, <2>2, <3>1, NothingUnder DEF Clear, QueueInv, QueueTypes, Unanswered
  <2> QED
    BY <2>1, <2>2
<1>4. QueueTypes'
  BY <1>0, <1>3, QueueFacts, NothingUnder DEF QueueTypes, StatsAre
<1>5. InContext' /\ Resting'
  BY <1>0, <1>3 DEF QueueInv, InContext, Resting
<1>6. h <= Budget /\ h = 0 + h /\ e + (d + l) + 0 + w = t
  BY <1>0, <1>1, QueueAssumption
<1>7. WithinBudget' /\ EventsAccounted'
  BY <1>0, <1>1, <1>3, <1>6 DEF WithinBudget, EventsAccounted, StatsAre
<1> QED
  BY <1>3, <1>4, <1>5, <1>7 DEF QueueInv

LEMMA AnswerStep ==
  ASSUME QueueInv, NEW g \in Generations, ResetAnswered(g) PROVE QueueInv'
<1>0. /\ UNCHANGED <<queue, generation, stats, offered, doubled>>
      /\ resets' = resets \ {g} /\ g \in resets /\ (context' = Adopted(g) \/ context' = context)
  BY DEF ResetAnswered
<1>1. drain' \in Drain /\ Len(drain'.held) = Len(drain.held) /\ Held' = Held
      /\ (drain'.at = "sending" => drain' = drain) /\ Resting'
  <2>1. CASE drain' = drain
    BY <2>1, QueueFacts DEF Held, QueueInv, Resting
  <2>2. CASE drain.at = "resetting" /\ drain' = DrainAtRest
    BY <2>2, AtRest, QueueFacts, NothingUnder DEF Held, Resting
  <2> QED
    BY <2>1, <2>2 DEF ResetAnswered, Freed
<1>2. context' = context \/ (g = generation /\ context = NoContext /\ context' = g)
  BY <1>0 DEF Adopted, QueueInv, Unanswered
<1>3. Unanswered' /\ context' \in Generations \cup {NoContext}
  BY <1>0, <1>2 DEF QueueInv, QueueTypes, Unanswered
<1>4. Under(queue', context')
  <2>1. CASE context' = context
    BY <1>0, <2>1 DEF QueueInv, InContext
  <2>2. CASE context = NoContext
    <3>1. \A i \in 1..Len(queue) : queue[i] \in Generations /\ queue[i] = NoContext
      BY <2>2, QueueFacts, ElementOfSeq DEF QueueInv, InContext, Under
    <3>2. NoContext \notin Generations
      BY QueueAssumption DEF Generations
    <3> QED
      BY <1>0, <3>1, <3>2 DEF Under
  <2> QED
    BY <1>2, <2>1, <2>2
<1>5. QueueTypes'
  BY <1>0, <1>1, <1>3 DEF QueueInv, QueueTypes
<1>6. InContext' /\ WithinBudget' /\ EventsAccounted'
  BY <1>0, <1>1, <1>4 DEF QueueInv, InContext, WithinBudget, EventsAccounted
<1> QED
  BY <1>1, <1>3, <1>5, <1>6 DEF QueueInv

\* The batch that was sent is counted as the answer says.
LEMMA BatchStep ==
  ASSUME QueueInv, NEW answer \in {"ok", "refused", "conflict"}, BatchAnswered(answer)
  PROVE  QueueInv'
<1> DEFINE counted == IF drain.gen = generation THEN answer ELSE "refused"
           conflict == answer = "conflict" /\ drain.gen = generation
<1>0. PICK l, h, w, e, d, t \in Nat :
        /\ l = Len(queue) /\ h = Len(drain.held) /\ w = Held
        /\ e = stats.exported /\ d = stats.dropped /\ t = offered + doubled
        /\ stats.queuedBytes = l + h /\ e + d + l + w = t
  BY Numbers
<1>1. /\ drain.at = "sending" /\ UNCHANGED <<generation, resets, offered, doubled>>
      /\ stats' = Counted(counted, stats, h) /\ drain' = [drain EXCEPT !.at = "cancelling"]
      /\ queue' = (IF conflict THEN <<>> ELSE queue)
      /\ context' = (IF conflict THEN NoContext ELSE context)
  BY <1>0 DEF BatchAnswered
<1>2. drain' \in Drain /\ drain'.at = "cancelling" /\ drain'.held = drain.held
  BY <1>1, QueueFacts DEF Drain, DrainStages
<1>3. w = h /\ Held' = 0
  BY <1>0, <1>1, <1>2 DEF Held
<1>4. /\ queue' \in Seq(Generations) /\ Under(queue', context') /\ Unanswered'
      /\ context' \in Generations \cup {NoContext}
  BY <1>1, QueueFacts, NothingUnder DEF QueueInv, QueueTypes, InContext, Unanswered
<1>5. l + h <= Budget
  BY <1>0 DEF QueueInv, WithinBudget
<1>total. e + d + l + h = t
  BY <1>0, <1>3
<1>6. \E m, x, y \in Nat : /\ stats' \in Stats /\ Len(queue') = m /\ stats'.queuedBytes = m + h
                           /\ stats'.exported = x /\ stats'.dropped = y
                           /\ m + h <= Budget /\ x + y + m + 0 = t
  <2>1. CASE counted = "ok"
    <3>1. queue' = queue /\ stats' = [stats EXCEPT !.exported = @ + h]
      BY <1>1, <2>1 DEF Counted
    <3>2. StatsAre(stats', l + h, e + h, d)
      BY <1>0, <3>1, QueueFacts, StatsChange
    <3>3. (e + h) + d + l + 0 = t /\ e + h \in Nat
      BY <1>total
    <3>4. Len(queue') = l
      BY <1>0, <3>1
    <3> QED
      BY <1>5, <3>2, <3>3, <3>4 DEF StatsAre
  <2>2. CASE counted = "refused"
    <3>1. queue' = queue /\ stats' = [stats EXCEPT !.dropped = @ + h]
      BY <1>1, <2>2 DEF Counted
    <3>2. StatsAre(stats', l + h, e, d + h)
      BY <1>0, <3>1, QueueFacts, StatsChange
    <3>3. e + (d + h) + l + 0 = t /\ d + h \in Nat
      BY <1>total
    <3>4. Len(queue') = l
      BY <1>0, <3>1
    <3> QED
      BY <1>5, <3>2, <3>3, <3>4 DEF StatsAre
  <2>3. CASE counted = "conflict"
    <3>1. PICK s : s = Cleared(stats, queue)
      OBVIOUS
    <3>2. queue' = <<>> /\ stats' = [s EXCEPT !.dropped = @ + h]
      BY <1>1, <2>3, <3>1 DEF Counted
    <3>3. (l + h) - l = h /\ stats.queuedBytes >= Len(queue)
      BY <1>0
    <3>4. StatsAre(s, h, e, d + l)
      BY <1>0, <3>1, <3>3, ClearedFacts, QueueFacts
    <3>5. StatsAre(stats', h, e, (d + l) + h)
      <4>1. s \in Stats /\ s.queuedBytes = h /\ s.exported = e /\ s.dropped = d + l
        BY <3>4 DEF StatsAre
      <4>2. StatsAre(stats', s.queuedBytes, s.exported, s.dropped + h)
        BY <3>2, <4>1, StatsChange
      <4> QED
        BY <4>1, <4>2
    <3>6. e + ((d + l) + h) + 0 + 0 = t /\ 0 + h = h /\ 0 + h <= Budget /\ (d + l) + h \in Nat
      BY <1>5, <1>total, QueueAssumption
    <3> QED
      BY <3>2, <3>5, <3>6, NothingUnder DEF StatsAre
  <2> QED
    BY <2>1, <2>2, <2>3
<1>7. QueueTypes'
  BY <1>1, <1>2, <1>4, <1>6 DEF QueueInv, QueueTypes
<1>8. InContext' /\ Resting' /\ WithinBudget'
  BY <1>2, <1>4, <1>6 DEF InContext, Resting, WithinBudget
<1>9. EventsAccounted'
  BY <1>0, <1>1, <1>2, <1>3, <1>6 DEF EventsAccounted
<1> QED
  BY <1>4, <1>7, <1>8, <1>9 DEF QueueInv

\* The batch is over, whatever came of it: its bytes are given back, and what was not
\* counted yet is counted as dropped.
LEMMA RoundStep ==
  ASSUME QueueInv, BatchFails \/ BodyCancelled \/ CancelThrows PROVE QueueInv'
<1> DEFINE q == [drain EXCEPT !.held = <<>>, !.wire = NoContext]
<1>0. PICK l, h, w, e, d, t \in Nat :
        /\ l = Len(queue) /\ h = Len(drain.held) /\ w = Held
        /\ e = stats.exported /\ d = stats.dropped /\ t = offered + doubled
        /\ stats.queuedBytes = l + h /\ e + d + l + w = t
  BY Numbers
<1>1. q \in Drain /\ q.held = <<>>
  BY QueueFacts, NothingUnder DEF Drain
<1>2. ASSUME NEW m \in Nat, NextRound(m), offered' \in Nat, doubled' \in Nat,
             offered' + doubled' = e + (d + m) + l
      PROVE  QueueInv'
  <2>1. PICK s : s = Released(m)
    OBVIOUS
  <2>2. l + h <= Budget /\ (l + h) - h = l /\ l + h >= h /\ l <= Budget
    <3>1. l + h <= Budget
      BY <1>0 DEF QueueInv, WithinBudget
    <3> QED
      BY <3>1, QueueAssumption
  <2>3. StatsAre(s, l, e, d + m)
    <3>1. s = [stats EXCEPT !.dropped = @ + m, !.queuedBytes = @ - h]
      BY <1>0, <2>1 DEF Released
    <3> QED
      BY <1>0, <2>2, <3>1, QueueFacts, StatsChange
  <2>4. Books(queue, s)
    BY <1>0, <1>2, <2>2, <2>3 DEF Books, StatsAre
  <2>5. Continue(q, queue, context, s)
    BY <1>2, <2>1 DEF NextRound
  <2> HIDE DEF q
  <2> QED
    BY <1>1, <1>2, <2>4, <2>5, ContinueStep DEF QueueInv, InContext
<1> HIDE DEF q
<1>3. offered \in Nat /\ doubled \in Nat /\ t = offered + doubled
  BY <1>0, QueueFacts
<1>total. e + d + l + w = t
  BY <1>0
<1>4. CASE BatchFails
  <2>1. NextRound(h) /\ w = h /\ UNCHANGED <<offered, doubled>>
    BY <1>0, <1>4 DEF BatchFails, Held
  <2>2. t = e + (d + h) + l
    BY <1>total, <2>1
  <2> QED
    BY <1>0, <1>2, <1>3, <2>1, <2>2
<1>5. CASE BodyCancelled
  <2>1. NextRound(0) /\ w = 0 /\ UNCHANGED <<offered, doubled>>
    BY <1>0, <1>5 DEF BodyCancelled, Held
  <2>2. t = e + (d + 0) + l
    BY <1>total, <2>1
  <2> QED
    BY <1>0, <1>2, <1>3, <2>1, <2>2
<1>6. CASE CancelThrows
  <2>1. NextRound(h) /\ w = 0 /\ offered' = offered /\ doubled' = doubled + h
    BY <1>0, <1>6 DEF CancelThrows, Held
  <2>2. t + h = e + (d + h) + l
    <3>1. w = 0
      BY <2>1
    <3> QED
      BY <1>total, <3>1
  <2>3. offered' + doubled' = t + h /\ doubled' \in Nat
    <3>1. offered + (doubled + h) = t + h /\ doubled + h \in Nat
      BY <1>3
    <3> QED
      BY <2>1, <3>1
  <2> QED
    BY <1>0, <1>2, <1>3, <2>1, <2>2, <2>3
<1> QED
  BY <1>4, <1>5, <1>6

LEMMA FlushStep == ASSUME QueueInv, Flush PROVE QueueInv'
<1>1. PICK d : d = [DrainAtRest EXCEPT !.gen = generation]
  OBVIOUS
<1>2. d \in Drain /\ d.held = <<>>
  <2>1. generation \in 0..MaxResets
    BY DEF QueueInv, QueueTypes, Generations
  <2> QED
    BY <1>1, <2>1, AtRest
<1>3. Books(queue, stats) /\ offered' \in Nat /\ doubled' \in Nat
  <2>1. Held = 0 /\ Len(drain.held) = 0 /\ offered' = offered /\ doubled' = doubled
    BY QueueFacts DEF Flush, Held
  <2> QED
    BY <2>1, QueueFacts DEF Books, QueueInv, WithinBudget
<1> QED
  BY <1>1, <1>2, <1>3, ContinueStep DEF Flush, QueueInv, InContext

LEMMA TimeOutStep == ASSUME QueueInv, SignalTimesOut PROVE QueueInv'
<1>1. /\ drain' \in Drain /\ drain'.at = drain.at /\ drain'.held = drain.held
      /\ drain'.wire = drain.wire
      /\ UNCHANGED <<queue, context, generation, resets, stats, offered, doubled>>
  BY QueueFacts DEF SignalTimesOut, Drain
<1> QED
  BY <1>1 DEF QueueInv, QueueTypes, Unanswered, InContext, Resting, WithinBudget,
              EventsAccounted, Held

LEMMA QueueStep == QueueInv /\ [QueueNext]_queueVars => QueueInv'
<1> SUFFICES ASSUME QueueInv, [QueueNext]_queueVars PROVE QueueInv'
  OBVIOUS
<1>1. CASE UNCHANGED queueVars
  BY <1>1 DEF queueVars, QueueInv, QueueTypes, Unanswered, InContext, Resting, WithinBudget,
              EventsAccounted, Held
<1> QED
  BY <1>1, EnqueueStep, DroppedStep, AnswerStep, BatchStep, RoundStep, FlushStep, TimeOutStep
  DEF QueueNext, Generations

\* The queue keeps its types and its budget (createBrowserQueue).
THEOREM QueueTypesHold == QueueSpec => []QueueTypeOK
<1>1. QueueInv => QueueTypeOK
  <2> SUFFICES ASSUME QueueInv PROVE QueueTypeOK
    OBVIOUS
  <2>1. stats.queuedBytes <= Budget
    BY DEF QueueInv, WithinBudget
  <2>2. Len(queue) <= Budget /\ stats.queuedBytes \in 0..Budget
    BY <2>1, QueueFacts, QueueAssumption
  <2>3. stats \in [queuedBytes : 0..Budget, exported : Nat, dropped : Nat]
    BY <2>2, QueueFacts DEF Stats
  <2> QED
    BY <2>2, <2>3, QueueFacts, DrainFacts DEF QueueInv, QueueTypes, QueueTypeOK, Generations, DrainStages
<1> QED
  BY <1>1, QueueInitInv, QueueStep, PTL DEF QueueSpec

\* Every event given to the queue is counted once, as exported, dropped or waiting, but
\* for the batches whose response body failed to cancel; and the budget is what waits
\* and what is on its way (createBrowserQueue, ExportStats).
THEOREM EveryEventAccounted == QueueSpec => []EventsAccounted
<1>1. QueueInv => EventsAccounted
  BY DEF QueueInv
<1> QED
  BY <1>1, QueueInitInv, QueueStep, PTL DEF QueueSpec

\* A batch carries the context its events were recorded in: a reset empties the queue,
\* and the answer to an older generation is not adopted (createBrowserQueue.resetContext).
THEOREM BatchesSentInContext == QueueSpec => []SentInContext
<1>1. QueueInv => SentInContext
  <2> SUFFICES ASSUME QueueInv, drain.at = "sending", NEW i \in DOMAIN drain.held
               PROVE  drain.held[i] = drain.wire
    BY DEF SentInContext
  <2>1. i \in 1..Len(drain.held)
    BY QueueFacts, LenProperties
  <2> QED
    BY <2>1 DEF QueueInv, InContext, Under
<1> QED
  BY <1>1, QueueInitInv, QueueStep, PTL DEF QueueSpec

-----------------------------------------------------------------------------
(* The line: BrowserQueue implements EventLine.                            *)

\* The context, if there is one, is the present generation's, and so is the one a
\* drain of this generation sends; a batch is no larger than the limit.
LineInv ==
  /\ context \in {NoContext, generation}
  /\ drain.gen <= generation
  /\ drain.at = "sending" =>
       /\ Len(drain.held) <= BatchMax
       /\ drain.gen = generation => drain.wire = generation

LEMMA LineInvInit == QueueInit => LineInv
<1> SUFFICES ASSUME QueueInit PROVE LineInv
  OBVIOUS
<1>1. drain.at = "idle" /\ drain.gen = 0
  BY DEF QueueInit, DrainAtRest
<1> QED
  BY <1>1 DEF QueueInit, LineInv

\* The sequences.
LEMMA Joined ==
  ASSUME NEW G, NEW h \in Seq(G), NEW q \in Seq(G)
  PROVE  /\ h \o q \in Seq(G) /\ Len(h \o q) = Len(h) + Len(q)
         /\ \A i \in 1..Len(h) : (h \o q)[i] = h[i]
         /\ SubSeq(h \o q, Len(h) + 1, Len(h \o q)) = q
         /\ SubSeq(h \o q, 1, Len(h)) = h
<1>1. PICK l, m \in Nat : l = Len(h) /\ m = Len(q)
  BY LenProperties
<1>2. /\ h \o q \in Seq(G) /\ Len(h \o q) = l + m
      /\ \A i \in 1..(l + m) : (h \o q)[i] = IF i <= l THEN h[i] ELSE q[i - l]
  BY <1>1, ConcatProperties
<1>3. \A i \in 1..l : i \in 1..(l + m) /\ i <= l
  OBVIOUS
<1>4. \A i \in 1..l : (h \o q)[i] = h[i]
  BY <1>2, <1>3
<1>5. SubSeq(h \o q, l + 1, l + m) = q
  <2>1. CASE m = 0
    <3>1. q = <<>>
      BY <1>1, <2>1, EmptySeq
    <3>2. l + m < l + 1 /\ l + m \in Int /\ l + 1 \in Int
      BY <2>1
    <3> QED
      BY <3>1, <3>2, SubSeqEmpty
  <2>2. CASE m # 0
    <3>1. l + 1 \in Len(h) + 1 .. Len(h) + Len(q) /\ l + m \in Len(h) + 1 .. Len(h) + Len(q)
      BY <1>1, <2>2
    <3>2. SubSeq(h \o q, l + 1, l + m) = SubSeq(q, (l + 1) - Len(h), (l + m) - Len(h))
      BY <3>1, SubSeqOfConcat2
    <3>3. (l + 1) - Len(h) = 1 /\ (l + m) - Len(h) = Len(q)
      BY <1>1
    <3> QED
      BY <3>2, <3>3, SubSeqFull
  <2> QED
    BY <2>1, <2>2
<1>7. SubSeq(h \o q, 1, l) = h
  <2>1. CASE l = 0
    <3>1. h = <<>>
      BY <1>1, <2>1, EmptySeq
    <3> QED
      BY <2>1, <3>1, SubSeqEmpty
  <2>2. CASE l # 0
    <3>1. l \in 1..Len(h) /\ 1 \in 1..Len(h)
      BY <1>1, <2>2
    <3> QED
      BY <1>1, <3>1, SubSeqOfConcat1, SubSeqFull
  <2> QED
    BY <2>1, <2>2
<1> QED
  BY <1>1, <1>2, <1>4, <1>5, <1>7

LEMMA LineFacts ==
  ASSUME QueueInv
  PROVE  /\ Line \in Seq(Generations) /\ Len(Line) \in Nat
         /\ drain.at = "sending" => /\ Line = drain.held \o queue
                                    /\ Len(Line) = Len(drain.held) + Len(queue)
                                    /\ Page!After(Len(drain.held)) = queue
                                    /\ SubSeq(Line, 1, Len(drain.held)) = drain.held
                                    /\ \A i \in 1..Len(drain.held) : Line[i] = drain.wire
         /\ drain.at # "sending" => Line = queue
         /\ SubSeq(Line, 1, 0) = <<>>
<1>1. /\ queue \in Seq(Generations) /\ drain.held \in Seq(Generations)
  BY QueueFacts
<1>2. CASE drain.at = "sending"
  <2>1. Line = drain.held \o queue
    BY <1>2 DEF Line
  <2>2. \A i \in 1..Len(drain.held) : drain.held[i] = drain.wire
    BY <1>2 DEF QueueInv, InContext, Under
  <2> QED
    <3>1. /\ Line \in Seq(Generations) /\ Len(Line) = Len(drain.held) + Len(queue)
          /\ \A i \in 1..Len(drain.held) : Line[i] = drain.held[i]
          /\ SubSeq(Line, Len(drain.held) + 1, Len(Line)) = queue
          /\ SubSeq(Line, 1, Len(drain.held)) = drain.held
      <4>1. PICK h, q \in Seq(Generations) : h = drain.held /\ q = queue
        BY <1>1
      <4>2. /\ h \o q \in Seq(Generations) /\ Len(h \o q) = Len(h) + Len(q)
            /\ \A i \in 1..Len(h) : (h \o q)[i] = h[i]
            /\ SubSeq(h \o q, Len(h) + 1, Len(h \o q)) = q
            /\ SubSeq(h \o q, 1, Len(h)) = h
        BY Joined
      <4> QED
        BY <2>1, <4>1, <4>2
    <3>2. Len(Line) \in Nat /\ SubSeq(Line, 1, 0) = <<>>
      BY <3>1, LenProperties, SubSeqEmpty
    <3> QED
      BY <1>2, <2>1, <2>2, <3>1, <3>2 DEF Page!After
<1>3. CASE drain.at # "sending"
  BY <1>1, <1>3, LenProperties, SubSeqEmpty DEF Line
<1> QED
  BY <1>2, <1>3

\* A batch and what waits behind it are the queue they were taken from.
LEMMA TakenFromQueue ==
  ASSUME NEW q \in Seq(Generations), q # <<>>
  PROVE  LET n == IF Len(q) < BatchMax THEN Len(q) ELSE BatchMax
         IN  /\ SubSeq(q, 1, n) \o SubSeq(q, n + 1, Len(q)) = q
             /\ Len(SubSeq(q, 1, n)) <= BatchMax
<1> DEFINE n == IF Len(q) < BatchMax THEN Len(q) ELSE BatchMax
<1>1. Len(q) \in Nat \ {0} /\ \A i \in 1..Len(q) : q[i] \in Generations
  BY EmptySeq, ElementOfSeq
<1>2. n \in 1..Len(q) /\ n <= BatchMax
  BY <1>1, QueueAssumption
<1> HIDE DEF n
<1>3. SubSeq(q, 1, n) \o SubSeq(q, n + 1, Len(q)) = SubSeq(q, 1, Len(q))
  <2>1. 1 \in 1..(Len(q) + 1) /\ n \in (1 - 1)..Len(q) /\ Len(q) \in n..Len(q)
    BY <1>1, <1>2
  <2> QED
    BY <2>1, ConcatAdjacentSubSeq
<1>4. Len(SubSeq(q, 1, n)) = n
  <2>1. \A i \in 1..n : q[i] \in Generations
    BY <1>1, <1>2
  <2>2. Len(SubSeq(q, 1, n)) = (IF 1 <= n THEN n - 1 + 1 ELSE 0)
    BY <1>2, <2>1, SubSeqProperties
  <2> QED
    BY <1>2, <2>2
<1> QED
  BY <1>2, <1>3, <1>4, SubSeqFull DEF n

\* The next round of a drain that holds nothing leaves what waits in line, or
\* nothing of it, in this generation or the next.
LEMMA ContinueLine ==
  ASSUME QueueInv, LineInv, NEW d \in Drain, d.gen <= generation, NEW s \in Stats,
         Continue(d, queue, context, s)
  PROVE  /\ LineInv' /\ stats'.exported = s.exported
         /\ \/ generation' = generation /\ Line' \in {queue, <<>>}
            \/ generation' = generation + 1 /\ Line' = <<>>
<1>0. /\ queue \in Seq(Generations) /\ s.exported \in Nat /\ generation \in Nat
      /\ d.gen \in Nat
  BY QueueFacts, StatsFacts, DrainFacts, QueueAssumption
     DEF QueueInv, QueueTypes, Generations
<1>1. Cleared(s, queue).exported = s.exported
  BY DEF Cleared, Stats
<1>2. CASE LeaveLoop(d, queue, context, s)
  <2>1. CASE drain' = DrainAtRest /\ context' = context /\ generation' = generation
             /\ \/ queue' = queue /\ stats' = s
                \/ queue' = <<>> /\ stats' = Cleared(s, queue)
    <3>1. drain'.at = "idle" /\ drain'.gen = 0
      BY <2>1 DEF DrainAtRest
    <3>2. LineInv'
      BY <1>0, <2>1, <3>1 DEF LineInv
    <3>3. Line' = queue'
      BY <3>1 DEF Line
    <3> QED
      BY <1>1, <2>1, <3>2, <3>3
  <2>2. CASE /\ Reset(queue, s)
             /\ drain' = [DrainAtRest EXCEPT !.at = "resetting", !.gen = generation + 1]
    <3>1. drain'.at = "resetting" /\ drain'.gen = generation + 1
      BY <2>2 DEF DrainAtRest
    <3>2. /\ generation' = generation + 1 /\ context' = NoContext /\ queue' = <<>>
          /\ stats' = Cleared(s, queue)
      BY <2>2 DEF Reset
    <3>3. LineInv' /\ Line' = <<>>
      BY <1>0, <3>1, <3>2 DEF LineInv, Line
    <3> QED
      BY <1>1, <3>2, <3>3
  <2> QED
    BY <1>2, <2>1, <2>2 DEF LeaveLoop
<1>3. CASE ~LeaveLoop(d, queue, context, s)
  <2> DEFINE n == IF Len(queue) < BatchMax THEN Len(queue) ELSE BatchMax
             batch == SubSeq(queue, 1, n)
             rest == SubSeq(queue, n + 1, Len(queue))
  <2>1. /\ queue # <<>> /\ context # NoContext /\ d.gen = generation
        /\ drain' = [d EXCEPT !.at = "sending", !.held = batch, !.wire = context]
        /\ queue' = rest /\ stats' = s /\ context' = context /\ generation' = generation
    BY <1>3 DEF Continue
  <2>2. batch \o rest = queue /\ Len(batch) <= BatchMax
    BY <1>0, <2>1, TakenFromQueue
  <2> HIDE DEF batch, rest
  <2>3. /\ drain'.at = "sending" /\ drain'.held = batch /\ drain'.wire = context
        /\ drain'.gen = generation
    BY <2>1 DEF Drain
  <2>4. LineInv'
    BY <1>0, <2>1, <2>2, <2>3 DEF LineInv
  <2>5. Line' = queue
    BY <2>1, <2>2, <2>3 DEF Line
  <2> QED
    BY <2>1, <2>4, <2>5
<1> QED
  BY <1>2, <1>3

\* A round from a line whose first n events are gone: they and maybe the rest are
\* lost, or the generation is over.
LEMMA RoundLine ==
  ASSUME QueueInv, NEW n \in 0..BatchMax, n <= Len(Line), Page!After(n) = queue,
         stats'.exported = stats.exported,
         \/ generation' = generation /\ Line' \in {queue, <<>>}
         \/ generation' = generation + 1 /\ Line' = <<>>
  PROVE  Page!LineNext
<1>1. CASE generation' = generation /\ Line' = queue
  BY <1>1 DEF Page!LineNext, Page!Lose
<1>2. CASE generation' = generation /\ Line' = <<>>
  BY <1>2 DEF Page!LineNext, Page!LoseAll
<1>3. CASE generation' = generation + 1 /\ Line' = <<>>
  <2>1. 0 \in 0..BatchMax /\ 0 <= Len(Line)
    BY LineFacts, QueueAssumption
  <2>2. Page!Renew(0)
    BY <1>3, LineFacts DEF Page!Renew
  <2> QED
    BY <2>1, <2>2 DEF Page!LineNext
<1> QED
  BY <1>1, <1>2, <1>3

LineStepped == LineInv' /\ [Page!LineNext]_(Page!lineVars)

LEMMA RecordLine == ASSUME QueueInv, LineInv, Enqueue PROVE LineStepped
<1>1. /\ UNCHANGED <<context, generation, drain>> /\ stats'.exported = stats.exported
      /\ \/ /\ context # NoContext /\ stats.queuedBytes + 1 <= Budget
            /\ queue' = Append(queue, context)
         \/ queue' = queue
  BY QueueFacts DEF Enqueue, Stats
<1>2. LineInv'
  BY <1>1 DEF LineInv
<1>3. CASE queue' = queue
  BY <1>1, <1>2, <1>3 DEF LineStepped, Page!lineVars, Line
<1>4. CASE /\ context # NoContext /\ stats.queuedBytes + 1 <= Budget
           /\ queue' = Append(queue, context)
  <2>1. context = generation /\ generation \in Generations
    BY <1>4 DEF LineInv, QueueInv, QueueTypes
  <2>2. queue' = queue \o <<generation>> /\ <<generation>> \in Seq(Generations)
    BY <1>4, <2>1, QueueFacts, AppendIsConcat
  <2>3. Line' = Append(Line, generation)
    <3>1. Append(Line, generation) = Line \o <<generation>>
      BY <2>1, LineFacts, AppendIsConcat
    <3>2. CASE drain.at = "sending"
      <4>1. PICK h, q, t \in Seq(Generations) :
              h = drain.held /\ q = queue /\ t = <<generation>>
        BY <2>2, QueueFacts
      <4>2. (h \o q) \o t = h \o (q \o t)
        BY ConcatAssociative
      <4>3. Line = drain.held \o queue /\ Line' = drain.held \o queue'
        BY <1>1, <3>2 DEF Line
      <4> QED
        BY <2>2, <3>1, <4>1, <4>2, <4>3
    <3>3. CASE drain.at # "sending"
      BY <1>1, <2>2, <3>1, <3>3 DEF Line
    <3> QED
      BY <3>2, <3>3
  <2>4. Len(Line) < Budget
    <3>1. PICK l, h \in Nat : l = Len(queue) /\ h = Len(drain.held)
                              /\ stats.queuedBytes = l + h
      BY QueueFacts
    <3>2. (l + h) + 1 <= Budget
      BY <1>4, <3>1
    <3>3. Len(Line) \in {l + h, l}
      BY <3>1, LineFacts
    <3>4. \A x \in {l + h, l} : x < Budget
      BY <3>2, QueueAssumption
    <3> QED
      BY <3>3, <3>4
  <2>5. Page!Record
    BY <1>1, <2>3, <2>4 DEF Page!Record
  <2> QED
    BY <1>2, <2>5 DEF LineStepped, Page!LineNext
<1> QED
  BY <1>1, <1>3, <1>4

LEMMA ResetLine == ASSUME QueueInv, LineInv, PageResets PROVE LineStepped
<1>1. /\ queue' = <<>> /\ context' = NoContext /\ generation' = generation + 1
      /\ drain' = drain /\ stats'.exported = stats.exported
  <2>1. Cleared(stats, queue).exported = stats.exported
    BY QueueFacts DEF Cleared, Stats
  <2> QED
    BY <2>1 DEF PageResets, Reset
<1>2. generation \in Nat /\ drain.gen \in Nat
  BY QueueFacts, DrainFacts, QueueAssumption DEF QueueInv, QueueTypes, Generations
<1>3. LineInv'
  <2>1. drain.gen <= generation + 1 /\ drain.gen # generation + 1
    BY <1>2 DEF LineInv
  <2> QED
    BY <1>1, <2>1 DEF LineInv
<1>4. CASE drain.at = "sending"
  <2>1. Line' = drain.held
    BY <1>1, <1>4, QueueFacts, ConcatEmptySeq DEF Line
  <2>2. Page!Renew(Len(drain.held))
    BY <1>1, <1>4, <2>1, LineFacts DEF Page!Renew
  <2>3. Len(drain.held) \in 0..BatchMax /\ Len(drain.held) <= Len(Line)
    <3>1. PICK l, h \in Nat : l = Len(queue) /\ h = Len(drain.held) /\ Len(Line) = h + l
      BY <1>4, QueueFacts, LineFacts
    <3>2. h <= h + l /\ h <= BatchMax
      BY <1>4, <3>1 DEF LineInv
    <3> QED
      BY <3>1, <3>2, QueueAssumption
  <2> QED
    BY <1>3, <2>2, <2>3 DEF LineStepped, Page!LineNext
<1>5. CASE drain.at # "sending"
  <2>1. Line' = <<>>
    BY <1>1, <1>5 DEF Line
  <2>2. 0 \in 0..BatchMax /\ 0 <= Len(Line)
    BY LineFacts, QueueAssumption
  <2>3. Page!Renew(0)
    BY <1>1, <2>1, LineFacts DEF Page!Renew
  <2> QED
    BY <1>3, <2>2, <2>3 DEF LineStepped, Page!LineNext
<1> QED
  BY <1>4, <1>5

LEMMA ClearLine == ASSUME QueueInv, LineInv, Clear PROVE LineStepped
<1>1. /\ queue' = <<>> /\ drain.at = "idle" /\ UNCHANGED <<context, generation, drain>>
      /\ stats'.exported = stats.exported
  BY QueueFacts DEF Clear, Cleared, Stats
<1>2. LineInv'
  BY <1>1 DEF LineInv
<1>3. Page!LoseAll
  BY <1>1 DEF Page!LoseAll, Line
<1> QED
  BY <1>2, <1>3 DEF LineStepped, Page!LineNext

LEMMA AnswerLine ==
  ASSUME QueueInv, LineInv, NEW g \in Generations, ResetAnswered(g) PROVE LineStepped
<1>1. UNCHANGED <<queue, generation, stats>> /\ (context' = context \/ context' = Adopted(g))
  BY DEF ResetAnswered
<1>2. context' \in {NoContext, generation}
  BY <1>1 DEF Adopted, LineInv
<1>3. drain' = drain \/ (drain.at = "resetting" /\ drain' = DrainAtRest)
  BY DEF ResetAnswered, Freed
<1>4. LineInv' /\ Line' = Line
  <2>1. CASE drain' = drain
    BY <1>1, <1>2, <2>1 DEF LineInv, Line
  <2>2. CASE drain.at = "resetting" /\ drain' = DrainAtRest
    <3>1. drain'.at = "idle" /\ drain'.gen = 0 /\ generation \in Nat
      BY <2>2, QueueAssumption DEF DrainAtRest, QueueInv, QueueTypes, Generations
    <3> QED
      BY <1>1, <1>2, <2>2, <3>1 DEF LineInv, Line
  <2> QED
    BY <1>3, <2>1, <2>2
<1> QED
  BY <1>1, <1>4 DEF LineStepped, Page!lineVars

LEMMA BatchLine ==
  ASSUME QueueInv, LineInv, NEW answer \in {"ok", "refused", "conflict"}, BatchAnswered(answer)
  PROVE  LineStepped
<1> DEFINE counted == IF drain.gen = generation THEN answer ELSE "refused"
           conflict == answer = "conflict" /\ drain.gen = generation
<1>1. /\ drain.at = "sending" /\ generation' = generation
      /\ stats' = Counted(counted, stats, Len(drain.held))
      /\ drain' = [drain EXCEPT !.at = "cancelling"]
      /\ queue' = (IF conflict THEN <<>> ELSE queue)
      /\ context' = (IF conflict THEN NoContext ELSE context)
  BY DEF BatchAnswered
<1>2. drain'.at = "cancelling" /\ drain'.gen = drain.gen
  BY <1>1, QueueFacts DEF Drain
<1>3. LineInv' /\ Line' = queue'
  BY <1>1, <1>2 DEF LineInv, Line
<1>4. PICK h, l \in Nat : h = Len(drain.held) /\ l = Len(queue) /\ Len(Line) = h + l
  BY <1>1, QueueFacts, LineFacts
<1>5. h \in 0..BatchMax /\ h <= Len(Line)
  <2>1. h <= BatchMax
    BY <1>1, <1>4 DEF LineInv
  <2> QED
    BY <1>4, <2>1, QueueAssumption
<1>6. Page!After(h) = queue
  BY <1>1, <1>4, LineFacts
<1>7. stats \in Stats /\ stats.exported \in Nat
  BY QueueFacts
<1>8. CASE counted = "ok"
  <2>1. drain.gen = generation /\ ~conflict
    BY <1>8
  <2>2. stats'.exported = stats.exported + h
    <3>1. stats' = [stats EXCEPT !.exported = @ + h]
      BY <1>1, <1>4, <1>8 DEF Counted
    <3> QED
      BY <1>7, <3>1 DEF Stats
  <2>3. \A i \in 1..h : Line[i] = generation
    BY <1>1, <1>4, <2>1, LineFacts DEF LineInv
  <2>4. Page!Export(h)
    BY <1>1, <1>3, <1>6, <2>1, <2>2, <2>3 DEF Page!Export
  <2> QED
    BY <1>3, <1>5, <2>4 DEF LineStepped, Page!LineNext
<1>9. CASE counted = "refused"
  <2>1. ~conflict
    BY <1>9
  <2>2. stats'.exported = stats.exported
    <3>1. stats' = [stats EXCEPT !.dropped = @ + h]
      BY <1>1, <1>4, <1>9 DEF Counted
    <3> QED
      BY <1>7, <3>1 DEF Stats
  <2>3. Page!Lose(h)
    BY <1>1, <1>3, <1>6, <2>1, <2>2 DEF Page!Lose
  <2> QED
    BY <1>3, <1>5, <2>3 DEF LineStepped, Page!LineNext
<1>10. CASE counted = "conflict"
  <2>1. conflict
    BY <1>10
  <2>2. stats'.exported = stats.exported
    <3>1. PICK s : s = Cleared(stats, queue)
      OBVIOUS
    <3>2. s \in Stats /\ s.exported = stats.exported
      <4>1. stats.queuedBytes >= Len(queue)
        BY QueueFacts
      <4> QED
        BY <3>1, <4>1, QueueFacts, ClearedFacts DEF StatsAre
    <3>3. stats' = [s EXCEPT !.dropped = @ + h]
      BY <1>1, <1>4, <1>10, <3>1 DEF Counted
    <3> QED
      BY <3>2, <3>3 DEF Stats
  <2>3. Page!LoseAll
    BY <1>1, <1>3, <2>1, <2>2 DEF Page!LoseAll
  <2> QED
    BY <1>3, <2>3 DEF LineStepped, Page!LineNext
<1> QED
  BY <1>8, <1>9, <1>10

LEMMA NextRoundLine ==
  ASSUME QueueInv, LineInv, BatchFails \/ BodyCancelled \/ CancelThrows PROVE LineStepped
<1>1. PICK m \in Nat : NextRound(m) /\ drain.at \in {"sending", "cancelling"}
  BY QueueFacts DEF BatchFails, BodyCancelled, CancelThrows
<1>2. PICK d, s : d = [drain EXCEPT !.held = <<>>, !.wire = NoContext] /\ s = Released(m)
  OBVIOUS
<1>3. d \in Drain /\ d.gen = drain.gen
  BY <1>2, QueueFacts, NothingUnder DEF Drain
<1>4. s \in Stats /\ s.exported = stats.exported
  <2>1. s = [stats EXCEPT !.dropped = @ + m, !.queuedBytes = @ - Len(drain.held)]
    BY <1>2 DEF Released
  <2>2. stats.queuedBytes >= Len(drain.held)
    BY QueueFacts
  <2> QED
    <3>1. stats \in Stats /\ Len(drain.held) \in Nat
      BY QueueFacts
    <3> QED
      BY <1>1, <2>1, <2>2, <3>1, StatsChange DEF StatsAre
<1>5. Continue(d, queue, context, s)
  BY <1>1, <1>2 DEF NextRound
<1>6. /\ LineInv' /\ stats'.exported = stats.exported
      /\ \/ generation' = generation /\ Line' \in {queue, <<>>}
         \/ generation' = generation + 1 /\ Line' = <<>>
  BY <1>3, <1>4, <1>5, ContinueLine DEF LineInv
<1>7. PICK n \in 0..BatchMax : n <= Len(Line) /\ Page!After(n) = queue
  <2>1. CASE drain.at = "sending"
    <3>1. PICK h, l \in Nat : h = Len(drain.held) /\ l = Len(queue) /\ Len(Line) = h + l
      BY <2>1, QueueFacts, LineFacts
    <3>2. h \in 0..BatchMax /\ h <= Len(Line)
      <4>1. h <= BatchMax
        BY <2>1, <3>1 DEF LineInv
      <4> QED
        BY <3>1, <4>1, QueueAssumption
    <3> QED
      BY <2>1, <3>1, <3>2, LineFacts
  <2>2. CASE drain.at # "sending"
    <3>1. Page!After(0) = queue
      BY <2>2, LineFacts, QueueFacts, SubSeqFull DEF Page!After
    <3>2. 0 \in 0..BatchMax /\ 0 <= Len(Line)
      BY LineFacts, QueueAssumption
    <3> QED
      BY <3>1, <3>2
  <2> QED
    BY <2>1, <2>2
<1> QED
  BY <1>6, <1>7, RoundLine DEF LineStepped

LEMMA FlushLine == ASSUME QueueInv, LineInv, Flush PROVE LineStepped
<1>1. PICK d : d = [DrainAtRest EXCEPT !.gen = generation]
  OBVIOUS
<1>2. d \in Drain /\ d.gen = generation /\ generation \in Nat
  <2>1. generation \in 0..MaxResets /\ generation \in Nat
    BY QueueAssumption DEF QueueInv, QueueTypes, Generations
  <2> QED
    BY <1>1, <2>1, AtRest
<1>3. drain.at = "idle" /\ Continue(d, queue, context, stats)
  BY <1>1 DEF Flush
<1>4. /\ LineInv' /\ stats'.exported = stats.exported
      /\ \/ generation' = generation /\ Line' \in {queue, <<>>}
         \/ generation' = generation + 1 /\ Line' = <<>>
  BY <1>2, <1>3, QueueFacts, ContinueLine
<1>5. 0 \in 0..BatchMax /\ 0 <= Len(Line) /\ Page!After(0) = queue
  BY <1>3, LineFacts, QueueFacts, SubSeqFull, QueueAssumption DEF Page!After
<1> QED
  BY <1>4, <1>5, RoundLine DEF LineStepped

LEMMA StillLine ==
  ASSUME QueueInv, LineInv, SignalTimesOut \/ UNCHANGED queueVars PROVE LineStepped
<1>1. /\ UNCHANGED <<queue, context, generation, stats>>
      /\ drain'.at = drain.at /\ drain'.held = drain.held /\ drain'.gen = drain.gen
      /\ drain'.wire = drain.wire
  BY QueueFacts DEF SignalTimesOut, queueVars, Drain
<1> QED
  BY <1>1 DEF LineStepped, LineInv, Line, Page!lineVars

LEMMA LineStep ==
  QueueInv /\ LineInv /\ [QueueNext]_queueVars => LineInv' /\ [Page!LineNext]_(Page!lineVars)
  BY RecordLine, ResetLine, ClearLine, AnswerLine, BatchLine, NextRoundLine, FlushLine, StillLine
  DEF QueueNext, Generations, LineStepped

LEMMA LineInitial == QueueInit => Page!LineInit
  BY DEF QueueInit, Page!LineInit, Line, DrainAtRest

\* The drain's batches, the answers to them and the resets in between amount to one
\* line that events leave in order and once, exported only in the generation they were
\* recorded in (createBrowserQueue).
THEOREM ImplementsEventLine == QueueSpec => ImplementsLine
  BY QueueInitInv, QueueStep, LineInvInit, LineInitial, LineStep, PTL
  DEF QueueSpec, ImplementsLine, Page!LineSpec

\* What EventLine promises, from its own steps.
LineKept == Line \in Seq(Nat) /\ generation \in Nat /\ Page!InLine

\* The line with its first n events gone, and its first n events.
LEMMA Cut ==
  ASSUME NEW s \in Seq(Nat), NEW n \in 0..Len(s)
  PROVE  /\ SubSeq(s, n + 1, Len(s)) \in Seq(Nat) /\ Len(SubSeq(s, n + 1, Len(s))) = Len(s) - n
         /\ \A i \in 1..(Len(s) - n) : SubSeq(s, n + 1, Len(s))[i] = s[n + i]
         /\ SubSeq(s, 1, n) \in Seq(Nat) /\ Len(SubSeq(s, 1, n)) = n
         /\ \A i \in 1..n : SubSeq(s, 1, n)[i] = s[i]
<1>1. Len(s) \in Nat /\ \A i \in 1..Len(s) : s[i] \in Nat
  BY LenProperties, ElementOfSeq
<1>2. /\ SubSeq(s, n + 1, Len(s)) \in Seq(Nat)
      /\ Len(SubSeq(s, n + 1, Len(s))) = (IF n + 1 <= Len(s) THEN Len(s) - (n + 1) + 1 ELSE 0)
      /\ \A i \in 1..(Len(s) - (n + 1) + 1) :
           SubSeq(s, n + 1, Len(s))[i] = s[(n + 1) + i - 1]
  <2>1. n + 1 \in Int /\ Len(s) \in Int /\ \A i \in (n + 1)..Len(s) : s[i] \in Nat
    BY <1>1
  <2> QED
    BY <2>1, SubSeqProperties
<1>3. /\ SubSeq(s, 1, n) \in Seq(Nat)
      /\ Len(SubSeq(s, 1, n)) = (IF 1 <= n THEN n - 1 + 1 ELSE 0)
      /\ \A i \in 1..(n - 1 + 1) : SubSeq(s, 1, n)[i] = s[1 + i - 1]
  <2>1. 1 \in Int /\ n \in Int /\ \A i \in 1..n : s[i] \in Nat
    BY <1>1
  <2> QED
    BY <2>1, SubSeqProperties
<1> QED
  BY <1>1, <1>2, <1>3

LEMMA LineKeptStep == LineKept /\ [Page!LineNext]_(Page!lineVars) => LineKept'
<1> SUFFICES ASSUME LineKept, [Page!LineNext]_(Page!lineVars) PROVE LineKept'
  OBVIOUS
<1>1. PICK s \in Seq(Nat), g \in Nat : s = Line /\ g = generation
  BY DEF LineKept
<1>2. /\ Len(s) \in Nat /\ Len(s) <= Budget /\ Budget \in Nat /\ BatchMax \in Nat
      /\ \A i, j \in 1..Len(s) : i <= j => s[i] <= s[j]
      /\ \A i \in 1..Len(s) : s[i] <= g
      /\ \A i \in 1..Len(s) : i > BatchMax => s[i] = g
  BY <1>1, LenProperties, QueueAssumption DEF LineKept, Page!InLine
<1>3. CASE UNCHANGED Page!lineVars
  BY <1>3 DEF Page!lineVars, LineKept, Page!InLine
<1>4. CASE Page!Record
  <2>1. PICK t : t = Append(s, g)
    OBVIOUS
  <2>2. Line' = t /\ generation' = g /\ Len(s) < Budget
    BY <1>1, <1>4, <2>1 DEF Page!Record
  <2>3. /\ t \in Seq(Nat) /\ Len(t) = Len(s) + 1
        /\ \A i \in 1..Len(s) : t[i] = s[i]
        /\ t[Len(s) + 1] = g
    BY <2>1, AppendProperties
  <2>4. \A i \in 1..Len(t) : i \in 1..Len(s) \/ i = Len(s) + 1
    BY <1>2, <2>3
  <2>5. /\ \A i, j \in 1..Len(t) : i <= j => t[i] <= t[j]
        /\ \A i \in 1..Len(t) : t[i] <= g
        /\ \A i \in 1..Len(t) : i > BatchMax => t[i] = g
    <3>1. \A i, j \in 1..Len(t) : i <= j => t[i] <= t[j]
      <4> SUFFICES ASSUME NEW i \in 1..Len(t), NEW j \in 1..Len(t), i <= j PROVE t[i] <= t[j]
        OBVIOUS
      <4>1. CASE i \in 1..Len(s) /\ j \in 1..Len(s)
        BY <1>2, <2>3, <4>1
      <4>2. CASE i \in 1..Len(s) /\ j = Len(s) + 1
        BY <1>2, <2>3, <4>2
      <4>3. CASE i = Len(s) + 1
        BY <1>2, <2>3, <4>3
      <4> QED
        BY <2>4, <4>1, <4>2, <4>3
    <3>2. ASSUME NEW i \in 1..Len(t) PROVE t[i] <= g /\ (i > BatchMax => t[i] = g)
      BY <1>2, <2>3, <2>4
    <3> QED
      BY <3>1, <3>2
  <2> QED
    BY <1>2, <2>2, <2>3, <2>5 DEF LineKept, Page!InLine
<1>5. CASE Page!LoseAll
  <2>1. Line' = <<>> /\ generation' = g
    BY <1>1, <1>5 DEF Page!LoseAll
  <2>2. <<>> \in Seq(Nat) /\ Len(<<>>) = 0
    BY EmptySeq
  <2> QED
    BY <1>2, <2>1, <2>2 DEF LineKept, Page!InLine
<1>6. ASSUME NEW n \in 0..BatchMax, n <= Len(Line), Page!Export(n) \/ Page!Lose(n)
      PROVE  LineKept'
  <2>1. n \in 0..Len(s)
    BY <1>1, <1>2, <1>6
  <2>2. PICK t : t = SubSeq(s, n + 1, Len(s))
    OBVIOUS
  <2>3. Line' = t /\ generation' = g
    BY <1>1, <1>6, <2>2 DEF Page!Export, Page!Lose, Page!After
  <2>4. t \in Seq(Nat) /\ Len(t) = Len(s) - n /\ \A i \in 1..Len(t) : t[i] = s[n + i]
    BY <2>1, <2>2, Cut
  <2>5. \A i \in 1..Len(t) : n + i \in 1..Len(s) /\ (i > BatchMax => n + i > BatchMax)
    BY <1>2, <2>1, <2>4
  <2>6. \A i, j \in 1..Len(t) : i <= j => n + i <= n + j
    BY <1>2, <2>1, <2>4
  <2>7. /\ \A i, j \in 1..Len(t) : i <= j => t[i] <= t[j]
        /\ \A i \in 1..Len(t) : t[i] <= g
        /\ \A i \in 1..Len(t) : i > BatchMax => t[i] = g
    BY <1>2, <2>4, <2>5, <2>6
  <2>8. Len(t) <= Budget
    BY <1>2, <2>1, <2>4
  <2> QED
    BY <1>2, <2>3, <2>4, <2>7, <2>8 DEF LineKept, Page!InLine
<1>7. ASSUME NEW n \in 0..BatchMax, n <= Len(Line), Page!Renew(n)
      PROVE  LineKept'
  <2>1. n \in 0..Len(s)
    BY <1>1, <1>2, <1>7
  <2>2. PICK t : t = SubSeq(s, 1, n)
    OBVIOUS
  <2>3. Line' = t /\ generation' = g + 1
    BY <1>1, <1>7, <2>2 DEF Page!Renew
  <2>4. t \in Seq(Nat) /\ Len(t) = n /\ \A i \in 1..n : t[i] = s[i]
    BY <2>1, <2>2, Cut
  <2>5. \A i \in 1..n : i \in 1..Len(s) /\ ~(i > BatchMax)
    BY <1>2, <2>1
  <2>6. \A i \in 1..n : t[i] <= g + 1
    <3> SUFFICES ASSUME NEW i \in 1..n PROVE t[i] <= g + 1
      OBVIOUS
    <3>1. t[i] \in Nat /\ t[i] <= g
      BY <1>2, <2>4, <2>5, ElementOfSeq
    <3> QED
      BY <3>1
  <2>7. \A i, j \in 1..n : i <= j => t[i] <= t[j]
    BY <1>2, <2>4, <2>5
  <2>8. n <= Budget
    BY <1>2, <2>1
  <2> QED
    BY <2>3, <2>4, <2>5, <2>6, <2>7, <2>8 DEF LineKept, Page!InLine
<1> QED
  BY <1>3, <1>4, <1>5, <1>6, <1>7 DEF Page!LineNext

LEMMA EventLineKept == Page!LineSpec => []LineKept
<1>1. Page!LineInit => LineKept
  <2> SUFFICES ASSUME Page!LineInit PROVE LineKept
    OBVIOUS
  <2>1. Line = <<>> /\ generation = 1
    BY DEF Page!LineInit
  <2>2. <<>> \in Seq(Nat) /\ Len(<<>>) = 0
    BY EmptySeq
  <2> QED
    BY <2>1, <2>2, QueueAssumption DEF LineKept, Page!InLine
<1> QED
  BY <1>1, LineKeptStep, PTL DEF Page!LineSpec

\* So the page's events are in order and within the budget, and only those of the batch
\* under way can be of an older generation.
THEOREM EventsStayInLine == QueueSpec => []Page!InLine
<1>1. LineKept => Page!InLine
  BY DEF LineKept
<1> QED
  BY <1>1, EventLineKept, ImplementsEventLine, PTL DEF ImplementsLine
=============================================================================
