---------------------------- MODULE PlatformProofs ----------------------------
(***************************************************************************)
(* The instances that TLC checks together, for every value of the          *)
(* constants: what holds of each component of MCPlatform alone holds of    *)
(* the behaviours of all of them, and so do the properties of that run.    *)
(***************************************************************************)
EXTENDS MCPlatform, StorageProofs, MessagingProofs

-----------------------------------------------------------------------------
(* The components share no variable: a step of one leaves the others as    *)
(* they are.                                                               *)

LEMMA EachInit ==
  PlatformInit =>
    /\ Init /\ FileInit /\ QueueInit /\ EmailInit /\ SettingInit /\ PresenceInit
  BY DEF PlatformInit

LEMMA EachStep ==
  ASSUME [PlatformNext]_platformVars
  PROVE  /\ [Next]_vars /\ [FileNext]_fileVars /\ [QueueNext]_queueVars
         /\ [EmailNext]_emailVars /\ [SettingNext]_settingVars /\ [PresenceNext]_presenceVars
<1>1. CASE Next /\ UNCHANGED <<fileVars, queueVars, emailVars, settingVars, presenceVars>>
  BY <1>1
<1>2. CASE FileNext /\ UNCHANGED <<vars, queueVars, emailVars, settingVars, presenceVars>>
  BY <1>2
<1>3. CASE QueueNext /\ UNCHANGED <<vars, fileVars, emailVars, settingVars, presenceVars>>
  BY <1>3
<1>4. CASE EmailNext /\ UNCHANGED <<vars, fileVars, queueVars, settingVars, presenceVars>>
  BY <1>4
<1>5. CASE SettingNext /\ UNCHANGED <<vars, fileVars, queueVars, emailVars, presenceVars>>
  BY <1>5
<1>6. CASE PresenceNext /\ UNCHANGED <<vars, fileVars, queueVars, emailVars, settingVars>>
  BY <1>6
<1>7. CASE UNCHANGED platformVars
  BY <1>7 DEF platformVars
<1> QED
  BY <1>1, <1>2, <1>3, <1>4, <1>5, <1>6, <1>7 DEF PlatformNext

\* Tokens, files, telemetry, e-mails, settings and presence, checked as one
\* specification, are each a behaviour of the component's own.
THEOREM EachOnItsOwn ==
  PlatformSpec =>
    /\ Spec /\ FileSpec /\ QueueSpec /\ EmailSpec /\ SettingSpec /\ PresenceSpec
  BY EachInit, EachStep, PTL
  DEF PlatformSpec, Spec, FileSpec, QueueSpec, EmailSpec, SettingSpec, PresenceSpec

\* Every component of the platform keeps its types, whichever of them takes the steps.
THEOREM PlatformTypesHold == PlatformSpec => []PlatformTypeOK
<1>1. /\ TypeOK /\ FileTypeOK /\ QueueTypeOK
      /\ EmailTypeOK /\ SettingTypeOK /\ PresenceTypeOK
      => PlatformTypeOK
  BY DEF PlatformTypeOK
<1> QED
  BY <1>1, EachOnItsOwn, TokenTypesHold, FileTypesHold, QueueTypesHold, EmailTypesHold,
     SettingTypesHold, PresenceTypesHold, PTL

\* The rest of what TLC checks of them: nobody waits for a fetch that is gone, no file
\* is offered without its bytes, every event is accounted for and sent in its context,
\* editors see their changes, connections leave nothing behind, a token is fetched
\* once and an e-mail that was sent stays sent, and the queue is an EventLine.
THEOREM PlatformIsSafe ==
  PlatformSpec =>
    /\ [](/\ WaitersHaveFlight /\ RowsHaveBytes /\ QuotaNearlyHeld /\ EventsAccounted
          /\ SentInContext /\ OwnChangeSeen /\ NoGhosts)
    /\ FetchedOnce /\ SentForGood /\ ImplementsLine
<1>1. PlatformSpec => []WaitersHaveFlight /\ FetchedOnce
  BY EachOnItsOwn, SingleFlight, OneTokenFetchedOnce, PTL
<1>2. PlatformSpec => []RowsHaveBytes /\ []QuotaNearlyHeld
  BY EachOnItsOwn, NoRowWithoutBytes, QuotaPassedByUploadsOnly, PTL
<1>3. PlatformSpec => []EventsAccounted /\ []SentInContext /\ ImplementsLine
  BY EachOnItsOwn, EveryEventAccounted, BatchesSentInContext, ImplementsEventLine, PTL
<1>4. PlatformSpec => []OwnChangeSeen /\ []NoGhosts
  BY EachOnItsOwn, EditorsSeeTheirChanges, NothingLeftBehind, PTL
<1>5. PlatformSpec => SentForGood
  BY EachOnItsOwn, SentIsForGood, PTL
<1> QED
  BY <1>1, <1>2, <1>3, <1>4, <1>5, PTL
=============================================================================
