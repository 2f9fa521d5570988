------------------------------ MODULE MCPlatform ------------------------------
(***************************************************************************)
(* Instances for TLC of the components around the sessions: the token      *)
(* source and the telemetry queue of the SDK, files, e-mails, settings and *)
(* presence of the API.  They share no state, so they are not interleaved: *)
(* a behaviour is one of one component, named by part, while the others    *)
(* stay as they start.                                                     *)
(***************************************************************************)
EXTENDS ServiceToken, FileStorage, BrowserQueue, EmailDelivery, CachedSettings, Presence, TLC

CONSTANTS
  Parts,  \* the components to check
  c1, c2, c3, r1, r2

VARIABLE part

\* Two requests on one replica, the third on the other.
TwoAndOne == [c \in Calls |-> IF c = c3 THEN r2 ELSE r1]

\* c1 and c2 also stand for interchangeable files, e-mails and connections.
SamePlatform == Permutations({c1, c2})

PlatformInit ==
  /\ part \in Parts
  /\ Init /\ FileInit /\ QueueInit /\ EmailInit /\ SettingInit /\ PresenceInit

PlatformNext ==
  /\ part' = part
  /\ \/ /\ part = "service token" /\ Next
        /\ UNCHANGED <<fileVars, queueVars, emailVars, settingVars, presenceVars>>
     \/ /\ part = "files" /\ FileNext
        /\ UNCHANGED <<vars, queueVars, emailVars, settingVars, presenceVars>>
     \/ /\ part = "queue" /\ QueueNext
        /\ UNCHANGED <<vars, fileVars, emailVars, settingVars, presenceVars>>
     \/ /\ part = "e-mail" /\ EmailNext
        /\ UNCHANGED <<vars, fileVars, queueVars, settingVars, presenceVars>>
     \/ /\ part = "settings" /\ SettingNext
        /\ UNCHANGED <<vars, fileVars, queueVars, emailVars, presenceVars>>
     \/ /\ part = "presence" /\ PresenceNext
        /\ UNCHANGED <<vars, fileVars, queueVars, emailVars, settingVars>>

platformVars == <<part, vars, fileVars, queueVars, emailVars, settingVars, presenceVars>>

PlatformSpec == PlatformInit /\ [][PlatformNext]_platformVars

\* The fairness of every component.  Of those that stay as they start, only the
\* queue has a fair action enabled, the answer to its first reset.
PlatformFairSpec ==
  /\ PlatformSpec
  /\ Fairness /\ SweepFairness /\ RetryFairness /\ CacheFairness
  /\ WF_queueVars(BatchFails) /\ WF_queueVars(BodyCancelled)
  /\ \A g \in 1..MaxResets : WF_queueVars(part = "queue" /\ ResetAnswered(g))

\* The type of the state of every component, where it is not as it starts.
PlatformTypeOK ==
  /\ part = "service token" => TypeOK
  /\ part = "files"         => FileTypeOK
  /\ part = "queue"         => QueueTypeOK
  /\ part = "e-mail"        => EmailTypeOK
  /\ part = "settings"      => SettingTypeOK
  /\ part = "presence"      => PresenceTypeOK
=============================================================================
