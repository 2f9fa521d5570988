------------------------------ MODULE MfaLockout ------------------------------
(***************************************************************************)
(* The second factor of one user: VerifyMfaChallenge of AccountController, *)
(* the failure counter and the lock of MfaLockoutService and WallowUser,   *)
(* and the backup codes of MfaService (one code is followed).              *)
(*                                                                         *)
(* The lockout service saves the columns that the request has changed;     *)
(* UserManager's update, which takes a backup code off the list, writes    *)
(* every column of the entity as it was read.  Both are refused where the  *)
(* concurrency stamp is not the one read any more, but only UserManager    *)
(* gives the row a new stamp.                                              *)
(***************************************************************************)
EXTENDS Integers

CONSTANTS
  Verifiers,      \* verifications in progress at the same time
  MaxAttempts,    \* failures that lock the user (5 in the code)
  LongestPower,   \* the last lockout count whose duration fits a TimeSpan (29)
  MaxLockouts     \* bound on the lockout count that the model follows

VARIABLES
  user,      \* the row: attempts, count, lock and the unused backup code
  lockKey,   \* mfa:lockout:<user> is set in Redis
  verifier,  \* the verifications; seen is the entity of the request
  failures,  \* wrong codes since the last sign-in, up to MaxAttempts
  raced,     \* a save, a SET or an answer from the key missed a newer row
  spent      \* sign-ins that the backup code has brought about

mfaVars == <<user, lockKey, verifier, failures, raced, spent>>

ASSUME MfaAssumption ==
  /\ MaxAttempts \in Nat \ {0}
  /\ LongestPower \in Nat /\ MaxLockouts \in Nat

Locks == {"never", "running", "over"}

\* Attempts past MaxAttempts make no difference: they are not counted.
Row == [attempts : 0..MaxAttempts, count : 0..MaxLockouts, lock : Locks,
        backup : BOOLEAN]

NoRow == [attempts |-> 0, count |-> 0, lock |-> "never", backup |-> FALSE]

VerifierAtRest == [at |-> "idle", seen |-> NoRow, stale |-> FALSE, backup |-> FALSE]

MfaInit ==
  /\ user = [NoRow EXCEPT !.backup = TRUE]
  /\ lockKey = FALSE
  /\ verifier = [v \in Verifiers |-> VerifierAtRest]
  /\ failures = 0 /\ raced = FALSE /\ spent = 0

Moves(v, at) == [verifier EXCEPT ![v].at = at]

Done(v) == [verifier EXCEPT ![v] = VerifierAtRest]

\* A locked user is refused here.
Challenge(v) ==
  /\ verifier[v].at = "idle" /\ user.lock # "running"
  /\ verifier' = [verifier EXCEPT ![v] = [VerifierAtRest EXCEPT !.at = "read", !.seen = user]]
  /\ UNCHANGED <<user, lockKey, failures, raced, spent>>

\* A later query of the same request returns the entity that is tracked, or
\* reads the row again when the first one did not track it: the library's
\* choice.  After UpdateAsync the entity is tracked in any case.
Reread(v) ==
  /\ \/ verifier[v].at \in {"read", "failing"}
     \/ verifier[v].at = "resetting" /\ ~verifier[v].backup
  /\ verifier' = [verifier EXCEPT ![v].seen = user, ![v].stale = FALSE]
  /\ UNCHANGED <<user, lockKey, failures, raced, spent>>

-----------------------------------------------------------------------------
(* A wrong code: RecordFailureAsync.                                       *)

\* The key answers for the row, unless Redis fails.
WrongCode(v) ==
  /\ verifier[v].at = "read"
  /\ failures' = IF failures < MaxAttempts THEN failures + 1 ELSE failures
  /\ \/ /\ verifier' = Moves(v, "failing")
        /\ raced' = raced
     \/ /\ lockKey
        /\ verifier' = Done(v)
        /\ raced' = (raced \/ user.lock # "running")
  /\ UNCHANGED <<user, lockKey, spent>>

\* Mutant: the user is locked one failure late.
LockingLate(attempts) == attempts > MaxAttempts

Locking(attempts) == attempts >= MaxAttempts

\* WallowUser.RecordMfaFailure.  15 minutes * 2^count is computed before it is
\* capped at 24 hours, and does not fit a TimeSpan after LongestPower.
Overflows(seen) == Locking(seen.attempts + 1) /\ seen.count > LongestPower

\* The save is refused when the stamp has changed, and never reached when the
\* duration overflows: the request fails.
FailureLost(v) ==
  /\ verifier[v].at = "failing"
  /\ verifier[v].stale \/ Overflows(verifier[v].seen)
  /\ raced' = (raced \/ verifier[v].stale \/ user # verifier[v].seen)
  /\ verifier' = Done(v)
  /\ UNCHANGED <<user, lockKey, failures, spent>>

SaveFailure(v) ==
  LET seen == verifier[v].seen
      n    == IF seen.attempts < MaxAttempts THEN seen.attempts + 1 ELSE MaxAttempts
  IN /\ verifier[v].at = "failing" /\ ~verifier[v].stale /\ ~Overflows(seen)
     /\ Locking(n) => seen.count < MaxLockouts
     /\ raced' = (raced \/ user # seen)
     /\ \/ /\ Locking(n)
           /\ user' = [user EXCEPT !.attempts = n, !.count = seen.count + 1,
                                   !.lock = "running"]
           /\ verifier' = Moves(v, "locked")
        \/ /\ ~Locking(n)
           /\ user' = [user EXCEPT !.attempts = n]
           /\ verifier' = Done(v)
     /\ UNCHANGED <<lockKey, failures, spent>>

\* SET with the lock's remaining time, or a Redis fault that is logged.
SetLockKey(v) ==
  /\ verifier[v].at = "locked"
  /\ \/ /\ lockKey' = TRUE
        /\ raced' = (raced \/ user.lock # "running")
     \/ UNCHANGED <<lockKey, raced>>
  /\ verifier' = Done(v)
  /\ UNCHANGED <<user, failures, spent>>

-----------------------------------------------------------------------------
(* A right code: ValidateTotp or ValidateBackupCode, then ResetAsync.      *)

RightCode(v) ==
  /\ verifier[v].at = "read"
  /\ verifier' = Moves(v, "resetting")
  /\ UNCHANGED <<user, lockKey, failures, raced, spent>>

\* A lock that was running when it was read may have ended since.
ByNow(lock) == IF lock = "running" THEN {"running", "over"} ELSE {lock}

\* The code leaves the stored list, the row gets a new stamp, and attempts, count
\* and lock become what they were when the entity was read.  The answer of
\* UserManager.UpdateAsync is not looked at: a stamp that was stale stays so.
BackupCode(v) ==
  LET seen == verifier[v].seen
  IN /\ verifier[v].at = "read" /\ seen.backup
     /\ \/ /\ ~verifier[v].stale
           /\ \E lock \in ByNow(seen.lock) :
                user' = [seen EXCEPT !.backup = FALSE, !.lock = lock]
           /\ raced' = (raced \/ user # seen)
           /\ verifier' = [w \in Verifiers |->
                IF w = v THEN [verifier[v] EXCEPT !.at = "resetting", !.backup = TRUE]
                ELSE [verifier[w] EXCEPT !.stale = verifier[w].at # "idle"]]
        \/ /\ verifier[v].stale
           /\ verifier' = [verifier EXCEPT ![v].at = "resetting", ![v].backup = TRUE]
           /\ UNCHANGED <<user, raced>>
     /\ UNCHANGED <<lockKey, failures, spent>>

\* Mutant: the reset is saved whatever the stamp.
ResetStale(v) == FALSE

\* With a stale stamp the save throws, and the sign-in fails with it.
ResetRefused(v) == verifier[v].stale

RefuseReset(v) ==
  /\ verifier[v].at = "resetting" /\ ResetRefused(v)
  /\ verifier' = Done(v)
  /\ UNCHANGED <<user, lockKey, failures, raced, spent>>

\* Only what differs from the entity as read is written.
SaveReset(v) ==
  LET seen == verifier[v].seen
  IN /\ verifier[v].at = "resetting" /\ ~ResetRefused(v)
     /\ user' = [user EXCEPT !.attempts = IF seen.attempts = 0 THEN @ ELSE 0,
                             !.count = IF seen.count = 0 THEN @ ELSE 0,
                             !.lock = IF seen.lock = "never" THEN @ ELSE "never"]
     /\ raced' = (raced \/ [user EXCEPT !.backup = seen.backup] # seen)
     /\ failures' = 0
     /\ spent' = IF verifier[v].backup THEN spent + 1 ELSE spent
     /\ verifier' = Moves(v, "clearing")
     /\ UNCHANGED lockKey

ClearLockKey(v) ==
  /\ verifier[v].at = "clearing"
  /\ \/ lockKey' = FALSE
     \/ lockKey' = lockKey
  /\ verifier' = Done(v)
  /\ UNCHANGED <<user, failures, raced, spent>>

GiveUpMfa(v) ==
  /\ verifier[v].at # "idle"
  /\ raced' = (raced \/ verifier[v].at = "failing")
  /\ verifier' = Done(v)
  /\ UNCHANGED <<user, lockKey, failures, spent>>

-----------------------------------------------------------------------------

\* The lock's end passes: the row says so, and the key's time is up, unless an
\* old row has been written over the one whose lock the key tells of.
LockEnds ==
  /\ user.lock = "running"
  /\ user' = [user EXCEPT !.lock = "over"]
  /\ lockKey' \in {FALSE, lockKey /\ raced}
  /\ UNCHANGED <<verifier, failures, raced, spent>>

LockKeyLapses ==
  /\ lockKey /\ user.lock # "running"
  /\ lockKey' = FALSE
  /\ UNCHANGED <<user, verifier, failures, raced, spent>>

MfaNext ==
  \/ \E v \in Verifiers :
       \/ Challenge(v) \/ Reread(v) \/ WrongCode(v) \/ FailureLost(v) \/ SaveFailure(v)
       \/ SetLockKey(v)
       \/ RightCode(v) \/ BackupCode(v) \/ RefuseReset(v) \/ SaveReset(v)
       \/ ClearLockKey(v) \/ GiveUpMfa(v)
  \/ LockEnds \/ LockKeyLapses

MfaSpec == MfaInit /\ [][MfaNext]_mfaVars

-----------------------------------------------------------------------------
(* What the second factor relies on.                                       *)

\* The type of the state.
MfaTypeOK ==
  /\ user \in Row
  /\ lockKey \in BOOLEAN /\ raced \in BOOLEAN
  /\ verifier \in [Verifiers ->
       [at : {"idle", "read", "failing", "locked", "resetting", "clearing"},
        seen : Row, stale : BOOLEAN, backup : BOOLEAN]]
  /\ failures \in 0..MaxAttempts /\ spent \in Nat

\* After MaxAttempts wrong codes without a sign-in the user has been locked, as
\* long as no request worked from an old row or lock key and none was cut short.
LockoutReached ==
  ~raced /\ failures = MaxAttempts
  /\ (\A v \in Verifiers : verifier[v].at # "failing")
  => user.lock # "never"

\* A backup code signs the user in once, although the outcome of its removal is
\* not looked at: the reset that follows fails on the same stamp.
BackupCodeOnce == spent <= 1

\* "Exponential backoff: 15min * 2^lockoutCount, capped at 24 hours": a failure
\* that reaches the limit is lost to nothing but a newer row.
LockoutsGoOn == [][\A v \in Verifiers : FailureLost(v) => verifier[v].stale]_mfaVars
=============================================================================
