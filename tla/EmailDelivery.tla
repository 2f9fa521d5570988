----------------------------- MODULE EmailDelivery -----------------------------
(***************************************************************************)
(* E-mails (SendEmailHandler, RetryFailedEmailsJob).  The handler saves a  *)
(* message as pending, hands it to the mail server and saves what came of  *)
(* it.  Every five minutes the job takes up the failed messages and saves  *)
(* them together at its end; a run that lasts longer is overlapped by the  *)
(* next.  There is no concurrency token: a save writes the columns that    *)
(* differ from what the run has read, over whatever they are by then.      *)
(***************************************************************************)
EXTENDS Integers

CONSTANTS
  Emails,      \* the messages
  RetryJobs,   \* the runs of the job that may overlap
  MaxRetries,  \* the maxRetries of the job: 3
  MaxFailures  \* bound on the runs of the job that fail

VARIABLES
  mail,      \* the row of each message
  handling,  \* the messages whose handler is at the mail server
  retryJob,  \* the runs: what each has read and what has come of it
  failures   \* the runs that have failed

emailVars == <<mail, handling, retryJob, failures>>

ASSUME EmailAssumption == MaxRetries \in Nat \ {0} /\ MaxFailures \in Nat

NoMail == [status |-> "none", retries |-> 0]

\* read: the rows as the run found them; result: by message, "none" if it is not
\* in the run, "due" until it is sent again.
JobAtRest == [at |-> "idle", read |-> [e \in Emails |-> NoMail],
              result |-> [e \in Emails |-> "none"]]

EmailInit ==
  /\ mail = [e \in Emails |-> NoMail]
  /\ handling = {}
  /\ retryJob = [j \in RetryJobs |-> JobAtRest]
  /\ failures = 0

-----------------------------------------------------------------------------
(* SendEmailHandler                                                        *)

AddMail(e) ==
  /\ mail[e].status = "none"
  /\ mail' = [mail EXCEPT ![e].status = "pending"]
  /\ handling' = handling \cup {e}
  /\ UNCHANGED <<retryJob, failures>>

\* MarkAsSent or MarkAsFailed, and the save.
SaveOutcome(e) ==
  /\ e \in handling
  /\ handling' = handling \ {e}
  /\ \/ mail' = [mail EXCEPT ![e].status = "sent"]
     \/ mail' = [mail EXCEPT ![e] = [status |-> "failed", retries |-> @.retries + 1]]
  /\ UNCHANGED <<retryJob, failures>>

\* A crash, or a save that throws: the row stays pending.  (The bus may run the
\* handler again, which makes a message of its own.)
HandlerFails(e) ==
  /\ e \in handling
  /\ handling' = handling \ {e}
  /\ UNCHANGED <<mail, retryJob, failures>>

-----------------------------------------------------------------------------
(* RetryFailedEmailsJob                                                    *)

\* Mutant: the last retry is left out.
RetryableButLast(e) == mail[e].status = "failed" /\ mail[e].retries + 1 < MaxRetries

\* GetFailedRetryableAsync
Retryable(e) == mail[e].status = "failed" /\ mail[e].retries < MaxRetries

ReadFailed(j) ==
  /\ retryJob[j].at = "idle" /\ \E e \in Emails : Retryable(e)
  /\ retryJob' = [retryJob EXCEPT ![j] =
       [at |-> "sending", read |-> mail,
        result |-> [e \in Emails |-> IF Retryable(e) THEN "due" ELSE "none"]]]
  /\ UNCHANGED <<mail, handling, failures>>

Resend(j, e) ==
  /\ retryJob[j].at = "sending" /\ retryJob[j].result[e] = "due"
  /\ \E outcome \in {"sent", "failed"} :
       retryJob' = [retryJob EXCEPT ![j].result[e] = outcome]
  /\ UNCHANGED <<mail, handling, failures>>

\* Mutant: the save writes every column.
MergedWhole(run, e) ==
  CASE run.result[e] = "sent"   -> [status |-> "sent", retries |-> run.read[e].retries]
    [] run.result[e] = "failed" -> [status |-> "failed", retries |-> run.read[e].retries + 1]
    [] OTHER                    -> mail[e]

\* The row once the run is saved.  A message that failed again is as failed as it
\* was read, so its status is not among the columns written.
Merged(run, e) ==
  CASE run.result[e] = "sent"   -> [mail[e] EXCEPT !.status = "sent"]
    [] run.result[e] = "failed" -> [mail[e] EXCEPT !.retries = run.read[e].retries + 1]
    [] OTHER                    -> mail[e]

SaveRun(j) ==
  /\ retryJob[j].at = "sending" /\ \A e \in Emails : retryJob[j].result[e] # "due"
  /\ mail' = [e \in Emails |-> Merged(retryJob[j], e)]
  /\ retryJob' = [retryJob EXCEPT ![j] = JobAtRest]
  /\ UNCHANGED <<handling, failures>>

\* A crash, or a save that throws: nothing of the run is kept, the mail it sent
\* is sent again.
RunFails(j) ==
  /\ retryJob[j].at # "idle" /\ failures < MaxFailures
  /\ failures' = failures + 1
  /\ retryJob' = [retryJob EXCEPT ![j] = JobAtRest]
  /\ UNCHANGED <<mail, handling>>

EmailNext ==
  \/ \E e \in Emails :
       \/ AddMail(e) \/ SaveOutcome(e) \/ HandlerFails(e)
       \/ \E j \in RetryJobs : Resend(j, e)
  \/ \E j \in RetryJobs : ReadFailed(j) \/ SaveRun(j) \/ RunFails(j)

EmailSpec == EmailInit /\ [][EmailNext]_emailVars

\* The job is scheduled every five minutes, and each call to the mail server ends.
RetryFairness ==
  \A j \in RetryJobs :
    /\ WF_emailVars(ReadFailed(j)) /\ WF_emailVars(SaveRun(j))
    /\ \A e \in Emails : WF_emailVars(Resend(j, e))

-----------------------------------------------------------------------------
(* What senders rely on.                                                   *)

\* The type of the state.
EmailTypeOK ==
  /\ mail \in [Emails -> [status : {"none", "pending", "failed", "sent"}, retries : 0..MaxRetries]]
  /\ handling \subseteq Emails /\ failures \in 0..MaxFailures
  /\ \A j \in RetryJobs :
       /\ retryJob[j].at \in {"idle", "sending"}
       /\ retryJob[j].result \in [Emails -> {"none", "due", "sent", "failed"}]

\* A message saved as sent is never taken up again: an overlapping run that has
\* failed to send it leaves the status as it is, and a later run cannot send it a
\* third time.
SentForGood ==
  [][\A e \in Emails : mail[e].status = "sent" => mail'[e].status = "sent"]_emailVars

\* A failed message does not wait for ever, although a run may write an older
\* count over a newer one: it is sent, or its retries are used up.
FailedSettles ==
  \A e \in Emails :
    mail[e].status = "failed" ~> (mail[e].status = "sent" \/ mail[e].retries = MaxRetries)
=============================================================================
