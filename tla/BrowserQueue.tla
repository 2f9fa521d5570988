------------------------------ MODULE BrowserQueue ------------------------------
(***************************************************************************)
(* The telemetry queue of one browser page (createBrowserQueue): events    *)
(* wait under the relay context they were recorded in, one drain at a time *)
(* sends them in batches, and resetContext starts a new generation with a  *)
(* context of its own.  Code runs to its next await without interruption:  *)
(* one action per stretch between two awaits.                              *)
(*                                                                         *)
(* An event is the generation that fetched the context it was recorded     *)
(* in, and counts one byte of the budget.  A single event always fits a    *)
(* batch (8 KiB of 48 KiB).                                                *)
(***************************************************************************)
EXTENDS Integers, Sequences

CONSTANTS
  Budget,      \* BROWSER_LIMITS.bufferedBytes, in events
  BatchMax,    \* BROWSER_LIMITS.batchBytes, in events
  MaxResets,   \* bound on the generations that the model follows
  MaxEvents,   \* bound on the events
  NoContext

VARIABLES
  queue,       \* the events that wait
  context,     \* the relay context, as the generation that fetched it
  generation,
  resets,      \* the generations whose context request has not come back
  drain,       \* the drain in progress
  stats,       \* ExportStats; failed does not count events and is left out
  offered,     \* events given to enqueue
  doubled      \* events counted twice: their batch was counted, then the
               \* cancelling of its response body threw

queueVars == <<queue, context, generation, resets, drain, stats, offered, doubled>>

ASSUME QueueAssumption ==
  /\ Budget \in Nat \ {0} /\ BatchMax \in Nat \ {0}
  /\ MaxResets \in Nat \ {0} /\ MaxEvents \in Nat /\ NoContext \notin 0..MaxResets

\* held: the events of the batch under way; wire: the context it carries;
\* timedOut: the drain's signal has fired although no reset has come.
DrainAtRest == [at |-> "idle", gen |-> 0, held |-> <<>>, wire |-> NoContext, timedOut |-> FALSE]

QueueInit ==
  /\ queue = <<>> /\ context = NoContext
  /\ generation = 1 /\ resets = {1}     \* initializeBrowserTelemetry
  /\ drain = DrainAtRest
  /\ stats = [queuedBytes |-> 0, exported |-> 0, dropped |-> 0]
  /\ offered = 0 /\ doubled = 0

\* clear(): what it makes of the stats.  (The queue becomes empty.)
Cleared(s, q) == [s EXCEPT !.dropped = @ + Len(q), !.queuedBytes = @ - Len(q)]

-----------------------------------------------------------------------------
(* enqueue, and events refused: no context, too large, or over the budget. *)

Enqueue ==
  /\ offered < MaxEvents
  /\ offered' = offered + 1
  /\ \/ /\ context # NoContext /\ stats.queuedBytes + 1 <= Budget
        /\ queue' = Append(queue, context)
        /\ stats' = [stats EXCEPT !.queuedBytes = @ + 1]
     \/ /\ queue' = queue
        /\ stats' = [stats EXCEPT !.dropped = @ + 1]
  /\ UNCHANGED <<context, generation, resets, drain, doubled>>

-----------------------------------------------------------------------------
(* resetContext.  Its abort rejects the fetches of all older generations.  *)

\* q, s: the queue and the stats as they are when it is called.
Reset(q, s) ==
  /\ generation < MaxResets
  /\ generation' = generation + 1
  /\ resets' = resets \cup {generation + 1}
  /\ context' = NoContext
  /\ queue' = <<>>
  /\ stats' = Cleared(s, q)

\* Login, logout or the choice of an organisation.
PageResets ==
  /\ Reset(queue, stats)
  /\ UNCHANGED <<drain, offered, doubled>>

\* Mutant: an answer is taken whatever generation it was asked for.
AdoptedAlways(g) == g

\* A context that was asked for by an older generation is not adopted.
Adopted(g) == IF g = generation THEN g ELSE context

\* Mutant: the answer to a reset that another has overtaken frees nobody.
FreedIfCurrent(g) ==
  IF drain.at = "resetting" /\ drain.gen = g /\ g = generation THEN DrainAtRest ELSE drain

\* The drain that waits for this reset is done with it.
Freed(g) == IF drain.at = "resetting" /\ drain.gen = g THEN DrainAtRest ELSE drain

ResetAnswered(g) ==
  /\ g \in resets
  /\ resets' = resets \ {g}
  /\ \/ context' = Adopted(g)
     \/ context' = context              \* refused, unreadable or rejected
  /\ drain' = Freed(g)
  /\ UNCHANGED <<queue, generation, stats, offered, doubled>>

-----------------------------------------------------------------------------
(* drain                                                                   *)

\* The end of the drain, with queue q, context c and stats s as it finds them.
LeaveLoop(d, q, c, s) ==
  \/ /\ d.gen # generation \/ (~d.timedOut /\ c # NoContext)
     /\ drain' = DrainAtRest
     /\ queue' = q /\ stats' = s /\ context' = c
     /\ UNCHANGED <<generation, resets>>
  \/ /\ d.gen = generation /\ d.timedOut
     /\ drain' = DrainAtRest
     /\ queue' = <<>> /\ stats' = Cleared(s, q) /\ context' = c
     /\ UNCHANGED <<generation, resets>>
  \/ /\ d.gen = generation /\ ~d.timedOut /\ c = NoContext
     /\ Reset(q, s)
     /\ drain' = [DrainAtRest EXCEPT !.at = "resetting", !.gen = generation + 1]

\* The head of the loop: the next batch is taken off the queue and sent.
Continue(d, q, c, s) ==
  LET n == IF Len(q) < BatchMax THEN Len(q) ELSE BatchMax
  IN \/ /\ q # <<>> /\ c # NoContext /\ ~d.timedOut /\ d.gen = generation
        /\ drain' = [d EXCEPT !.at = "sending", !.held = SubSeq(q, 1, n), !.wire = c]
        /\ queue' = SubSeq(q, n + 1, Len(q))
        /\ stats' = s /\ context' = c
        /\ UNCHANGED <<generation, resets>>
     \/ /\ q = <<>> \/ c = NoContext \/ d.timedOut \/ d.gen # generation
        /\ LeaveLoop(d, q, c, s)

\* flush: a drain in progress is joined.
Flush ==
  /\ drain.at = "idle"
  /\ Continue([DrainAtRest EXCEPT !.gen = generation], queue, context, stats)
  /\ UNCHANGED <<offered, doubled>>

SignalTimesOut ==
  /\ drain.at \in {"sending", "cancelling"} /\ ~drain.timedOut
  /\ drain' = [drain EXCEPT !.timedOut = TRUE]
  /\ UNCHANGED <<queue, context, generation, resets, stats, offered, doubled>>

\* Mutant: when the context has changed only the events that wait are dropped.
CountedQueueOnly(answer, s, n) ==
  CASE answer = "ok"       -> [s EXCEPT !.exported = @ + n]
    [] answer = "refused"  -> [s EXCEPT !.dropped = @ + n]
    [] answer = "conflict" -> Cleared(s, queue)

\* How the answer to a batch of n events is counted; a conflict (409) also
\* clears the queue.
Counted(answer, s, n) ==
  CASE answer = "ok"       -> [s EXCEPT !.exported = @ + n]
    [] answer = "refused"  -> [s EXCEPT !.dropped = @ + n]
    [] answer = "conflict" -> [Cleared(s, queue) EXCEPT !.dropped = @ + n]

\* Mutant: the answer is counted whatever has become of the generation.
BatchAnsweredAnyway(answer) ==
  /\ drain.at = "sending"
  /\ answer = "conflict" => generation < MaxResets
  /\ stats' = Counted(answer, stats, Len(drain.held))
  /\ queue' = IF answer = "conflict" THEN <<>> ELSE queue
  /\ context' = IF answer = "conflict" THEN NoContext ELSE context
  /\ drain' = [drain EXCEPT !.at = "cancelling"]
  /\ UNCHANGED <<generation, resets, offered, doubled>>

BatchAnswered(answer) ==
  LET conflict == answer = "conflict" /\ drain.gen = generation
  IN /\ drain.at = "sending"
     /\ conflict => generation < MaxResets      \* the bound: a reset will follow
     /\ stats' = Counted(IF drain.gen = generation THEN answer ELSE "refused",
                         stats, Len(drain.held))
     /\ queue' = IF conflict THEN <<>> ELSE queue
     /\ context' = IF conflict THEN NoContext ELSE context
     /\ drain' = [drain EXCEPT !.at = "cancelling"]
     /\ UNCHANGED <<generation, resets, offered, doubled>>

\* The stats once the batch's bytes are given back, and n more events dropped.
Released(n) == [stats EXCEPT !.dropped = @ + n, !.queuedBytes = @ - Len(drain.held)]

NextRound(n) ==
  Continue([drain EXCEPT !.held = <<>>, !.wire = NoContext], queue, context, Released(n))

\* A network error, the time-out or the abort of a reset.
BatchFails ==
  /\ drain.at = "sending"
  /\ NextRound(Len(drain.held))
  /\ UNCHANGED <<offered, doubled>>

BodyCancelled ==
  /\ drain.at = "cancelling"
  /\ NextRound(0)
  /\ UNCHANGED <<offered, doubled>>

CancelThrows ==
  /\ drain.at = "cancelling"
  /\ NextRound(Len(drain.held))
  /\ doubled' = doubled + Len(drain.held)
  /\ UNCHANGED offered

\* dispose() clears the queue after its flush.
Clear ==
  /\ queue # <<>> /\ drain.at = "idle"
  /\ queue' = <<>> /\ stats' = Cleared(stats, queue)
  /\ UNCHANGED <<context, generation, resets, drain, offered, doubled>>

QueueNext ==
  \/ Enqueue \/ PageResets \/ Flush \/ SignalTimesOut
  \/ \E g \in 1..MaxResets : ResetAnswered(g)
  \/ \E answer \in {"ok", "refused", "conflict"} : BatchAnswered(answer)
  \/ BatchFails \/ BodyCancelled \/ CancelThrows \/ Clear

QueueSpec == QueueInit /\ [][QueueNext]_queueVars

\* Every fetch settles (AbortSignal.timeout), and every cancelled body.
DrainFairness ==
  /\ WF_queueVars(BatchFails) /\ WF_queueVars(BodyCancelled)
  /\ \A g \in 1..MaxResets : WF_queueVars(ResetAnswered(g))

-----------------------------------------------------------------------------
(* What the page relies on.                                                *)

\* The type of the state.
QueueTypeOK ==
  /\ queue \in Seq(1..MaxResets) /\ Len(queue) <= Budget
  /\ context \in 1..MaxResets \cup {NoContext} /\ generation \in 1..MaxResets
  /\ resets \subseteq 1..MaxResets
  /\ drain.at \in {"idle", "sending", "cancelling", "resetting"}
  /\ drain.held \in Seq(1..MaxResets) /\ drain.timedOut \in BOOLEAN
  /\ stats \in [queuedBytes : 0..Budget, exported : Nat, dropped : Nat]

Held == IF drain.at = "sending" THEN Len(drain.held) ELSE 0

\* The budget counts what waits and what is on its way, and every event offered
\* is counted once as exported or dropped unless it is still one of those; only a
\* response body that fails to cancel counts its batch twice.
EventsAccounted ==
  /\ stats.queuedBytes = Len(queue) + Len(drain.held)
  /\ stats.exported + stats.dropped + Len(queue) + Held = offered + doubled

\* No event reaches the relay under another context than the one it was recorded
\* in, whatever logins and slow answers come in between.
SentInContext ==
  drain.at = "sending" => \A i \in DOMAIN drain.held : drain.held[i] = drain.wire

\* A flush comes to its end, so the next one is not joined to it for ever.
DrainEnds == drain.at # "idle" ~> drain.at = "idle"
\* Batches, contexts, answers and resets come to what EventLine does at once: nothing
\* overtakes, nothing is exported twice or after its generation, and a reset leaves
\* no more than the batch under way.  (From cancelling on, held counts bytes only.)
Line == IF drain.at = "sending" THEN drain.held \o queue ELSE queue

Page == INSTANCE EventLine WITH line <- Line, exported <- stats.exported
ImplementsLine == Page!LineSpec
=============================================================================
