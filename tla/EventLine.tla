------------------------------ MODULE EventLine ------------------------------
(***************************************************************************)
(* What a page is promised of its telemetry, with no batches under way,    *)
(* contexts or answers in it: events stand in one line, in the order they  *)
(* were recorded.  They leave it in that order and once, exported only     *)
(* while the generation they were recorded in lasts; a new generation      *)
(* finds at most the one batch in it that is on its way.                   *)
(***************************************************************************)
EXTENDS Integers, Sequences

CONSTANTS Budget, BatchMax

VARIABLES line,        \* the generation each event was recorded in, oldest first
          generation,
          exported     \* the number of events that were delivered

lineVars == <<line, generation, exported>>

LineInit == line = <<>> /\ generation = 1 /\ exported = 0

Record ==
  /\ Len(line) < Budget
  /\ line' = Append(line, generation)
  /\ UNCHANGED <<generation, exported>>

\* What is left once the first n events are gone.
After(n) == SubSeq(line, n + 1, Len(line))

Export(n) ==
  /\ \A i \in 1..n : line[i] = generation
  /\ line' = After(n)
  /\ exported' = exported + n
  /\ UNCHANGED generation

Lose(n) == line' = After(n) /\ UNCHANGED <<generation, exported>>

LoseAll == line' = <<>> /\ UNCHANGED <<generation, exported>>

\* Only a batch that has been sent outlasts its generation.
Renew(n) ==
  /\ generation' = generation + 1
  /\ line' = SubSeq(line, 1, n)
  /\ UNCHANGED exported

LineNext ==
  \/ Record \/ LoseAll
  \/ \E n \in 0..BatchMax : n <= Len(line) /\ (Export(n) \/ Lose(n) \/ Renew(n))

LineSpec == LineInit /\ [][LineNext]_lineVars

\* The line is within its budget and in order, and what stands behind the first
\* batch was recorded in the generation that lasts.
InLine ==
  /\ Len(line) <= Budget
  /\ \A i, j \in 1..Len(line) : i <= j => line[i] <= line[j]
  /\ \A i \in 1..Len(line) : line[i] <= generation
  /\ \A i \in 1..Len(line) : i > BatchMax => line[i] = generation
=============================================================================
