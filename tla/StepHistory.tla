---------------------------- MODULE StepHistory ----------------------------
(***************************************************************************)
(* What a stream says of its steps, by quantifiers over positions of the   *)
(* log: the re-entrance counter is compared with the starts and finishes.  *)
(***************************************************************************)
EXTENDS Steps, StreamLog, FiniteSetsExt

IsStep(q, type, s) == TypeAt(q) = type /\ log[q].event.stepName = s

\* The starts of s from position p to n that no finish in between answers.
Surplus(s, p, n) ==
  Cardinality({q \in p..n : IsStep(q, "STEP_STARTED", s)})
  - Cardinality({q \in p..n : IsStep(q, "STEP_FINISHED", s)})

\* A finish answers an earlier start only, so the starts of s left unanswered
\* at n are the largest surplus of any ending of the run.
Unanswered(s, n) == Max({0} \cup {Surplus(s, p, n) : p \in RunPositions(n)})

\* The start that opened s: the first after the last time nothing was open.
Opening(s, n) ==
  First({p \in RunPositions(n) : \A q \in p..n : Unanswered(s, q) > 0})

\* What the agent that opened s, open at n, makes of a finish at index i with tag.
DisownedStep(i, s, tag, n) ==
  UNION {OwnerFindings(i, s, tag, log[p].event.subagentRunId) : p \in Opening(s, n)}

\* The steps left open at n, reported at index i, each at its first start.
LeftUnfinished(i, n) ==
  UNION {{Finding("AGUI007", i, s, log[p].at) : p \in Opening(s, n)} : s \in StepNames}

\* What the n-th position deserves: a finish with no start (AGUI006), a finish
\* tagged with another agent than the one that opened the step (AGUI606), and at a
\* clean end every open step (AGUI007).
StepDeserved(n) ==
  LET e == log[n].event
      i == log[n].at
      s == e.stepName
  IN  CASE e.type = "STEP_FINISHED" /\ s # None ->
             IF Unanswered(s, n - 1) = 0 THEN {Finding("AGUI006", i, s, None)}
             ELSE DisownedStep(i, s, e.subagentRunId, n - 1)
        [] e.type \in {"RUN_FINISHED", "END_OF_STREAM"} -> LeftUnfinished(i, n)
        [] OTHER -> {}

\* Every step event is reported exactly as the stream deserves: no violation of
\* AGUI006, AGUI007 or AGUI606 is missed, none is invented, and each names the
\* start it is about.
StepFindingsExact == log # <<>> => stepFound = StepDeserved(Len(log))

\* The counter of a step is the number of its unanswered starts.
StepCountsExact ==
  \A s \in StepNames :
    Unanswered(s, Len(log)) = IF s \in DOMAIN openSteps THEN openSteps[s].count ELSE 0

=============================================================================
