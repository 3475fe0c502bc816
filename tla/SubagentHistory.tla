-------------------------- MODULE SubagentHistory --------------------------
(***************************************************************************)
(* What a stream says of its subagents, by quantifiers over positions of   *)
(* the log.                                                                *)
(***************************************************************************)
EXTENDS Subagents, StreamLog

IsSubagent(p, type, s) == TypeAt(p) = type /\ log[p].event.subagentRunId = s

Starts(s, n) == {p \in RunPositions(n) : IsSubagent(p, "SUBAGENT_STARTED", s)}

IsClosing(q, s) == IsSubagent(q, "SUBAGENT_FINISHED", s) \/ IsSubagent(q, "SUBAGENT_ERROR", s)

IsSuspension(q, s) == IsSubagent(q, "SUBAGENT_FINISHED", s) /\ log[q].event.suspended

\* The starts of s that no closing follows.
Unclosed(s, n) == {p \in Starts(s, n) : \A q \in p + 1..n : ~ IsClosing(q, s)}

\* The closings that end a life of s for good.  A closing ends a life when a start
\* precedes it with no other closing in between.  The starts inside a life are
\* refused, and so is every start after a life that did not end by suspension.
FinalClosings(s, n) ==
  {q \in 1..n : /\ IsClosing(q, s) /\ ~ IsSuspension(q, s)
                /\ \E p \in Starts(s, n) :
                     p < q /\ \A i \in p + 1..q - 1 : ~ IsClosing(i, s)}

\* The position, up to n, that closed s for good.
Deaths(s, n) == First(FinalClosings(s, n))

\* The start that holds s open at n: the first one that no closing follows, of a
\* subagent that was not closed for good.
Openings(s, n) == IF Deaths(s, n) # {} THEN {} ELSE First(Unclosed(s, n))

\* The subagents open at n, reported at index i.
LeftOpen(i, n) ==
  UNION {{Finding("AGUI604", i, s, log[p].at) : p \in Openings(s, n)} : s \in SubagentIds}

\* What the n-th position deserves.
SubagentDeserved(n) ==
  LET e == log[n].event
      s == e.subagentRunId
      blocking == Openings(s, n - 1) \cup Deaths(s, n - 1)
      Only(rule, id, indices) == {Finding(rule, log[n].at, id, i) : i \in indices}
  IN  CASE e.type = "SUBAGENT_STARTED" /\ s # None ->
             IF blocking # {} THEN Only("AGUI601", s, IndicesOf(blocking))
             ELSE IF \/ e.parentSubagentRunId = None
                     \/ Starts(e.parentSubagentRunId, n) # {} THEN {}
             ELSE Only("AGUI605", e.parentSubagentRunId, {None})
        [] e.type = "SUBAGENT_FINISHED" /\ s # None /\ Openings(s, n - 1) = {} ->
             Only("AGUI602", s, {None})
        [] e.type = "SUBAGENT_ERROR" /\ s # None /\ Openings(s, n - 1) = {} ->
             Only("AGUI603", s, {None})
        [] e.type \in {"RUN_FINISHED", "END_OF_STREAM"} -> LeftOpen(log[n].at, n)
        [] OTHER -> {}

\* A subagent event is reported exactly as the stream deserves: a start of an open
\* subagent or of one closed for good (AGUI601), an end with nothing open
\* (AGUI602, AGUI603), an accepted start whose parent was never named by a start
\* (AGUI605), and every subagent still open at a clean end (AGUI604).
SubagentFindingsExact == log # <<>> => subagentFound = SubagentDeserved(Len(log))

=============================================================================
