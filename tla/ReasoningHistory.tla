-------------------------- MODULE ReasoningHistory --------------------------
(***************************************************************************)
(* What a stream says of its reasoning, by quantifiers over positions of   *)
(* the log.                                                                *)
(***************************************************************************)
EXTENDS Reasoning, StreamLog

IsReasoning(q, type, m) == TypeAt(q) = type /\ log[q].event.messageId = m

\* The last start of m in the run, if no end of m follows it.
LastStart(start, end, m, n) ==
  {p \in RunPositions(n) :
     /\ IsReasoning(p, start, m)
     /\ \A q \in p + 1..n : ~ IsReasoning(q, start, m) /\ ~ IsReasoning(q, end, m)}

OpenBlock(m, n) == LastStart("REASONING_START", "REASONING_END", m, n)

OpenMessage(m, n) == LastStart("REASONING_MESSAGE_START", "REASONING_MESSAGE_END", m, n)

\* A chunk stream is open at n: a chunk with an id and a delta, followed only by
\* non-empty chunks and inputs that are not judged.
Streaming(n) ==
  \E p \in RunPositions(n) :
    /\ TypeAt(p) = "REASONING_MESSAGE_CHUNK"
    /\ log[p].event.messageId # None
    /\ \A q \in p..n :
         Judges(q) => TypeAt(q) = "REASONING_MESSAGE_CHUNK" /\ ~log[q].event.emptyDelta

\* Each start the stream leaves unanswered at n, reported at index i.
LeftUnanswered(i, n) ==
  UNION {{Finding("AGUI402", i, <<"REASONING_START", m>>, log[p].at) : p \in OpenBlock(m, n)}
         \cup {Finding("AGUI402", i, <<"REASONING_MESSAGE_START", m>>, log[p].at) :
                 p \in OpenMessage(m, n)} : m \in ReasoningIds}

\* What the n-th position deserves.
ReasoningDeserved(n) ==
  LET e == log[n].event
  IN  CASE e.type = "REASONING_MESSAGE_CONTENT" /\ e.messageId # None ->
             IF OpenMessage(e.messageId, n) = {}
             THEN {Finding("AGUI401", log[n].at, <<"-", e.messageId>>, None)} ELSE {}
        [] e.type = "REASONING_MESSAGE_CHUNK" /\ e.messageId = None ->
             IF Streaming(n - 1) THEN {}
             ELSE {Finding("AGUI504", log[n].at, <<"-", None>>, None)}
        [] e.type \in {"RUN_FINISHED", "END_OF_STREAM"} ->
             LeftUnanswered(log[n].at, n)
        [] OTHER -> {}

\* Reasoning content is reported exactly when no message of its id is started
\* (AGUI401), an id-less chunk exactly when no stream is open (AGUI504), and each
\* start left unanswered at a clean end once, at its last position (AGUI402).
ReasoningFindingsExact == log # <<>> => reasoningFound = ReasoningDeserved(Len(log))

=============================================================================
