---------------------------- MODULE ToolHistory ----------------------------
(***************************************************************************)
(* ToolCalls with the whole stream remembered, so that what the rules      *)
(* report can be compared with what the stream itself says.                *)
(***************************************************************************)
EXTENDS ToolCalls, Forms

historyVars == <<toolVars, log>>

HistoryInit == ToolInit /\ log = <<>>

HistoryNext ==
  \/ /\ ~finalized   \* every caller in the repository finalizes last
     /\ \/ \E e \in ToolInputs : ToolEvent(e) /\ Logs(eventCount, e)
        \/ \E seen \in SeenMessages :
             /\ ToolElsewhere
             /\ UNCHANGED knownToolCallIds
             /\ SeeMessage(seen[1], seen[2])
             /\ Logs(eventCount, [type |-> "MESSAGE", messageId |-> seen[1], owner |-> seen[2]])
        \/ /\ ToolElsewhere
           /\ UNCHANGED <<knownToolCallIds, sharedMessageVars>>
           /\ Logs(eventCount, Mark("OTHER"))
        \/ \E history \in Histories :
             /\ MessagesSnapshot(history[1], history[2])
             /\ UNCHANGED messageOwner
             /\ Logs(eventCount, [type |-> "MESSAGES_SNAPSHOT",
                                  messages |-> history[1], calls |-> history[2]])
        \/ ToolUnjudged /\ Logs(eventCount, Mark("UNJUDGED"))
        \/ ToolNewRun /\ Logs(eventCount, Mark("RUN_STARTED"))
        \/ \E type \in TerminalTypes : ToolEnds(type) /\ Logs(eventCount, Mark(type))
  \/ ToolFinalize /\ Logs(AtEndOfStream, EndOfStreamMark)

HistorySpec == HistoryInit /\ [][HistoryNext]_historyVars

-----------------------------------------------------------------------------
(* What the stream says, by quantifiers over positions of the log.          *)

\* Position q adds its delta to the arguments of c, introduced at p.
Extends(q, p, c) ==
  /\ \/ NamedAt(Call, q, "TOOL_CALL_CHUNK", c)
     \/ IF NamedAt(Call, p, "TOOL_CALL_START", c)
        THEN NamedAt(Call, q, "TOOL_CALL_ARGS", c)
        ELSE NamedAt(Call, q, "TOOL_CALL_CHUNK", None)
  /\ log[q].event.delta # None

Additions(c, n) ==
  {q \in 1..n : \E p \in IntroducedAt(Call, c, n) : p <= q /\ Extends(q, p, c)}

\* The deltas at the positions, in order.
Deltas(positions) ==
  [k \in 1..Cardinality(positions) |-> log[The(Nth(positions, k))].event.delta]

\* The arguments c received up to n.
ArgumentsOf(c, n) == Deltas(Additions(c, n))

Malformed(c, n) == ArgumentsOf(c, n) \notin JsonTexts \cup {<<>>}

\* The events that recorded an owner for message m.
Sightings(m, n) ==
  {q \in RunPositions(n) : TypeAt(q) = "MESSAGE" /\ log[q].event.messageId = m}

\* The owner the START at p was given: its tag, or else the owner last recorded
\* for its parent message.
OwnerOf(p) ==
  LET e == log[p].event
      seen == Sightings(e.parentMessageId, p)
  IN  IF e.subagentRunId # None \/ seen = {} THEN e.subagentRunId
      ELSE log[The(Latest(seen))].event.owner

KnownMessage(m, n) ==
  \E q \in RunPositions(n) :
    \/ TypeAt(q) \in {"MESSAGE", "TOOL_CALL_RESULT"} /\ log[q].event.messageId = m
    \/ TypeAt(q) = "MESSAGES_SNAPSHOT" /\ m \in log[q].event.messages

KnownCall(c, n) ==
  \E q \in RunPositions(n) : TypeAt(q) = "MESSAGES_SNAPSHOT" /\ c \in log[q].event.calls

\* A report at index i about c, related to each of the indices.
AboutEach(rule, i, c, indices) == {Finding(rule, i, c, k) : k \in indices}

\* What the owners of the calls started at the positions make of an event of c.
Disowned(i, c, tag, positions) ==
  UNION {OwnerFindings(i, c, tag, OwnerOf(p)) : p \in positions}

\* What the n-th position deserves for ending c with arguments that do not parse.
OfArguments(c, n) ==
  IF n \in ClosedAt(Call, c, n) /\ Malformed(c, n - 1)
  THEN AboutEach("AGUI204", log[n].at, c, IndicesOf(IntroducedAt(Call, c, n))) ELSE {}

DeservedAtEnds(n) == UNION {OfArguments(c, n) : c \in ToolCallIds}

\* What the n-th position deserves that names a call which starts holds open and
\* the event of this index, if any, has closed.
OfCall(n, starts, closings) ==
  LET e == log[n].event
      i == log[n].at
      c == e.toolCallId
  IN  CASE e.type = "TOOL_CALL_START" ->
             IF starts # {} THEN AboutEach("AGUI205", i, c, IndicesOf(starts))
             ELSE IF closings # {} THEN AboutEach("AGUI205", i, c, closings)
             ELSE IF e.parentMessageId = None \/ KnownMessage(e.parentMessageId, n) THEN {}
             ELSE AboutEach("AGUI208", i, e.parentMessageId, {None})
        [] e.type = "TOOL_CALL_ARGS" ->
             IF starts = {} THEN AboutEach("AGUI201", i, c, {None})
             ELSE Disowned(i, c, e.subagentRunId, starts)
        [] e.type = "TOOL_CALL_END" ->
             IF starts = {} THEN AboutEach("AGUI202", i, c, {None})
             ELSE Disowned(i, c, e.subagentRunId, starts)
        [] e.type = "TOOL_CALL_RESULT" ->
             IF starts # {} THEN AboutEach("AGUI206", i, c, IndicesOf(starts))
             ELSE IF closings # {} \/ KnownCall(c, n) THEN {}
             ELSE AboutEach("AGUI207", i, c, {None})
        [] e.type = "TOOL_CALL_CHUNK" ->
             IF starts # {} THEN {}
             ELSE IF closings # {} THEN AboutEach("AGUI205", i, c, closings)
             ELSE IF ~e.named /\ n \in IntroducedAt(Call, c, n)
             THEN AboutEach("AGUI504", i, None, {None}) ELSE {}

CallTypes == {"TOOL_CALL_START", "TOOL_CALL_ARGS", "TOOL_CALL_END", "TOOL_CALL_RESULT",
              "TOOL_CALL_CHUNK"}

\* What the end of a run at index i deserves for the calls open at n.
LeftOpen(i, n) ==
  UNION {AboutEach("AGUI203", i, c, IndicesOf(StartedAt(Call, c, n))) : c \in ToolCallIds}

\* The diagnostics the n-th position deserves by itself.
DeservedByEvent(n) ==
  LET e == log[n].event
  IN  CASE e.type \in CallTypes /\ e.toolCallId # None ->
             OfCall(n, StartedAt(Call, e.toolCallId, n - 1),
                    IndicesOf(ClosedAt(Call, e.toolCallId, n)))
        [] e.type = "TOOL_CALL_CHUNK" /\ e.toolCallId = None
             /\ \A c \in ToolCallIds : StreamedAt(Call, c, n - 1) = {} ->
             AboutEach("AGUI504", log[n].at, None, {None})
        [] e.type \in {"RUN_FINISHED", "END_OF_STREAM"} -> LeftOpen(log[n].at, n)
        [] OTHER -> {}

\* Every input is reported exactly as the stream up to it deserves: no
\* violation of AGUI201 to AGUI208, AGUI606 or the first-chunk rule is missed,
\* none is invented, the arguments judged are those of the right call, and each
\* diagnostic names the right earlier event.
ToolFindingsExact ==
  log # <<>> =>
    toolFound = DeservedAtEnds(Len(log)) \cup DeservedByEvent(Len(log))

\* The engine attributes to each open call the arguments, the start and the
\* owner the stream gave it.
OpenCallsExact ==
  \A c \in ToolCallIds :
    /\ c \in DOMAIN openToolCalls <=> Started(Call, c, Len(log))
    /\ \A p \in StartedAt(Call, c, Len(log)) :
         openToolCalls[c] = [start |-> log[p].at,
                             args |-> ArgumentsOf(c, Len(log)),
                             owner |-> OwnerOf(p)]

=============================================================================
