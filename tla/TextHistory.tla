---------------------------- MODULE TextHistory ----------------------------
(***************************************************************************)
(* TextMessages with the whole stream remembered, so that what the rules   *)
(* report can be compared with what the stream itself says.                *)
(***************************************************************************)
EXTENDS TextMessages, Forms

historyVars == <<textVars, log>>

HistoryInit == TextInit /\ log = <<>>

HistoryNext ==
  \/ /\ ~finalized   \* every caller in the repository finalizes last
     /\ \/ \E e \in TextInputs : TextEvent(e) /\ Logs(eventCount, e)
        \/ \E ms \in Learnable :
             TextElsewhere /\ LearnMessageIds(ms) /\ Logs(eventCount, Mark("OTHER"))
        \/ TextUnjudged /\ Logs(eventCount, Mark("UNJUDGED"))
        \/ TextNewRun /\ Logs(eventCount, Mark("RUN_STARTED"))
        \/ \E type \in TerminalTypes : TextEnds(type) /\ Logs(eventCount, Mark(type))
  \/ TextFinalize /\ Logs(AtEndOfStream, EndOfStreamMark)

HistorySpec == HistoryInit /\ [][HistoryNext]_historyVars

-----------------------------------------------------------------------------
(* What the stream says, by quantifiers over positions of the log.          *)

\* A report at index i about m, related to each of the indices.
About(rule, i, m, indices) == {Finding(rule, i, m, k) : k \in indices}

\* What the owners of the events at the positions make of an event of m.
Disowned(i, m, tag, positions) ==
  UNION {OwnerFindings(i, m, tag, log[p].event.subagentRunId) : p \in positions}

\* What an event of m deserves whose message these positions hold open and
\* the event of this index, if any, has closed.
OfMessage(i, e, starts, closings) ==
  LET m == e.messageId
      Owned == Disowned(i, m, e.subagentRunId, starts)
  IN  CASE e.type = "TEXT_MESSAGE_START" ->
             IF starts # {} THEN About("AGUI106", i, m, IndicesOf(starts))
             ELSE About("AGUI104", i, m, closings)
        [] e.type = "TEXT_MESSAGE_CHUNK" ->
             IF starts # {} THEN {} ELSE About("AGUI104", i, m, closings)
        [] e.type = "TEXT_MESSAGE_CONTENT" ->
             IF starts = {}
             THEN About("AGUI101", i, m, IF closings = {} THEN {None} ELSE closings)
             ELSE Owned \cup (IF e.emptyDelta
                              THEN About("AGUI105", i, m, IndicesOf(starts)) ELSE {})
        [] e.type = "TEXT_MESSAGE_END" ->
             IF starts = {} THEN About("AGUI102", i, m, {None}) ELSE Owned

MessageTypes == {"TEXT_MESSAGE_START", "TEXT_MESSAGE_CHUNK", "TEXT_MESSAGE_CONTENT",
                 "TEXT_MESSAGE_END"}

\* What the end of a run at index i deserves for the messages open at n.
LeftOpen(i, n) == UNION {About("AGUI103", i, m, IndicesOf(StartedAt(Message, m, n))) : m \in MessageIds}

\* The diagnostics the stream deserves at its n-th position.
TextDeserved(n) ==
  LET e == log[n].event
      i == log[n].at
  IN  CASE e.type \in MessageTypes /\ e.messageId # None ->
             OfMessage(i, e, StartedAt(Message, e.messageId, n - 1),
                       IndicesOf(ClosedAt(Message, e.messageId, n)))
        [] e.type = "TEXT_MESSAGE_CHUNK" /\ e.messageId = None
             /\ \A m \in MessageIds : StreamedAt(Message, m, n - 1) = {} ->
             About("AGUI504", i, None, {None})
        [] e.type \in {"RUN_FINISHED", "END_OF_STREAM"} -> LeftOpen(i, n)
        [] OTHER -> {}

\* Every input is reported exactly as the stream up to it deserves: no
\* violation of AGUI101 to AGUI106, AGUI606 or the first-chunk rule is missed,
\* none is invented, and each names the right earlier event.
TextFindingsExact == log # <<>> => textFound = TextDeserved(Len(log))

\* The engine's dictionaries say what the stream says.
OpenMessagesExact ==
  \A m \in MessageIds :
    /\ m \in DOMAIN openMessages <=> Started(Message, m, Len(log))
    /\ m \in DOMAIN closedMessages <=> ClosedAt(Message, m, Len(log)) # {}

=============================================================================
