----------------------------- MODULE ToolCalls -----------------------------
(***************************************************************************)
(* Tool calls of one run (rules/checks/toolcalls.py): the tool call        *)
(* dictionaries of RunState, the implicit stream opened by                 *)
(* TOOL_CALL_CHUNK, the accumulated arguments, and rules AGUI201 to        *)
(* AGUI208 and AGUI606.                                                    *)
(*                                                                         *)
(* Arguments are the sequence of the non-empty deltas received: a string   *)
(* concatenation is JSON or not, and that is all the rules ask of it.  An  *)
(* empty delta adds nothing, so it is the absent delta, None; saw_args is  *)
(* true whenever a fragment was received and needs no variable.            *)
(***************************************************************************)
EXTENDS RunScope, Sequences

CONSTANTS
  MessageIds,
  ToolCallIds,
  Fragments,     \* non-empty pieces of arguments text
  JsonTexts,     \* the sequences of fragments whose concatenation parses
  ToolInputs,    \* bound: the tool call events a producer may send
  SeenMessages,  \* bound: the <<id, owner>> pairs a text event may record
  Histories      \* bound: the <<message ids, call ids>> of MESSAGES_SNAPSHOTs

Ids(S) == S \cup {None}

ToolEvents ==
  [type : {"TOOL_CALL_START"}, toolCallId : Ids(ToolCallIds),
   parentMessageId : Ids(MessageIds), subagentRunId : Ids(Owners)]
  \cup
  [type : {"TOOL_CALL_ARGS"}, toolCallId : Ids(ToolCallIds),
   delta : Ids(Fragments), subagentRunId : Ids(Owners)]
  \cup
  [type : {"TOOL_CALL_END"}, toolCallId : Ids(ToolCallIds), subagentRunId : Ids(Owners)]
  \cup
  [type : {"TOOL_CALL_RESULT"}, toolCallId : Ids(ToolCallIds), messageId : Ids(MessageIds)]
  \cup
  [type : {"TOOL_CALL_CHUNK"}, toolCallId : Ids(ToolCallIds),
   delta : Ids(Fragments), named : BOOLEAN]

ASSUME ToolIdsAssumption == None \notin ToolCallIds \cup MessageIds \cup Fragments
ASSUME NoToolChunkAssumption ==
  None \notin [id : ToolCallIds, start : Nat, args : Seq(Fragments)]
ASSUME JsonTextsAssumption == JsonTexts \subseteq Seq(Fragments)
ASSUME ToolInputsAssumption == ToolInputs \subseteq ToolEvents
ASSUME SeenMessagesAssumption == SeenMessages \subseteq MessageIds \X Tags
ASSUME HistoriesAssumption == Histories \subseteq (SUBSET MessageIds) \X (SUBSET ToolCallIds)

VARIABLES
  openToolCalls,     \* id -> [start, args, owner]
  closedToolCalls,   \* id -> index of the event that closed it
  knownToolCallIds,  \* ids harvested from MESSAGES_SNAPSHOT
  toolChunk,         \* the open chunk stream [id, start, args], or None
  toolFound,         \* diagnostics of these rules for the last input
  knownMessageIds,   \* shared with TextMessages
  messageOwner       \* owned by TextMessages, read here

toolCallVars == <<openToolCalls, closedToolCalls, toolChunk>>
sharedMessageVars == <<knownMessageIds, messageOwner>>
toolVars == <<scopeVars, toolCallVars, knownToolCallIds, toolFound, sharedMessageVars>>

ToolRules == {"AGUI201", "AGUI202", "AGUI203", "AGUI204", "AGUI205", "AGUI206",
              "AGUI207", "AGUI208", "AGUI504", "AGUI606"}

ToolFindings ==
  [rule : ToolRules, at : Indices,
   id : Ids(ToolCallIds \cup MessageIds), related : Indices \cup {None}]

ToolTypeOK ==
  /\ ScopeTypeOK
  /\ IsDict(openToolCalls, ToolCallIds,
            [start : Nat, args : Seq(Fragments), owner : Tags])
  /\ IsDict(closedToolCalls, ToolCallIds, Indices)
  /\ knownToolCallIds \subseteq ToolCallIds
  /\ toolChunk \in [id : ToolCallIds, start : Nat, args : Seq(Fragments)] \cup {None}
  /\ toolFound \subseteq ToolFindings
  /\ knownMessageIds \subseteq MessageIds
  /\ IsDict(messageOwner, MessageIds, Tags)

ToolInit ==
  /\ ScopeInit
  /\ openToolCalls = EmptyDict
  /\ closedToolCalls = EmptyDict
  /\ knownToolCallIds = {}
  /\ toolChunk = None
  /\ toolFound = {}
  /\ knownMessageIds = {}
  /\ messageOwner = EmptyDict

-----------------------------------------------------------------------------
ChunkId == IF toolChunk = None THEN None ELSE toolChunk.id

\* Mutant: a call that received no arguments is judged too.
JudgesNoArgs(at, id, args, start) ==
  IF args \in JsonTexts THEN {} ELSE {Finding("AGUI204", at, id, start)}

\* AGUI204: the arguments of a call that ends must parse, if there are any.
ArgsFindings(at, id, args, start) ==
  IF args = <<>> \/ args \in JsonTexts THEN {}
  ELSE {Finding("AGUI204", at, id, start)}

\* Mutants: the id is recorded although no chunk stream is open; the call of a
\* chunk stream replaces the calls closed before it.
RecordsAbsentToolChunk(at) == Put(closedToolCalls, ChunkId, at)
ForgetsClosedCalls(at) ==
  IF toolChunk = None THEN closedToolCalls ELSE Put(EmptyDict, toolChunk.id, at)

\* closed_tool_calls and the diagnostics once close_tool_chunk(run, at) has run.
ClosedOnceToolChunkEnds(at) ==
  IF toolChunk = None THEN closedToolCalls ELSE Put(closedToolCalls, toolChunk.id, at)

ToolChunkFindings(at) ==
  IF toolChunk = None THEN {}
  ELSE ArgsFindings(at, toolChunk.id, toolChunk.args, toolChunk.start)

\* Mutant: the chunk stream's call is recorded as closed, and the stream kept.
KeepsToolChunk(at, findings) ==
  /\ UNCHANGED toolChunk
  /\ closedToolCalls' = ClosedOnceToolChunkEnds(at)
  /\ toolFound' = ToolChunkFindings(at) \cup findings

\* The chunk stream is closed, and the event itself reports findings.
CloseToolChunkAndReport(at, findings) ==
  /\ toolChunk' = None
  /\ closedToolCalls' = ClosedOnceToolChunkEnds(at)
  /\ toolFound' = ToolChunkFindings(at) \cup findings

About(rule, id, related) == {Finding(rule, eventCount, id, related)}

\* Mutant: a delta is put before the arguments received so far.
Prepend(args, delta) == IF delta = None THEN args ELSE <<delta>> \o args

Extend(args, delta) == IF delta = None THEN args ELSE Append(args, delta)

\* An untagged call belongs to the owner of its parent message.
CallOwner(e) ==
  IF e.subagentRunId = None /\ e.parentMessageId \in DOMAIN messageOwner
  THEN messageOwner[e.parentMessageId] ELSE e.subagentRunId

ToolCallStart(e) ==
  LET c == e.toolCallId
      closed == ClosedOnceToolChunkEnds(eventCount)
  IN  /\ e.type = "TOOL_CALL_START"
      /\ Judged
      /\ UNCHANGED <<knownToolCallIds, sharedMessageVars>>
      /\ \/ /\ c = None
            /\ CloseToolChunkAndReport(eventCount, {})
            /\ UNCHANGED openToolCalls
         \/ /\ c \in DOMAIN openToolCalls
            /\ CloseToolChunkAndReport(eventCount, About("AGUI205", c, openToolCalls[c].start))
            /\ UNCHANGED openToolCalls
         \/ /\ c \in DOMAIN closed \ DOMAIN openToolCalls
            /\ CloseToolChunkAndReport(eventCount, About("AGUI205", c, closed[c]))
            /\ UNCHANGED openToolCalls
         \/ /\ c \in ToolCallIds \ (DOMAIN openToolCalls \cup DOMAIN closed)
            /\ openToolCalls' = Put(openToolCalls, c,
                 [start |-> eventCount, args |-> <<>>, owner |-> CallOwner(e)])
            /\ CloseToolChunkAndReport(eventCount,
                 IF e.parentMessageId \in knownMessageIds \cup {None} THEN {}
                 ELSE About("AGUI208", e.parentMessageId, None))

ToolCallArgs(e) ==
  LET c == e.toolCallId
  IN  /\ e.type = "TOOL_CALL_ARGS"
      /\ Judged
      /\ UNCHANGED <<knownToolCallIds, sharedMessageVars>>
      /\ \/ /\ c = None
            /\ CloseToolChunkAndReport(eventCount, {})
            /\ UNCHANGED openToolCalls
         \/ /\ c \in ToolCallIds \ DOMAIN openToolCalls
            /\ CloseToolChunkAndReport(eventCount, About("AGUI201", c, None))
            /\ UNCHANGED openToolCalls
         \/ /\ c \in DOMAIN openToolCalls
            /\ openToolCalls' =
                 [openToolCalls EXCEPT ![c].args = Extend(@, e.delta)]
            /\ CloseToolChunkAndReport(eventCount,
                 OwnerFindings(eventCount, c, e.subagentRunId, openToolCalls[c].owner))

ToolCallEnd(e) ==
  LET c == e.toolCallId
      closed == ClosedOnceToolChunkEnds(eventCount)
  IN  /\ e.type = "TOOL_CALL_END"
      /\ Judged
      /\ UNCHANGED <<knownToolCallIds, sharedMessageVars>>
      /\ \/ /\ c = None
            /\ CloseToolChunkAndReport(eventCount, {})
            /\ UNCHANGED openToolCalls
         \/ /\ c \in ToolCallIds \ DOMAIN openToolCalls
            /\ CloseToolChunkAndReport(eventCount, About("AGUI202", c, None))
            /\ UNCHANGED openToolCalls
         \/ /\ c \in DOMAIN openToolCalls
            /\ toolChunk' = None
            /\ openToolCalls' = Drop(openToolCalls, c)
            /\ closedToolCalls' = Put(closed, c, eventCount)
            /\ LET call == openToolCalls[c]
               IN  toolFound' =
                     ToolChunkFindings(eventCount)
                     \cup OwnerFindings(eventCount, c, e.subagentRunId, call.owner)
                     \cup ArgsFindings(eventCount, c, call.args, call.start)

\* The result is itself a message, so its id becomes known.
ToolCallResult(e) ==
  LET c == e.toolCallId
      known == DOMAIN ClosedOnceToolChunkEnds(eventCount) \cup knownToolCallIds
  IN  /\ e.type = "TOOL_CALL_RESULT"
      /\ Judged
      /\ knownMessageIds' = knownMessageIds \cup ({e.messageId} \ {None})
      /\ UNCHANGED <<openToolCalls, knownToolCallIds, messageOwner>>
      /\ \/ /\ c \in DOMAIN openToolCalls
            /\ CloseToolChunkAndReport(eventCount, About("AGUI206", c, openToolCalls[c].start))
         \/ /\ c \in ToolCallIds \ (DOMAIN openToolCalls \cup known)
            /\ CloseToolChunkAndReport(eventCount, About("AGUI207", c, None))
         \/ /\ c \in {None} \cup (known \ DOMAIN openToolCalls)
            /\ CloseToolChunkAndReport(eventCount, {})

\* A chunk with no id, or of a call that is open in either form, adds its delta
\* there.  One that names another call closes the stream and opens its own.
ToolCallChunk(e) ==
  LET c == e.toolCallId
      closed == ClosedOnceToolChunkEnds(eventCount)
  IN  /\ e.type = "TOOL_CALL_CHUNK"
      /\ Judged
      /\ UNCHANGED <<knownToolCallIds, sharedMessageVars>>
      /\ \/ /\ c = None /\ toolChunk = None
            /\ toolFound' = About("AGUI504", None, None)
            /\ UNCHANGED toolCallVars
         \/ /\ c \in DOMAIN openToolCalls
            /\ openToolCalls' =
                 [openToolCalls EXCEPT ![c].args = Extend(@, e.delta)]
            /\ toolFound' = {}
            /\ UNCHANGED <<closedToolCalls, toolChunk>>
         \/ /\ toolChunk # None
            /\ c \in {None, toolChunk.id}
            /\ toolChunk' = [toolChunk EXCEPT !.args = Extend(@, e.delta)]
            /\ toolFound' = {}
            /\ UNCHANGED <<openToolCalls, closedToolCalls>>
         \/ /\ c \in DOMAIN closed \ (DOMAIN openToolCalls \cup {ChunkId})
            /\ CloseToolChunkAndReport(eventCount, About("AGUI205", c, closed[c]))
            /\ UNCHANGED openToolCalls
         \/ /\ c \in ToolCallIds \ (DOMAIN openToolCalls \cup DOMAIN closed)
            /\ toolChunk' = [id |-> c, start |-> eventCount,
                             args |-> Extend(<<>>, e.delta)]
            /\ closedToolCalls' = closed
            /\ toolFound' = ToolChunkFindings(eventCount)
                            \cup IF e.named THEN {} ELSE About("AGUI504", None, None)
            /\ UNCHANGED openToolCalls

ToolEvent(e) ==
  \/ ToolCallStart(e)
  \/ ToolCallArgs(e)
  \/ ToolCallEnd(e)
  \/ ToolCallResult(e)
  \/ ToolCallChunk(e)

-----------------------------------------------------------------------------
\* Inputs of the other components, as the tool call dictionaries see them.

\* Any other judged event closes the chunk stream.
ToolElsewhere ==
  /\ Judged
  /\ CloseToolChunkAndReport(eventCount, {})
  /\ UNCHANGED openToolCalls

\* The first event of a message records its owner.
SeeMessage(m, owner) ==
  /\ knownMessageIds' = knownMessageIds \cup {m}
  /\ messageOwner' = Put(messageOwner, m, owner)

\* MESSAGES_SNAPSHOT (state.py): ids of the history it carries become known, so
\* that references to them are not reported.
MessagesSnapshot(messages, calls) ==
  /\ ToolElsewhere
  /\ knownMessageIds' = knownMessageIds \cup messages
  /\ knownToolCallIds' = knownToolCallIds \cup calls

ToolUnjudged ==
  /\ Unjudged
  /\ toolFound' = {}
  /\ UNCHANGED <<toolCallVars, knownToolCallIds, sharedMessageVars>>

\* new_run_state, for the tool calls; the message dictionaries are emptied too.
ToolNewRun ==
  /\ NewRun
  /\ openToolCalls' = EmptyDict
  /\ closedToolCalls' = EmptyDict
  /\ knownToolCallIds' = {}
  /\ toolChunk' = None
  /\ toolFound' = {}
  /\ knownMessageIds' = {}
  /\ messageOwner' = EmptyDict

\* AGUI203: end_of_run_tool_calls.
UnterminatedCalls(at) ==
  {Finding("AGUI203", at, c, openToolCalls[c].start) : c \in DOMAIN openToolCalls}

ToolEnds(type) ==
  /\ Ends(type)
  /\ CloseToolChunkAndReport(eventCount,
       IF type = "RUN_FINISHED" THEN UnterminatedCalls(eventCount) ELSE {})
  /\ UNCHANGED <<openToolCalls, knownToolCallIds, sharedMessageVars>>

ToolFinalize ==
  /\ Finalizes
  /\ UNCHANGED <<openToolCalls, knownToolCallIds, sharedMessageVars>>
  /\ \/ /\ terminal = None
        /\ CloseToolChunkAndReport(AtEndOfStream, UnterminatedCalls(AtEndOfStream))
     \/ /\ terminal # None
        /\ toolFound' = {}
        /\ UNCHANGED <<closedToolCalls, toolChunk>>

ToolNext ==
  \/ \E e \in ToolInputs : ToolEvent(e)
  \/ \E seen \in SeenMessages :
       ToolElsewhere /\ UNCHANGED knownToolCallIds /\ SeeMessage(seen[1], seen[2])
  \/ ToolElsewhere /\ UNCHANGED <<knownToolCallIds, sharedMessageVars>>
  \/ \E history \in Histories :
       MessagesSnapshot(history[1], history[2]) /\ UNCHANGED messageOwner
  \/ ToolUnjudged
  \/ ToolNewRun
  \/ \E type \in TerminalTypes : ToolEnds(type)
  \/ ToolFinalize

ToolSpec == ToolInit /\ [][ToolNext]_toolVars

-----------------------------------------------------------------------------
\* A tool call id is in at most one of its forms: opened by START, streamed by
\* chunks, or closed.
CallHasOneForm ==
  /\ DOMAIN openToolCalls \cap DOMAIN closedToolCalls = {}
  /\ ChunkId \notin DOMAIN openToolCalls \cup DOMAIN closedToolCalls

\* Within a run, a call that closed stays closed at the index recorded then, and
\* a call keeps its start and its owner and only gains arguments until it ends.
KeepsClosedCalls ==
  \A c \in DOMAIN closedToolCalls :
    c \in DOMAIN closedToolCalls' /\ closedToolCalls'[c] = closedToolCalls[c]

KeepsOpenCalls ==
  \A c \in DOMAIN openToolCalls :
    \/ c \in DOMAIN closedToolCalls'
    \/ /\ c \in DOMAIN openToolCalls'
       /\ openToolCalls'[c].start = openToolCalls[c].start
       /\ openToolCalls'[c].owner = openToolCalls[c].owner
       /\ SubSeq(openToolCalls'[c].args, 1, Len(openToolCalls[c].args)) = openToolCalls[c].args

CallHistoryIsStable ==
  [][ SameRun => KeepsClosedCalls /\ KeepsOpenCalls ]_toolVars

=============================================================================
