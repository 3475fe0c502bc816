----------------------------- MODULE Reasoning -----------------------------
(***************************************************************************)
(* Reasoning of one run (rules/checks/reasoning.py): blocks and messages   *)
(* paired by id, the implicit stream opened by REASONING_MESSAGE_CHUNK,    *)
(* and rules AGUI401 and AGUI402.                                          *)
(***************************************************************************)
EXTENDS RunScope

CONSTANTS
  ReasoningIds,
  ReasoningInputs   \* bound: the reasoning events a producer may send

ReasoningEvents ==
  [type : {"REASONING_START", "REASONING_END", "REASONING_MESSAGE_START",
           "REASONING_MESSAGE_CONTENT", "REASONING_MESSAGE_END"},
   messageId : ReasoningIds \cup {None}]
  \cup
  [type : {"REASONING_MESSAGE_CHUNK"}, messageId : ReasoningIds \cup {None},
   emptyDelta : BOOLEAN]

ASSUME ReasoningIdsAssumption == None \notin ReasoningIds
ASSUME ReasoningInputsAssumption == ReasoningInputs \subseteq ReasoningEvents

VARIABLES
  openReasoningBlocks,     \* id -> index of its last REASONING_START
  openReasoningMessages,   \* id -> index of its last REASONING_MESSAGE_START
  reasoningChunk,          \* id of the open chunk stream, or None
  reasoningFound           \* diagnostics of these rules for the last input

openReasoningVars == <<openReasoningBlocks, openReasoningMessages>>
reasoningVars == <<scopeVars, openReasoningVars, reasoningChunk, reasoningFound>>

\* AGUI402 names the start that is not answered, so that a block and a message
\* with one id are told apart.
ReasoningFindings ==
  [rule : {"AGUI401", "AGUI402", "AGUI504"}, at : Indices,
   id : ({"-", "REASONING_START", "REASONING_MESSAGE_START"} \X (ReasoningIds \cup {None})),
   related : Nat \cup {None}]

ReasoningTypeOK ==
  /\ ScopeTypeOK
  /\ IsDict(openReasoningBlocks, ReasoningIds, Nat)
  /\ IsDict(openReasoningMessages, ReasoningIds, Nat)
  /\ reasoningChunk \in ReasoningIds \cup {None}
  /\ reasoningFound \subseteq ReasoningFindings

ReasoningInit ==
  /\ ScopeInit
  /\ openReasoningBlocks = EmptyDict
  /\ openReasoningMessages = EmptyDict
  /\ reasoningChunk = None
  /\ reasoningFound = {}

-----------------------------------------------------------------------------
\* A start of an id that is open overwrites the index of the earlier one.
ReasoningStart(e) ==
  /\ e.type \in {"REASONING_START", "REASONING_MESSAGE_START"}
  /\ Judged
  /\ reasoningChunk' = None
  /\ reasoningFound' = {}
  /\ \/ /\ e.messageId = None
        /\ UNCHANGED openReasoningVars
     \/ /\ e.messageId # None
        /\ e.type = "REASONING_START"
        /\ openReasoningBlocks' = Put(openReasoningBlocks, e.messageId, eventCount)
        /\ UNCHANGED openReasoningMessages
     \/ /\ e.messageId # None
        /\ e.type = "REASONING_MESSAGE_START"
        /\ openReasoningMessages' = Put(openReasoningMessages, e.messageId, eventCount)
        /\ UNCHANGED openReasoningBlocks

\* An end of an id that is not open is tolerated.
ReasoningEnd(e) ==
  /\ e.type \in {"REASONING_END", "REASONING_MESSAGE_END"}
  /\ Judged
  /\ reasoningChunk' = None
  /\ reasoningFound' = {}
  /\ \/ /\ e.type = "REASONING_END"
        /\ openReasoningBlocks' = Drop(openReasoningBlocks, e.messageId)
        /\ UNCHANGED openReasoningMessages
     \/ /\ e.type = "REASONING_MESSAGE_END"
        /\ openReasoningMessages' = Drop(openReasoningMessages, e.messageId)
        /\ UNCHANGED openReasoningBlocks

\* The chunk stream is closed before the handler looks at it, so only a started
\* message makes content legal.
ReasoningContent(e) ==
  /\ e.type = "REASONING_MESSAGE_CONTENT"
  /\ Judged
  /\ reasoningChunk' = None
  /\ UNCHANGED openReasoningVars
  /\ reasoningFound' =
       IF e.messageId \in DOMAIN openReasoningMessages \cup {None} THEN {}
       ELSE {Finding("AGUI401", eventCount, <<"-", e.messageId>>, None)}

\* An empty delta closes the stream; a chunk of another id replaces it.
ReasoningMessageChunk(e) ==
  /\ e.type = "REASONING_MESSAGE_CHUNK"
  /\ Judged
  /\ UNCHANGED openReasoningVars
  /\ \/ /\ e.messageId = None /\ reasoningChunk = None
        /\ reasoningFound' = {Finding("AGUI504", eventCount, <<"-", None>>, None)}
        /\ UNCHANGED reasoningChunk
     \/ /\ e.messageId # None \/ reasoningChunk # None
        /\ reasoningFound' = {}
        /\ reasoningChunk' = CASE e.emptyDelta -> None
                               [] ~e.emptyDelta /\ e.messageId = None -> reasoningChunk
                               [] OTHER -> e.messageId

ReasoningEvent(e) ==
  \/ ReasoningStart(e)
  \/ ReasoningEnd(e)
  \/ ReasoningContent(e)
  \/ ReasoningMessageChunk(e)

-----------------------------------------------------------------------------
\* Mutant: an event of another component leaves the chunk stream open.
KeepsReasoningChunk ==
  /\ Judged
  /\ reasoningFound' = {}
  /\ UNCHANGED <<openReasoningVars, reasoningChunk>>

\* Inputs of the other components.  REASONING_ENCRYPTED_VALUE is one of them:
\* it has no rule of its own.
ReasoningElsewhere ==
  /\ Judged
  /\ reasoningChunk' = None
  /\ reasoningFound' = {}
  /\ UNCHANGED openReasoningVars

ReasoningUnjudged ==
  /\ Unjudged
  /\ reasoningFound' = {}
  /\ UNCHANGED <<openReasoningVars, reasoningChunk>>

ReasoningNewRun ==
  /\ NewRun
  /\ openReasoningBlocks' = EmptyDict
  /\ openReasoningMessages' = EmptyDict
  /\ reasoningChunk' = None
  /\ reasoningFound' = {}

\* AGUI402: end_of_run_reasoning.
UnterminatedReasoning(at) ==
  {Finding("AGUI402", at, <<"REASONING_START", m>>, openReasoningBlocks[m]) :
     m \in DOMAIN openReasoningBlocks}
  \cup
  {Finding("AGUI402", at, <<"REASONING_MESSAGE_START", m>>, openReasoningMessages[m]) :
     m \in DOMAIN openReasoningMessages}

ReasoningEnds(type) ==
  /\ Ends(type)
  /\ reasoningChunk' = None
  /\ reasoningFound' =
       IF type = "RUN_FINISHED" THEN UnterminatedReasoning(eventCount) ELSE {}
  /\ UNCHANGED openReasoningVars

ReasoningFinalize ==
  /\ Finalizes
  /\ reasoningChunk' = IF terminal = None THEN None ELSE reasoningChunk
  /\ reasoningFound' = IF terminal = None THEN UnterminatedReasoning(AtEndOfStream) ELSE {}
  /\ UNCHANGED openReasoningVars

ReasoningNext ==
  \/ \E e \in ReasoningInputs : ReasoningEvent(e)
  \/ ReasoningElsewhere
  \/ ReasoningUnjudged
  \/ ReasoningNewRun
  \/ \E type \in TerminalTypes : ReasoningEnds(type)
  \/ ReasoningFinalize

ReasoningSpec == ReasoningInit /\ [][ReasoningNext]_reasoningVars

=============================================================================
