---------------------------- MODULE TextMessages ----------------------------
(***************************************************************************)
(* Text messages of one run (rules/checks/text.py): the message            *)
(* dictionaries of RunState, the implicit stream opened by                 *)
(* TEXT_MESSAGE_CHUNK, and rules AGUI101 to AGUI106 and AGUI606.           *)
(***************************************************************************)
EXTENDS RunScope

CONSTANTS
  MessageIds,
  TextInputs,   \* bound: the text events a producer may send
  Learnable     \* bound: the sets of ids another event may teach at once

TextEvents ==
  [type : {"TEXT_MESSAGE_START", "TEXT_MESSAGE_END", "TEXT_MESSAGE_CHUNK"},
   messageId : MessageIds \cup {None}, subagentRunId : Owners \cup {None}]
  \cup
  [type : {"TEXT_MESSAGE_CONTENT"}, messageId : MessageIds \cup {None},
   subagentRunId : Owners \cup {None}, emptyDelta : BOOLEAN]

ASSUME MessageIdsAssumption == None \notin MessageIds
ASSUME TextInputsAssumption == TextInputs \subseteq TextEvents
ASSUME LearnableAssumption == Learnable \subseteq SUBSET MessageIds

VARIABLES
  openMessages,      \* id -> [start, owner]
  closedMessages,    \* id -> index of the event that closed it
  knownMessageIds,   \* every id observed in the run
  messageOwner,      \* id -> owner, kept after the message closes
  textChunk,         \* id of the open chunk stream, or None
  textFound          \* diagnostics of these rules for the last input

messageVars == <<openMessages, closedMessages, textChunk>>
textVars == <<scopeVars, messageVars, knownMessageIds, messageOwner, textFound>>

TextRules == {"AGUI101", "AGUI102", "AGUI103", "AGUI104", "AGUI105", "AGUI106",
              "AGUI504", "AGUI606"}

TextFindings ==
  [rule : TextRules, at : Indices,
   id : MessageIds \cup {None}, related : Indices \cup {None}]

TextTypeOK ==
  /\ ScopeTypeOK
  /\ IsDict(openMessages, MessageIds, [start : Nat, owner : Tags])
  /\ IsDict(closedMessages, MessageIds, Indices)
  /\ knownMessageIds \subseteq MessageIds
  /\ IsDict(messageOwner, MessageIds, Tags)
  /\ textChunk \in MessageIds \cup {None}
  /\ textFound \subseteq TextFindings

TextInit ==
  /\ ScopeInit
  /\ openMessages = EmptyDict
  /\ closedMessages = EmptyDict
  /\ knownMessageIds = {}
  /\ messageOwner = EmptyDict
  /\ textChunk = None
  /\ textFound = {}

-----------------------------------------------------------------------------
\* Mutants: the chunk's id is recorded although no chunk stream is open; the
\* message of a chunk stream is not recorded as closed.
RecordsAbsentChunk(at) == Put(closedMessages, textChunk, at)
RecordsNoChunk(at) == closedMessages

\* closed_messages once close_text_chunk(run, at) has run.
ClosedOnceChunkEnds(at) ==
  IF textChunk = None THEN closedMessages ELSE Put(closedMessages, textChunk, at)

\* Mutants: an explicit event leaves the chunk stream open; the stream ends and
\* its message is forgotten.
LeavesChunkOpen(at) == UNCHANGED <<textChunk, closedMessages>>
ForgetsChunk(at) == textChunk' = None /\ UNCHANGED closedMessages

CloseTextChunk(at) ==
  /\ textChunk' = None
  /\ closedMessages' = ClosedOnceChunkEnds(at)

\* The first event of a message: its id and its owner are remembered.
Remember(e) ==
  /\ knownMessageIds' = knownMessageIds \cup {e.messageId}
  /\ messageOwner' = Put(messageOwner, e.messageId, e.subagentRunId)

\* Mutant: the owner of a message is dropped once the message is closed.
ForgetsOwners ==
  /\ UNCHANGED knownMessageIds
  /\ messageOwner' = [m \in DOMAIN messageOwner \ DOMAIN closedMessages |-> messageOwner[m]]

RememberNothing == UNCHANGED <<knownMessageIds, messageOwner>>

Reports(findings) == textFound' = findings

ReportsOnId(rule, m, related) == Reports({Finding(rule, eventCount, m, related)})

TextMessageStart(e) ==
  LET m == e.messageId
      closed == ClosedOnceChunkEnds(eventCount)
  IN  /\ e.type = "TEXT_MESSAGE_START"
      /\ Judged
      /\ CloseTextChunk(eventCount)
      /\ \/ /\ m = None
            /\ Reports({})
            /\ UNCHANGED openMessages
            /\ RememberNothing
         \/ /\ m \in DOMAIN openMessages
            /\ ReportsOnId("AGUI106", m, openMessages[m].start)
            /\ UNCHANGED openMessages
            /\ RememberNothing
         \/ /\ m \in DOMAIN closed \ DOMAIN openMessages
            /\ ReportsOnId("AGUI104", m, closed[m])
            /\ UNCHANGED openMessages
            /\ RememberNothing
         \/ /\ m \in MessageIds \ (DOMAIN openMessages \cup DOMAIN closed)
            /\ openMessages' = Put(openMessages, m,
                                   [start |-> eventCount, owner |-> e.subagentRunId])
            /\ Remember(e)
            /\ Reports({})

TextMessageContent(e) ==
  LET m == e.messageId
      closed == ClosedOnceChunkEnds(eventCount)
  IN  /\ e.type = "TEXT_MESSAGE_CONTENT"
      /\ Judged
      /\ CloseTextChunk(eventCount)
      /\ UNCHANGED openMessages
      /\ RememberNothing
      /\ \/ /\ m = None
            /\ Reports({})
         \/ /\ m \in MessageIds \ DOMAIN openMessages
            /\ ReportsOnId("AGUI101", m, IF m \in DOMAIN closed THEN closed[m] ELSE None)
         \/ /\ m \in DOMAIN openMessages
            /\ Reports(
                 (IF e.emptyDelta
                  THEN {Finding("AGUI105", eventCount, m, openMessages[m].start)}
                  ELSE {})
                 \cup OwnerFindings(eventCount, m, e.subagentRunId, openMessages[m].owner))

TextMessageEnd(e) ==
  LET m == e.messageId
      closed == ClosedOnceChunkEnds(eventCount)
  IN  /\ e.type = "TEXT_MESSAGE_END"
      /\ Judged
      /\ textChunk' = None
      /\ RememberNothing
      /\ \/ /\ m = None
            /\ Reports({})
            /\ closedMessages' = closed
            /\ UNCHANGED openMessages
         \/ /\ m \in MessageIds \ DOMAIN openMessages
            /\ ReportsOnId("AGUI102", m, None)
            /\ closedMessages' = closed
            /\ UNCHANGED openMessages
         \/ /\ m \in DOMAIN openMessages
            /\ Reports(OwnerFindings(eventCount, m, e.subagentRunId, openMessages[m].owner))
            /\ openMessages' = Drop(openMessages, m)
            /\ closedMessages' = Put(closed, m, eventCount)

\* A chunk of the stream that is open, of a message opened by START, or with
\* no id: nothing changes.  Only a chunk that names another id closes the
\* stream and, unless that id was used, opens its own.
TextMessageChunk(e) ==
  LET m == e.messageId
      closed == ClosedOnceChunkEnds(eventCount)
  IN  /\ e.type = "TEXT_MESSAGE_CHUNK"
      /\ Judged
      /\ UNCHANGED openMessages
      /\ \/ /\ m = None
            /\ Reports(IF textChunk = None
                       THEN {Finding("AGUI504", eventCount, None, None)} ELSE {})
            /\ UNCHANGED <<closedMessages, textChunk>>
            /\ RememberNothing
         \/ /\ m # None
            /\ m \in DOMAIN openMessages \cup {textChunk}
            /\ Reports({})
            /\ UNCHANGED <<closedMessages, textChunk>>
            /\ RememberNothing
         \/ /\ m \in DOMAIN closed \ (DOMAIN openMessages \cup {textChunk})
            /\ CloseTextChunk(eventCount)
            /\ ReportsOnId("AGUI104", m, closed[m])
            /\ RememberNothing
         \/ /\ m \in MessageIds \ (DOMAIN openMessages \cup DOMAIN closed)
            /\ closedMessages' = closed
            /\ textChunk' = m
            /\ Remember(e)
            /\ Reports({})

TextEvent(e) ==
  \/ TextMessageStart(e)
  \/ TextMessageContent(e)
  \/ TextMessageEnd(e)
  \/ TextMessageChunk(e)

-----------------------------------------------------------------------------
\* Inputs of the other components, as the message dictionaries see them.

\* Any other judged event closes the chunk stream.
TextElsewhere ==
  /\ Judged
  /\ CloseTextChunk(eventCount)
  /\ Reports({})
  /\ UNCHANGED <<openMessages, messageOwner>>

\* TOOL_CALL_RESULT and MESSAGES_SNAPSHOT carry message ids of their own.
LearnMessageIds(ms) == knownMessageIds' = knownMessageIds \cup ms

TextUnjudged ==
  /\ Unjudged
  /\ Reports({})
  /\ UNCHANGED messageVars
  /\ RememberNothing

\* new_run_state: the dictionaries of the new run are empty.
TextNewRun ==
  /\ NewRun
  /\ Reports({})
  /\ openMessages' = EmptyDict
  /\ closedMessages' = EmptyDict
  /\ knownMessageIds' = {}
  /\ messageOwner' = EmptyDict
  /\ textChunk' = None

\* AGUI103: end_of_run_text.
UnterminatedMessages(at) ==
  {Finding("AGUI103", at, m, openMessages[m].start) : m \in DOMAIN openMessages}

TextEnds(type) ==
  /\ Ends(type)
  /\ CloseTextChunk(eventCount)
  /\ Reports(IF type = "RUN_FINISHED" THEN UnterminatedMessages(eventCount) ELSE {})
  /\ UNCHANGED openMessages
  /\ RememberNothing

TextFinalize ==
  /\ Finalizes
  /\ UNCHANGED openMessages
  /\ RememberNothing
  /\ \/ /\ terminal = None
        /\ CloseTextChunk(AtEndOfStream)
        /\ Reports(UnterminatedMessages(AtEndOfStream))
     \/ /\ terminal # None
        /\ Reports({})
        /\ UNCHANGED <<closedMessages, textChunk>>

TextNext ==
  \/ \E e \in TextInputs : TextEvent(e)
  \/ \E ms \in Learnable : TextElsewhere /\ LearnMessageIds(ms)
  \/ TextUnjudged
  \/ TextNewRun
  \/ \E type \in TerminalTypes : TextEnds(type)
  \/ TextFinalize

TextSpec == TextInit /\ [][TextNext]_textVars

-----------------------------------------------------------------------------
\* A message id is in at most one of its three forms: opened by START,
\* streamed by chunks, or closed; and exactly the ids that ever took a form
\* have a recorded owner (context.py: message_owner "persists past the message
\* closing").
MessageHasOneForm ==
  /\ DOMAIN openMessages \cap DOMAIN closedMessages = {}
  /\ textChunk \notin DOMAIN openMessages \cup DOMAIN closedMessages
  /\ DOMAIN messageOwner =
       DOMAIN openMessages \cup DOMAIN closedMessages \cup ({textChunk} \ {None})
  /\ DOMAIN messageOwner \subseteq knownMessageIds

\* Once a run is terminal no chunk stream is left open, so a later event of the
\* stream cannot continue a message of the run that ended.
NoChunkOutlivesRun == terminal # None => textChunk = None

\* Within a run a message closes once, keeps the index of the event that closed
\* it and never opens again; its owner is the one its first event recorded,
\* also while it is open.
KeepsClosedMessages ==
  \A m \in DOMAIN closedMessages :
    m \in DOMAIN closedMessages' /\ closedMessages'[m] = closedMessages[m]

KeepsOwners ==
  \A m \in DOMAIN messageOwner :
    m \in DOMAIN messageOwner' /\ messageOwner'[m] = messageOwner[m]

MessageHistoryIsStable ==
  [][ SameRun => KeepsClosedMessages /\ KeepsOwners ]_textVars

\* An open message belongs to the owner its first event recorded.
OpenOwnersAgree ==
  \A m \in DOMAIN openMessages : openMessages[m].owner = messageOwner[m]

\* docs/spec-questions.md SQ-9: "chunks participate in the same per-id state
\* machine ... Mixing forms on one id is not flagged": explicit content for the
\* message a chunk stream has open is not reported.
MixingFormsNotFlagged ==
  [][ \A m \in MessageIds :
        textChunk = m =>
          ~ \E f \in textFound' : f.rule \in {"AGUI101", "AGUI102"} /\ f.id = m ]_textVars

=============================================================================
