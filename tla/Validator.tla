----------------------------- MODULE Validator -----------------------------
(***************************************************************************)
(* The validator (engine.py): one input goes to the run scopes and, when   *)
(* the run judges it, to the component of its category, while the others   *)
(* see it close their chunk streams.  Each component is an instance of the *)
(* module that describes it; they share the scope of the run, the known    *)
(* message ids and the owners of messages.                                 *)
(***************************************************************************)
EXTENDS RunScope, Sequences

CONSTANTS
  RunIds, ThreadIds, StreamInputs,
  MessageIds, TextInputs, Learnable,
  ToolCallIds, Fragments, JsonTexts, ToolInputs, SeenMessages, Histories,
  StepNames, StepInputs,
  Documents, Patches, Applied, DeclaresSharedState, StateInputs,
  ReasoningIds, ReasoningInputs,
  SubagentInputs

VARIABLES
  run, agui001Fired, sawTimestamp, lifecycleFound,
  openMessages, closedMessages, knownMessageIds, messageOwner, textChunk, textFound,
  openToolCalls, closedToolCalls, knownToolCallIds, toolChunk, toolFound,
  openSteps, stepFound,
  known, value, snapshotSeen, deltasSinceSnapshot, agui301Fired,
  anySnapshot, internalErrors, stateFound,
  openReasoningBlocks, openReasoningMessages, reasoningChunk, reasoningFound,
  openSubagents, closedSubagents, knownSubagentRunIds, subagentFound,
  schemaFound   \* AGUI504 for ids the component's event must carry

Life == INSTANCE RunLifecycle
Text == INSTANCE TextMessages
Tool == INSTANCE ToolCalls
Step == INSTANCE Steps
State == INSTANCE SharedState
Reason == INSTANCE Reasoning
Sub == INSTANCE Subagents

ASSUME InputsAssumption ==
  /\ TextInputs \subseteq Text!TextEvents
  /\ ToolInputs \subseteq Tool!ToolEvents
  /\ Histories \subseteq (SUBSET MessageIds) \X (SUBSET ToolCallIds)

\* What a component may learn from the events of another one is anything here.
ASSUME LearnableAssumption ==
  Learnable = SUBSET MessageIds /\ SeenMessages = MessageIds \X Tags

\* What RunState holds of a run, besides its name and its terminal event.
runState ==
  <<openMessages, closedMessages, knownMessageIds, messageOwner, textChunk,
    openToolCalls, closedToolCalls, knownToolCallIds, toolChunk, openSteps,
    known, value, snapshotSeen, deltasSinceSnapshot, agui301Fired,
    openReasoningBlocks, openReasoningMessages, reasoningChunk,
    openSubagents, closedSubagents, knownSubagentRunIds>>

found == <<lifecycleFound, textFound, toolFound, stepFound, stateFound, reasoningFound,
           subagentFound, schemaFound>>

vars == <<scopeVars, run, agui001Fired, sawTimestamp, anySnapshot, internalErrors,
          runState, found>>

\* The diagnostics of the last call, feed() or finalize().
batch == lifecycleFound \cup textFound \cup toolFound \cup stepFound \cup stateFound
         \cup reasoningFound \cup subagentFound \cup schemaFound

Init ==
  /\ Life!LifecycleInit
  /\ Text!TextInit
  /\ Tool!ToolInit
  /\ Step!StepInit
  /\ State!StateInit
  /\ Reason!ReasoningInit
  /\ Sub!SubagentInit
  /\ schemaFound = {}

-----------------------------------------------------------------------------
\* The ids each type must carry (protocol/event_table.py); chunks need none.
RequiredIds(type) ==
  CASE type \in {"TEXT_MESSAGE_START", "TEXT_MESSAGE_CONTENT", "TEXT_MESSAGE_END",
                 "REASONING_START", "REASONING_END", "REASONING_MESSAGE_START",
                 "REASONING_MESSAGE_CONTENT", "REASONING_MESSAGE_END"} -> {"messageId"}
    [] type \in {"TOOL_CALL_START", "TOOL_CALL_ARGS", "TOOL_CALL_END"} -> {"toolCallId"}
    [] type = "TOOL_CALL_RESULT" -> {"toolCallId", "messageId"}
    [] type \in {"STEP_STARTED", "STEP_FINISHED"} -> {"stepName"}
    [] type \in {"SUBAGENT_STARTED", "SUBAGENT_FINISHED", "SUBAGENT_ERROR"} ->
         {"subagentRunId"}
    [] type = "STATE_DELTA" -> {"delta"}
    [] OTHER -> {}

\* AGUI504 for the fields the handlers ask for: missing ids, a delta that is no
\* array.
ValidatesSchema(e) ==
  schemaFound' =
    {Finding("AGUI504", eventCount, field, None) :
       field \in {f \in RequiredIds(e.type) : e[f] \in {None, "NOT_ARRAY"}}}

NoSchema == schemaFound' = {}

\* An event of a component as the run scopes see it.
PlainEvent == [type |-> "EVENT", timestamp |-> None]

ASSUME PlainEventAssumption == PlainEvent \in StreamInputs

\* Mutant: a tool call's chunk stream survives the events of other components.
ToolChunkStays ==
  /\ Judged
  /\ toolFound' = {}
  /\ UNCHANGED <<openToolCalls, closedToolCalls, toolChunk, knownToolCallIds>>

\* The components an event does not belong to.
TextAside == Text!TextElsewhere
ToolAside == Tool!ToolElsewhere /\ UNCHANGED knownToolCallIds
StepAside == Step!StepsElsewhere
StateAside == State!StateElsewhere
ReasonAside == Reason!ReasoningElsewhere
SubAside == Sub!SubagentsElsewhere

\* An event of a component while the run is open.
Dispatches(e) == Life!OrdinaryEvent(PlainEvent) /\ ValidatesSchema(e)

FeedText(e) ==
  /\ Dispatches(e)
  /\ Text!TextEvent(e)
  /\ ToolAside /\ StepAside /\ StateAside /\ ReasonAside /\ SubAside

FeedToolCall(e) ==
  /\ Dispatches(e)
  /\ Tool!ToolEvent(e)
  /\ TextAside /\ StepAside /\ StateAside /\ ReasonAside /\ SubAside

FeedStep(e) ==
  /\ Dispatches(e)
  /\ Step!StepEvent(e)
  /\ TextAside /\ Text!LearnMessageIds({})
  /\ ToolAside /\ StateAside /\ ReasonAside /\ SubAside

FeedState(e) ==
  /\ Dispatches(e)
  /\ State!StateEvent(e)
  /\ TextAside /\ Text!LearnMessageIds({})
  /\ ToolAside /\ StepAside /\ ReasonAside /\ SubAside

FeedReasoning(e) ==
  /\ Dispatches(e)
  /\ Reason!ReasoningEvent(e)
  /\ TextAside /\ Text!LearnMessageIds({})
  /\ ToolAside /\ StepAside /\ StateAside /\ SubAside

FeedSubagent(e) ==
  /\ Dispatches(e)
  /\ Sub!SubagentEvent(e)
  /\ TextAside /\ Text!LearnMessageIds({})
  /\ ToolAside /\ StepAside /\ StateAside /\ ReasonAside

\* MESSAGES_SNAPSHOT teaches ids to the tool calls' rules.
FeedHistory(messages, calls) ==
  /\ Life!OrdinaryEvent(PlainEvent)
  /\ NoSchema
  /\ Tool!MessagesSnapshot(messages, calls)
  /\ TextAside /\ StepAside /\ StateAside /\ ReasonAside /\ SubAside

\* Mutant: an event without rules of ordering interrupts no chunk stream.
OtherLeavesChunks(e) ==
  /\ Life!OrdinaryEvent(e)
  /\ NoSchema
  /\ Text!TextUnjudged /\ Tool!ToolUnjudged /\ Reason!ReasoningUnjudged
  /\ StepAside /\ StateAside /\ SubAside

\* Activity, thinking, RAW and CUSTOM events have no rules of ordering.
FeedOther(e) ==
  /\ Life!OrdinaryEvent(e)
  /\ NoSchema
  /\ TextAside /\ Text!LearnMessageIds({})
  /\ ToolAside /\ StepAside /\ StateAside /\ ReasonAside /\ SubAside

\* Mutant: an event after the terminal event closes the run's subagents.
JudgesAfterTerminal(e) ==
  /\ Life!Unreadable(e) \/ Life!UnknownType(e) \/ Life!AfterTerminal(e)
  /\ NoSchema
  /\ Text!TextUnjudged
  /\ Tool!ToolUnjudged
  /\ StepAside
  /\ StateAside
  /\ Reason!ReasoningUnjudged
  /\ subagentFound' = {}
  /\ openSubagents' = EmptyDict
  /\ UNCHANGED <<closedSubagents, knownSubagentRunIds>>

\* Inputs that no rule of the run judges: the EVENT after a terminal event stands
\* for those of every component.
FeedUnjudged(e) ==
  /\ Life!Unreadable(e) \/ Life!UnknownType(e) \/ Life!AfterTerminal(e)
  /\ NoSchema
  /\ Text!TextUnjudged
  /\ Tool!ToolUnjudged
  /\ StepAside
  /\ StateAside
  /\ Reason!ReasoningUnjudged
  /\ SubAside

\* RUN_STARTED gives a fresh RunState after a terminal event; in a run that is
\* open it only closes the chunk streams.
FeedRunStarted(e) ==
  /\ Life!RunStarted(e)
  /\ NoSchema
  /\ \/ /\ terminal # None
        /\ Text!TextNewRun
        /\ Tool!ToolNewRun
        /\ Step!StepsNewRun
        /\ State!StateNewRun
        /\ Reason!ReasoningNewRun
        /\ Sub!SubagentsNewRun
     \/ /\ terminal = None
        /\ TextAside /\ Text!LearnMessageIds({})
        /\ ToolAside /\ StepAside /\ StateAside /\ ReasonAside /\ SubAside

\* Mutants: RUN_ERROR is checked like a clean end; reasoning is left out of the
\* end of a run.
ChecksAfterError(e) ==
  /\ Life!RunEnds(e)
  /\ NoSchema
  /\ Text!TextEnds(e.type)
  /\ Tool!ToolEnds(e.type)
  /\ UNCHANGED openSteps
  /\ stepFound' = Step!UnterminatedSteps(eventCount)
  /\ State!StateEnds(e.type)
  /\ Reason!ReasoningEnds(e.type)
  /\ Sub!SubagentsEnd(e.type)
EndsWithoutReasoning(e) ==
  /\ Life!RunEnds(e)
  /\ NoSchema
  /\ Text!TextEnds(e.type)
  /\ Tool!ToolEnds(e.type)
  /\ Step!StepsEnd(e.type)
  /\ State!StateEnds(e.type)
  /\ reasoningChunk' = None
  /\ reasoningFound' = {}
  /\ UNCHANGED <<openReasoningBlocks, openReasoningMessages>>
  /\ Sub!SubagentsEnd(e.type)

FeedTerminal(e) ==
  /\ Life!RunEnds(e)
  /\ NoSchema
  /\ Text!TextEnds(e.type)
  /\ Tool!ToolEnds(e.type)
  /\ Step!StepsEnd(e.type)
  /\ State!StateEnds(e.type)
  /\ Reason!ReasoningEnds(e.type)
  /\ Sub!SubagentsEnd(e.type)

Finalize ==
  /\ Life!LifecycleFinalize
  /\ NoSchema
  /\ Text!TextFinalize
  /\ Tool!ToolFinalize
  /\ Step!StepsFinalize
  /\ State!StateFinalize
  /\ Reason!ReasoningFinalize
  /\ Sub!SubagentsFinalize

Feed ==
  \/ \E e \in TextInputs : FeedText(e)
  \/ \E e \in ToolInputs : FeedToolCall(e)
  \/ \E e \in StepInputs : FeedStep(e)
  \/ \E e \in StateInputs : FeedState(e)
  \/ \E e \in ReasoningInputs : FeedReasoning(e)
  \/ \E e \in SubagentInputs : FeedSubagent(e)
  \/ \E history \in Histories : FeedHistory(history[1], history[2])
  \/ \E e \in StreamInputs : FeedOther(e) \/ FeedUnjudged(e) \/ FeedRunStarted(e) \/ FeedTerminal(e)

Next == Feed \/ Finalize

Spec == Init /\ [][Next]_vars

-----------------------------------------------------------------------------
\* Whatever follows a terminal event, up to the next RUN_STARTED, is reported and
\* leaves the run as the terminal event left it; so does finalize().
EndedRunIsFrozen ==
  [][ terminal # None /\ terminal' # None => UNCHANGED <<terminal, run, runState>> ]_vars

\* Inputs that reach no rule of the run, as their diagnosis tells.
TurnedAway ==
  \E f \in lifecycleFound :
    \/ f.rule \in {"AGUI502", "AGUI503", "AGUI004", "AGUI005"}
    \/ f.rule = "AGUI504" /\ f.id = "type"

\* A chunk stream goes on only through chunks of its own form and through inputs
\* that no rule judges: every other event, of whatever category, finds it closed, and
\* so do the end of the stream and a new run (engine.py, _close_chunks).  So no chunk
\* without an id is taken for one of a stream its producer had interrupted.
OthersInterruptChunks ==
  [][ TurnedAway'
      \/ /\ textChunk' # None =>
              \E e \in TextInputs : e.type = "TEXT_MESSAGE_CHUNK" /\ FeedText(e)
         /\ toolChunk' # None =>
              \E e \in ToolInputs : e.type = "TOOL_CALL_CHUNK" /\ FeedToolCall(e)
         /\ reasoningChunk' # None =>
              \E e \in ReasoningInputs :
                e.type = "REASONING_MESSAGE_CHUNK" /\ FeedReasoning(e) ]_vars

UnterminatedRules == {"AGUI103", "AGUI203", "AGUI007", "AGUI402", "AGUI604"}

Unterminated == {f \in batch : f.rule \in UnterminatedRules}

\* Unterminated work is reported at a clean end only, RUN_FINISHED or a stream that
\* stops mid-run: "after RUN_ERROR, open streams are expected debris of the
\* failure" (engine.py, _end_of_run_checks).
OnlyCleanEndsReportDebris ==
  \A f \in Unterminated :
    \/ terminal = [type |-> "RUN_FINISHED", index |-> f.at]
    \/ terminal = None /\ finalized /\ f.at = AtEndOfStream

\* A clean end reports every entity the run left open, of every component, once.
CleanEndReportsAllDebris ==
  terminal = [type |-> "RUN_FINISHED", index |-> eventCount - 1] /\ ~finalized
    => Cardinality(Unterminated) =
         Cardinality(DOMAIN openMessages) + Cardinality(DOMAIN openToolCalls)
         + Cardinality(DOMAIN openSteps) + Cardinality(DOMAIN openReasoningBlocks)
         + Cardinality(DOMAIN openReasoningMessages) + Cardinality(DOMAIN openSubagents)

\* What the validator does to the state of each component is what the module of
\* the component says can happen to it, whatever the others do.
ComponentsImplemented ==
  /\ Life!LifecycleSpec
  /\ Text!TextSpec
  /\ Tool!ToolSpec
  /\ Step!StepSpec
  /\ State!StateSpec
  /\ Reason!ReasoningSpec
  /\ Sub!SubagentSpec

=============================================================================
