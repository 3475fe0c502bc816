-------------------------- MODULE Validator_proofs --------------------------
(***************************************************************************)
(* The composition implements the specification of every component, for    *)
(* any ids, inputs and bounds: each step of Validator is, for each of the  *)
(* seven components, a step its module allows.  An ended run is frozen;    *)
(* what a run left open is reported at a clean end, all of it, and only    *)
(* there; a chunk stream goes on only through chunks of its own form.      *)
(***************************************************************************)
EXTENDS Validator, FiniteSetTheorems, TLAPS

\* A judged input of another component, as the text rules see it.
LEMMA TextGoesBy ==
  ASSUME TextAside, NEW ms \in SUBSET MessageIds, Text!LearnMessageIds(ms)
  PROVE  Text!TextNext
BY LearnableAssumption DEF TextAside, Text!TextNext

LEMMA NothingLearned ==
  ASSUME UNCHANGED knownMessageIds
  PROVE  Text!LearnMessageIds({})
BY DEF Text!LearnMessageIds

LEMMA TextImplemented ==
  ASSUME Next
  PROVE  Text!TextNext
<1>1. ASSUME NEW e \in TextInputs, FeedText(e) PROVE Text!TextNext
  BY <1>1 DEF FeedText, Text!TextNext
<1>2. ASSUME NEW e \in ToolInputs, FeedToolCall(e) PROVE Text!TextNext
  <2>1. TextAside /\ Tool!ToolEvent(e)
    BY <1>2 DEF FeedToolCall
  <2>2. CASE Tool!ToolCallResult(e)
    <3>1. {e.messageId} \ {None} \in SUBSET MessageIds
      BY <2>2, InputsAssumption DEF Tool!ToolCallResult, Tool!ToolEvents, Tool!Ids
    <3>2. Text!LearnMessageIds({e.messageId} \ {None})
      BY <2>2 DEF Tool!ToolCallResult, Text!LearnMessageIds
    <3> QED BY <2>1, <3>1, <3>2, TextGoesBy
  <2>3. CASE UNCHANGED knownMessageIds
    BY <2>1, <2>3, NothingLearned, TextGoesBy
  <2> QED BY <2>1, <2>2, <2>3
          DEF Tool!ToolEvent, Tool!ToolCallStart, Tool!ToolCallArgs, Tool!ToolCallEnd,
              Tool!ToolCallChunk, Tool!sharedMessageVars
<1>3. ASSUME NEW history \in Histories, FeedHistory(history[1], history[2])
      PROVE  Text!TextNext
  <2>1. history[1] \in SUBSET MessageIds
    BY InputsAssumption
  <2>2. TextAside /\ Text!LearnMessageIds(history[1])
    BY <1>3 DEF FeedHistory, Tool!MessagesSnapshot, Text!LearnMessageIds
  <2> QED BY <2>1, <2>2, TextGoesBy
<1>4. ASSUME TextAside, Text!LearnMessageIds({}) PROVE Text!TextNext
  BY <1>4, TextGoesBy
<1>5. ASSUME NEW e \in StreamInputs, FeedTerminal(e) PROVE Text!TextNext
  BY <1>5 DEF FeedTerminal, Life!RunEnds, Text!TextNext, Text!TerminalTypes, Life!TerminalTypes
<1>6. ASSUME NEW e \in StreamInputs, FeedRunStarted(e) PROVE Text!TextNext
  BY <1>4, <1>6 DEF FeedRunStarted, Text!TextNext
<1>7. ASSUME NEW e \in StreamInputs, FeedUnjudged(e) PROVE Text!TextNext
  BY <1>7 DEF FeedUnjudged, Text!TextNext
<1>8. ASSUME Finalize PROVE Text!TextNext
  BY <1>8 DEF Finalize, Text!TextNext
<1> QED BY <1>1, <1>2, <1>3, <1>4, <1>5, <1>6, <1>7, <1>8
        DEF Next, Feed, FeedStep, FeedState, FeedReasoning, FeedSubagent, FeedOther

-----------------------------------------------------------------------------
LEMMA ToolImplemented ==
  ASSUME Next
  PROVE  Tool!ToolNext
<1>1. ASSUME ToolAside, UNCHANGED <<knownMessageIds, messageOwner>> PROVE Tool!ToolNext
  BY <1>1 DEF ToolAside, Tool!ToolNext, Tool!sharedMessageVars
<1>2. ASSUME NEW e \in TextInputs, FeedText(e) PROVE Tool!ToolNext
  <2>1. ToolAside /\ Text!TextEvent(e) /\ e \in Text!TextEvents
    BY <1>2, InputsAssumption DEF FeedText
  <2>2. CASE Text!Remember(e) /\ e.messageId \in MessageIds /\ e.subagentRunId \in Tags
    <3>1. <<e.messageId, e.subagentRunId>> \in SeenMessages
      BY <2>2, LearnableAssumption
    <3>2. Tool!SeeMessage(e.messageId, e.subagentRunId)
      BY <2>2 DEF Text!Remember, Tool!SeeMessage, Text!Put, Tool!Put
    <3> QED BY <2>1, <3>1, <3>2 DEF ToolAside, Tool!ToolNext
  <2>3. CASE Text!RememberNothing
    BY <1>1, <2>1, <2>3 DEF Text!RememberNothing
  <2>4. Text!RememberNothing \/ (Text!Remember(e) /\ e.messageId \in MessageIds)
    BY <2>1 DEF Text!TextEvent, Text!TextMessageStart, Text!TextMessageContent,
                Text!TextMessageEnd, Text!TextMessageChunk
  <2>5. e.subagentRunId \in Tags
    BY <2>1 DEF Text!TextEvents, Text!Tags, Tags
  <2> QED BY <2>2, <2>3, <2>4, <2>5
<1>3. ASSUME TextAside, Text!LearnMessageIds({}), ToolAside PROVE Tool!ToolNext
  BY <1>1, <1>3 DEF TextAside, Text!TextElsewhere, Text!LearnMessageIds
<1>4. ASSUME NEW e \in ToolInputs, FeedToolCall(e) PROVE Tool!ToolNext
  BY <1>4 DEF FeedToolCall, Tool!ToolNext
<1>5. ASSUME NEW history \in Histories, FeedHistory(history[1], history[2])
      PROVE  Tool!ToolNext
  BY <1>5 DEF FeedHistory, TextAside, Text!TextElsewhere, Tool!ToolNext
<1>6. ASSUME NEW e \in StreamInputs, FeedTerminal(e) PROVE Tool!ToolNext
  BY <1>6 DEF FeedTerminal, Life!RunEnds, Tool!ToolNext, Tool!TerminalTypes, Life!TerminalTypes
<1>7. ASSUME NEW e \in StreamInputs, FeedRunStarted(e) PROVE Tool!ToolNext
  BY <1>3, <1>7 DEF FeedRunStarted, Tool!ToolNext
<1>8. ASSUME NEW e \in StreamInputs, FeedUnjudged(e) PROVE Tool!ToolNext
  BY <1>8 DEF FeedUnjudged, Tool!ToolNext
<1>9. ASSUME Finalize PROVE Tool!ToolNext
  BY <1>9 DEF Finalize, Tool!ToolNext
<1> QED BY <1>2, <1>3, <1>4, <1>5, <1>6, <1>7, <1>8, <1>9
        DEF Next, Feed, FeedStep, FeedState, FeedReasoning, FeedSubagent, FeedOther

\* The run scopes see a component's event as one of no particular type.
LEMMA LifecycleImplemented ==
  ASSUME Next
  PROVE  Life!LifecycleNext
<1>1. ASSUME NEW e, Dispatches(e) PROVE Life!LifecycleNext
  BY <1>1, PlainEventAssumption DEF Dispatches, Life!LifecycleNext, Life!StreamInput
<1>2. ASSUME NEW history \in Histories, FeedHistory(history[1], history[2])
      PROVE  Life!LifecycleNext
  BY <1>2, PlainEventAssumption DEF FeedHistory, Life!LifecycleNext, Life!StreamInput
<1>3. ASSUME NEW e \in StreamInputs,
             FeedOther(e) \/ FeedUnjudged(e) \/ FeedRunStarted(e) \/ FeedTerminal(e)
      PROVE  Life!LifecycleNext
  BY <1>3 DEF FeedOther, FeedUnjudged, FeedRunStarted, FeedTerminal,
              Life!LifecycleNext, Life!StreamInput
<1> QED BY <1>1, <1>2, <1>3
        DEF Next, Feed, Finalize, FeedText, FeedToolCall, FeedStep, FeedState, FeedReasoning,
            FeedSubagent, Life!LifecycleNext

-----------------------------------------------------------------------------
LEMMA StepsImplemented ==
  ASSUME Next
  PROVE  Step!StepNext
<1>1. ASSUME StepAside PROVE Step!StepNext
  BY <1>1 DEF StepAside, Step!StepNext
<1>2. ASSUME NEW e \in StreamInputs, FeedTerminal(e) PROVE Step!StepNext
  <2>1. e.type \in Step!TerminalTypes /\ Step!StepsEnd(e.type)
    BY <1>2 DEF FeedTerminal, Life!RunEnds, Step!TerminalTypes, Life!TerminalTypes
  <2> QED BY <2>1 DEF Step!StepNext
<1>3. ASSUME NEW e \in StreamInputs, FeedRunStarted(e) PROVE Step!StepNext
  BY <1>1, <1>3 DEF FeedRunStarted, Step!StepNext
<1> QED BY <1>1, <1>2, <1>3
        DEF Next, Feed, Finalize, FeedText, FeedToolCall, FeedStep, FeedState, FeedReasoning,
            FeedSubagent, FeedHistory, FeedOther, FeedUnjudged, Step!StepNext

LEMMA StateImplemented ==
  ASSUME Next
  PROVE  State!StateNext
<1>1. ASSUME StateAside PROVE State!StateNext
  BY <1>1 DEF StateAside, State!StateNext
<1>2. ASSUME NEW e \in StreamInputs, FeedTerminal(e) PROVE State!StateNext
  BY <1>2 DEF FeedTerminal, Life!RunEnds, State!StateNext, State!TerminalTypes,
              Life!TerminalTypes
<1>3. ASSUME NEW e \in StreamInputs, FeedRunStarted(e) PROVE State!StateNext
  BY <1>1, <1>3 DEF FeedRunStarted, State!StateNext
<1> QED BY <1>1, <1>2, <1>3
        DEF Next, Feed, Finalize, FeedText, FeedToolCall, FeedStep, FeedState, FeedReasoning,
            FeedSubagent, FeedHistory, FeedOther, FeedUnjudged, State!StateNext

LEMMA ReasoningImplemented ==
  ASSUME Next
  PROVE  Reason!ReasoningNext
<1>1. ASSUME ReasonAside PROVE Reason!ReasoningNext
  BY <1>1 DEF ReasonAside, Reason!ReasoningNext
<1>2. ASSUME NEW e \in StreamInputs, FeedTerminal(e) PROVE Reason!ReasoningNext
  BY <1>2 DEF FeedTerminal, Life!RunEnds, Reason!ReasoningNext, Reason!TerminalTypes,
              Life!TerminalTypes
<1>3. ASSUME NEW e \in StreamInputs, FeedRunStarted(e) PROVE Reason!ReasoningNext
  BY <1>1, <1>3 DEF FeedRunStarted, Reason!ReasoningNext
<1> QED BY <1>1, <1>2, <1>3
        DEF Next, Feed, Finalize, FeedText, FeedToolCall, FeedStep, FeedState, FeedReasoning,
            FeedSubagent, FeedHistory, FeedOther, FeedUnjudged, Reason!ReasoningNext

LEMMA SubagentsImplemented ==
  ASSUME Next
  PROVE  Sub!SubagentNext
<1>1. ASSUME SubAside PROVE Sub!SubagentNext
  BY <1>1 DEF SubAside, Sub!SubagentNext
<1>2. ASSUME NEW e \in StreamInputs, FeedTerminal(e) PROVE Sub!SubagentNext
  BY <1>2 DEF FeedTerminal, Life!RunEnds, Sub!SubagentNext, Sub!TerminalTypes,
              Life!TerminalTypes
<1>3. ASSUME NEW e \in StreamInputs, FeedRunStarted(e) PROVE Sub!SubagentNext
  BY <1>1, <1>3 DEF FeedRunStarted, Sub!SubagentNext
<1> QED BY <1>1, <1>2, <1>3
        DEF Next, Feed, Finalize, FeedText, FeedToolCall, FeedStep, FeedState, FeedReasoning,
            FeedSubagent, FeedHistory, FeedOther, FeedUnjudged, Sub!SubagentNext

-----------------------------------------------------------------------------
LEMMA Starts ==
  ASSUME Init
  PROVE  /\ Life!LifecycleInit /\ Text!TextInit /\ Tool!ToolInit /\ Step!StepInit
         /\ State!StateInit /\ Reason!ReasoningInit /\ Sub!SubagentInit
BY DEF Init

LEMMA Stutters ==
  ASSUME UNCHANGED vars
  PROVE  UNCHANGED <<Life!lifecycleVars, Text!textVars, Tool!toolVars, Step!stepVars,
                     State!stateVars, Reason!reasoningVars, Sub!subagentVars>>
BY DEF vars, scopeVars, runState, found,
       Life!lifecycleVars, Life!scopeVars, Text!textVars, Text!scopeVars, Text!messageVars,
       Tool!toolVars, Tool!scopeVars, Tool!toolCallVars, Tool!sharedMessageVars,
       Step!stepVars, Step!scopeVars, State!stateVars, State!scopeVars, State!stateInfo,
       Reason!reasoningVars, Reason!scopeVars, Reason!openReasoningVars,
       Sub!subagentVars, Sub!scopeVars, Sub!subagentLifeVars

\* For any ids, inputs and bounds, every behaviour of the validator is for each of
\* its components one that the component's module allows, so that what is proved
\* of a component holds in the composition (engine.py, _process_event, finalize).
THEOREM ValidatorImplementsComponents == Spec => ComponentsImplemented
<1>1. Init => /\ Life!LifecycleInit /\ Text!TextInit /\ Tool!ToolInit /\ Step!StepInit
              /\ State!StateInit /\ Reason!ReasoningInit /\ Sub!SubagentInit
  BY Starts
<1>2. [Next]_vars =>
        /\ [Life!LifecycleNext]_(Life!lifecycleVars)
        /\ [Text!TextNext]_(Text!textVars)
        /\ [Tool!ToolNext]_(Tool!toolVars)
        /\ [Step!StepNext]_(Step!stepVars)
        /\ [State!StateNext]_(State!stateVars)
        /\ [Reason!ReasoningNext]_(Reason!reasoningVars)
        /\ [Sub!SubagentNext]_(Sub!subagentVars)
  BY Stutters, LifecycleImplemented, TextImplemented, ToolImplemented, StepsImplemented,
     StateImplemented, ReasoningImplemented, SubagentsImplemented
<1> QED BY <1>1, <1>2, PTL
        DEF Spec, ComponentsImplemented, Life!LifecycleSpec, Text!TextSpec, Tool!ToolSpec,
            Step!StepSpec, State!StateSpec, Reason!ReasoningSpec, Sub!SubagentSpec

-----------------------------------------------------------------------------
\* Only inputs that no rule judges, and finalize(), leave an ended run ended.
LEMMA AfterTheEnd ==
  ASSUME Next, terminal # None, terminal' # None
  PROVE  Finalize \/ \E e \in StreamInputs : FeedUnjudged(e)
<1>1. ASSUME NEW e, Life!OrdinaryEvent(e) \/ Life!RunEnds(e) \/ Life!RunStarted(e)
      PROVE  FALSE
  BY <1>1 DEF Life!OrdinaryEvent, Life!RunEnds, Life!RunStarted, Life!Judged, Life!Ends,
              Life!NewRun
<1> QED BY <1>1
        DEF Next, Feed, Dispatches, FeedText, FeedToolCall, FeedStep, FeedState, FeedReasoning,
            FeedSubagent, FeedHistory, FeedOther, FeedRunStarted, FeedTerminal

LEMMA UnjudgedLeavesRun ==
  ASSUME NEW e, FeedUnjudged(e)
  PROVE  UNCHANGED <<terminal, run, runState>>
<1>1. UNCHANGED <<terminal, run>>
  BY DEF FeedUnjudged, Life!Unreadable, Life!UnknownType, Life!AfterTerminal, Life!Unjudged
<1>2. UNCHANGED <<openMessages, closedMessages, knownMessageIds, messageOwner, textChunk>>
  BY DEF FeedUnjudged, Text!TextUnjudged, Text!messageVars, Text!RememberNothing
<1>3. UNCHANGED <<openToolCalls, closedToolCalls, knownToolCallIds, toolChunk>>
  BY DEF FeedUnjudged, Tool!ToolUnjudged, Tool!toolCallVars
<1>4. UNCHANGED <<openSteps, known, value, snapshotSeen, deltasSinceSnapshot, agui301Fired>>
  BY DEF FeedUnjudged, StepAside, Step!StepsElsewhere, StateAside, State!StateElsewhere,
         State!stateInfo
<1>5. UNCHANGED <<openReasoningBlocks, openReasoningMessages, reasoningChunk>>
  BY DEF FeedUnjudged, Reason!ReasoningUnjudged, Reason!openReasoningVars
<1>6. UNCHANGED <<openSubagents, closedSubagents, knownSubagentRunIds>>
  BY DEF FeedUnjudged, SubAside, Sub!SubagentsElsewhere, Sub!subagentLifeVars
<1> QED BY <1>1, <1>2, <1>3, <1>4, <1>5, <1>6 DEF runState

LEMMA FinalizeLeavesEndedRun ==
  ASSUME Finalize, terminal # None
  PROVE  UNCHANGED <<terminal, run, runState>>
<1>1. UNCHANGED <<terminal, run>>
  BY DEF Finalize, Life!LifecycleFinalize, Life!Finalizes
<1>2. UNCHANGED <<openMessages, closedMessages, knownMessageIds, messageOwner, textChunk>>
  BY DEF Finalize, Text!TextFinalize, Text!RememberNothing
<1>3. UNCHANGED <<openToolCalls, closedToolCalls, knownToolCallIds, toolChunk>>
  BY DEF Finalize, Tool!ToolFinalize
<1>4. UNCHANGED <<openSteps, known, value, snapshotSeen, deltasSinceSnapshot, agui301Fired>>
  BY DEF Finalize, Step!StepsFinalize, State!StateFinalize, State!stateInfo
<1>5. UNCHANGED <<openReasoningBlocks, openReasoningMessages, reasoningChunk>>
  BY DEF Finalize, Reason!ReasoningFinalize, Reason!openReasoningVars
<1>6. UNCHANGED <<openSubagents, closedSubagents, knownSubagentRunIds>>
  BY DEF Finalize, Sub!SubagentsFinalize, Sub!subagentLifeVars
<1> QED BY <1>1, <1>2, <1>3, <1>4, <1>5, <1>6 DEF runState

\* For any stream, what follows a terminal event leaves the run as the terminal
\* event left it, until the next RUN_STARTED (engine.py, _process_event).
THEOREM EndedRunsAreFrozen == Spec => EndedRunIsFrozen
<1>1. [Next]_vars =>
        [terminal # None /\ terminal' # None => UNCHANGED <<terminal, run, runState>>]_vars
  BY AfterTheEnd, UnjudgedLeavesRun, FinalizeLeavesEndedRun
<1> QED BY <1>1, PTL DEF Spec, EndedRunIsFrozen

-----------------------------------------------------------------------------
\* A set of findings that fits the step that reports it: unterminated work only
\* at a clean end.
Fits(F) ==
  \A f \in F :
    f.rule \in UnterminatedRules =>
      \/ terminal' = [type |-> "RUN_FINISHED", index |-> f.at]
      \/ terminal' = None /\ finalized' /\ f.at = AtEndOfStream

LEMMA TextFits ==
  ASSUME Text!TextNext
  PROVE  Fits(textFound')
<1>1. ASSUME NEW e, Text!TextEvent(e) PROVE Fits(textFound')
  <2>1. CASE Text!TextMessageStart(e)
    BY <2>1 DEF Text!TextMessageStart, Text!Reports, Text!ReportsOnId, Text!Finding,
                Fits, UnterminatedRules
  <2>2. CASE Text!TextMessageContent(e)
    BY <2>2 DEF Text!TextMessageContent, Text!Reports, Text!ReportsOnId, Text!Finding,
                Text!OwnerFindings, Fits, UnterminatedRules
  <2>3. CASE Text!TextMessageEnd(e)
    BY <2>3 DEF Text!TextMessageEnd, Text!Reports, Text!ReportsOnId, Text!Finding,
                Text!OwnerFindings, Fits, UnterminatedRules
  <2>4. CASE Text!TextMessageChunk(e)
    BY <2>4 DEF Text!TextMessageChunk, Text!Reports, Text!ReportsOnId, Text!Finding,
                Fits, UnterminatedRules
  <2> QED BY <1>1, <2>1, <2>2, <2>3, <2>4 DEF Text!TextEvent
<1>2. ASSUME Text!TextElsewhere \/ Text!TextUnjudged \/ Text!TextNewRun
      PROVE  Fits(textFound')
  BY <1>2 DEF Text!TextElsewhere, Text!TextUnjudged, Text!TextNewRun, Text!Reports, Fits
<1>3. ASSUME NEW type, Text!TextEnds(type) PROVE Fits(textFound')
  BY <1>3 DEF Text!TextEnds, Text!Reports, Text!UnterminatedMessages, Text!Finding, Text!Ends,
              Fits
<1>4. ASSUME Text!TextFinalize PROVE Fits(textFound')
  BY <1>4 DEF Text!TextFinalize, Text!Reports, Text!UnterminatedMessages, Text!Finding,
              Text!Finalizes, Text!AtEndOfStream, AtEndOfStream, Fits
<1> QED BY <1>1, <1>2, <1>3, <1>4 DEF Text!TextNext

LEMMA ToolFits ==
  ASSUME Tool!ToolNext
  PROVE  Fits(toolFound')
<1>1. ASSUME NEW at, NEW findings, Fits(findings), Tool!CloseToolChunkAndReport(at, findings)
      PROVE  Fits(toolFound')
  BY <1>1 DEF Tool!CloseToolChunkAndReport, Tool!ToolChunkFindings, Tool!ArgsFindings,
              Tool!Finding, Fits, UnterminatedRules
<1>2. Fits({})
  BY DEF Fits
<1>3. ASSUME NEW rule, rule \notin UnterminatedRules, NEW id, NEW related
      PROVE  Fits(Tool!About(rule, id, related))
  BY <1>3 DEF Tool!About, Tool!Finding, Fits
<1>4. ASSUME NEW at, NEW id, NEW tag, NEW owner
      PROVE  Fits(Tool!OwnerFindings(at, id, tag, owner))
  BY DEF Tool!OwnerFindings, Tool!Finding, Fits, UnterminatedRules
<1>5. ASSUME NEW e, Tool!ToolEvent(e) PROVE Fits(toolFound')
  <2>1. CASE Tool!ToolCallStart(e)
    BY <2>1, <1>1, <1>2, <1>3 DEF Tool!ToolCallStart, UnterminatedRules
  <2>2. CASE Tool!ToolCallArgs(e)
    BY <2>2, <1>1, <1>2, <1>3, <1>4 DEF Tool!ToolCallArgs, UnterminatedRules
  <2>3. CASE Tool!ToolCallEnd(e)
    <3>1. CASE e.toolCallId \in DOMAIN openToolCalls
      BY <2>3, <3>1
         DEF Tool!ToolCallEnd, Tool!ToolChunkFindings, Tool!ArgsFindings, Tool!OwnerFindings,
             Tool!CloseToolChunkAndReport, Tool!About, Tool!Finding, Fits, UnterminatedRules
    <3>2. CASE e.toolCallId \notin DOMAIN openToolCalls
      BY <2>3, <3>2, <1>1, <1>2, <1>3 DEF Tool!ToolCallEnd, UnterminatedRules
    <3> QED BY <3>1, <3>2
  <2>4. CASE Tool!ToolCallResult(e)
    BY <2>4, <1>1, <1>2, <1>3 DEF Tool!ToolCallResult, UnterminatedRules
  <2>5. CASE Tool!ToolCallChunk(e)
    BY <2>5, <1>1, <1>3
       DEF Tool!ToolCallChunk, Tool!ToolChunkFindings, Tool!ArgsFindings, Tool!About,
           Tool!Finding, Fits, UnterminatedRules
  <2> QED BY <1>5, <2>1, <2>2, <2>3, <2>4, <2>5 DEF Tool!ToolEvent
<1>6. ASSUME Tool!ToolElsewhere PROVE Fits(toolFound')
  BY <1>6, <1>1, <1>2 DEF Tool!ToolElsewhere
<1>7. ASSUME Tool!ToolUnjudged \/ Tool!ToolNewRun PROVE Fits(toolFound')
  BY <1>7 DEF Tool!ToolUnjudged, Tool!ToolNewRun, Fits
<1>8. ASSUME NEW type, Tool!ToolEnds(type) PROVE Fits(toolFound')
  <2>1. Fits(IF type = "RUN_FINISHED" THEN Tool!UnterminatedCalls(eventCount) ELSE {})
    BY <1>8 DEF Tool!ToolEnds, Tool!UnterminatedCalls, Tool!Finding, Tool!Ends, Fits
  <2> QED BY <1>8, <2>1, <1>1 DEF Tool!ToolEnds
<1>9. ASSUME Tool!ToolFinalize PROVE Fits(toolFound')
  <2>1. CASE terminal = None
    <3>1. Fits(Tool!UnterminatedCalls(Tool!AtEndOfStream))
      BY <1>9, <2>1 DEF Tool!ToolFinalize, Tool!UnterminatedCalls, Tool!Finding,
                        Tool!Finalizes, Tool!AtEndOfStream, AtEndOfStream, Fits
    <3> QED BY <1>9, <2>1, <3>1, <1>1 DEF Tool!ToolFinalize
  <2>2. CASE terminal # None
    BY <1>9, <2>2 DEF Tool!ToolFinalize, Fits
  <2> QED BY <2>1, <2>2
<1> QED BY <1>5, <1>6, <1>7, <1>8, <1>9 DEF Tool!ToolNext, Tool!MessagesSnapshot

LEMMA StepsFit ==
  ASSUME Step!StepNext
  PROVE  Fits(stepFound')
<1>1. ASSUME NEW e, Step!StepEvent(e) PROVE Fits(stepFound')
  BY <1>1 DEF Step!StepEvent, Step!StepStarted, Step!StepFinished, Step!OwnerFindings,
              Step!Finding, Fits, UnterminatedRules
<1>2. ASSUME Step!StepsElsewhere \/ Step!StepsNewRun PROVE Fits(stepFound')
  BY <1>2 DEF Step!StepsElsewhere, Step!StepsNewRun, Fits
<1>3. ASSUME NEW type, Step!StepsEnd(type) PROVE Fits(stepFound')
  BY <1>3 DEF Step!StepsEnd, Step!UnterminatedSteps, Step!Finding, Step!Ends, Fits
<1>4. ASSUME Step!StepsFinalize PROVE Fits(stepFound')
  BY <1>4 DEF Step!StepsFinalize, Step!UnterminatedSteps, Step!Finding, Step!Finalizes,
              Step!AtEndOfStream, AtEndOfStream, Fits
<1> QED BY <1>1, <1>2, <1>3, <1>4 DEF Step!StepNext

LEMMA ReasoningFits ==
  ASSUME Reason!ReasoningNext
  PROVE  Fits(reasoningFound')
<1>1. ASSUME NEW e, Reason!ReasoningEvent(e) PROVE Fits(reasoningFound')
  BY <1>1 DEF Reason!ReasoningEvent, Reason!ReasoningStart, Reason!ReasoningEnd,
              Reason!ReasoningContent, Reason!ReasoningMessageChunk, Reason!Finding,
              Fits, UnterminatedRules
<1>2. ASSUME Reason!ReasoningElsewhere \/ Reason!ReasoningUnjudged \/ Reason!ReasoningNewRun
      PROVE  Fits(reasoningFound')
  BY <1>2 DEF Reason!ReasoningElsewhere, Reason!ReasoningUnjudged, Reason!ReasoningNewRun, Fits
<1>3. ASSUME NEW type, Reason!ReasoningEnds(type) PROVE Fits(reasoningFound')
  BY <1>3 DEF Reason!ReasoningEnds, Reason!UnterminatedReasoning, Reason!Finding, Reason!Ends,
              Fits
<1>4. ASSUME Reason!ReasoningFinalize PROVE Fits(reasoningFound')
  BY <1>4 DEF Reason!ReasoningFinalize, Reason!UnterminatedReasoning, Reason!Finding,
              Reason!Finalizes, Reason!AtEndOfStream, AtEndOfStream, Fits
<1> QED BY <1>1, <1>2, <1>3, <1>4 DEF Reason!ReasoningNext

LEMMA SubagentsFit ==
  ASSUME Sub!SubagentNext
  PROVE  Fits(subagentFound')
<1>1. ASSUME NEW rule \in {"AGUI601", "AGUI602", "AGUI603", "AGUI605"}, NEW id, NEW related,
             Sub!ReportSubagent(rule, id, related) \/ subagentFound' = {}
      PROVE  Fits(subagentFound')
  BY <1>1 DEF Sub!ReportSubagent, Sub!Finding, Fits, UnterminatedRules
<1>2. ASSUME NEW e, Sub!SubagentEvent(e) PROVE Fits(subagentFound')
  BY <1>1, <1>2 DEF Sub!SubagentEvent, Sub!SubagentStarted, Sub!SubagentFinished,
                    Sub!SubagentError, Sub!Closes
<1>3. ASSUME Sub!SubagentsElsewhere \/ Sub!SubagentsNewRun PROVE Fits(subagentFound')
  BY <1>3 DEF Sub!SubagentsElsewhere, Sub!SubagentsNewRun, Fits
<1>4. ASSUME NEW type, Sub!SubagentsEnd(type) PROVE Fits(subagentFound')
  BY <1>4 DEF Sub!SubagentsEnd, Sub!UnterminatedSubagents, Sub!Finding, Sub!Ends, Fits
<1>5. ASSUME Sub!SubagentsFinalize PROVE Fits(subagentFound')
  BY <1>5 DEF Sub!SubagentsFinalize, Sub!UnterminatedSubagents, Sub!Finding, Sub!Finalizes,
              Sub!AtEndOfStream, AtEndOfStream, Fits
<1> QED BY <1>2, <1>3, <1>4, <1>5 DEF Sub!SubagentNext

\* The rules of the shared state, of the run scopes and of the schema speak of no
\* unterminated work.
LEMMA StateFits ==
  ASSUME State!StateNext
  PROVE  Fits(stateFound')
<1>1. ASSUME NEW rule \in {"AGUI301", "AGUI302", "AGUI303", "AGUI304"}, NEW id
      PROVE  Fits(State!StateReport(rule, id))
  BY DEF State!StateReport, State!Finding, Fits, UnterminatedRules
<1>2. Fits({}) /\ \A F, G : Fits(F) /\ Fits(G) => Fits(F \cup G)
  BY DEF Fits
<1>3. ASSUME NEW e, State!StateEvent(e) PROVE Fits(stateFound')
  <2>1. CASE State!StateSnapshot(e)
    BY <2>1, <1>1, <1>2 DEF State!StateSnapshot
  <2>2. CASE State!PatchDelta(e)
    <3>1. Fits(IF State!Unfounded THEN State!StateReport("AGUI301", None) ELSE {})
      BY <1>1, <1>2
    <3>2. Fits(IF known /\ Applied[value, e.delta] = None
               THEN State!StateReport("AGUI302", None) ELSE {})
      <4>1. Fits(State!StateReport("AGUI302", None))
        BY <1>1
      <4> QED BY <4>1, <1>2
    <3> QED BY <2>2, <3>1, <3>2, <1>2 DEF State!PatchDelta
  <2>3. CASE State!NoPatchDelta(e)
    BY <2>3, <1>1, <1>2 DEF State!NoPatchDelta
  <2> QED BY <1>3, <2>1, <2>2, <2>3 DEF State!StateEvent, State!StateDelta
<1>4. ASSUME State!StateFinalize PROVE Fits(stateFound')
  BY <1>4 DEF State!StateFinalize, State!Finding, Fits, UnterminatedRules
<1> QED BY <1>2, <1>3, <1>4
        DEF State!StateNext, State!StateElsewhere, State!StateNewRun, State!StateEnds

LEMMA LifecycleSilent ==
  ASSUME Life!LifecycleNext
  PROVE  \A f \in lifecycleFound' : f.rule \notin UnterminatedRules
<1> DEFINE Silent(F) == \A f \in F : f.rule \notin UnterminatedRules
<1>1. ASSUME NEW rule \in {"AGUI001", "AGUI002", "AGUI004", "AGUI005", "AGUI008", "AGUI502",
                           "AGUI503", "AGUI504", "AGUI901", "AGUI903"}, NEW id, NEW related
      PROVE  Silent(Life!Note(rule, id, related))
  BY DEF Life!Note, Life!Finding, UnterminatedRules
<1>2. ASSUME NEW e
      PROVE  Silent(Life!SchemaFindings(e)) /\ Silent(Life!UnstableIds(e))
             /\ Silent(Life!OpeningFindings) /\ Silent(Life!Advice(e))
  <2>1. Silent(Life!SchemaFindings(e))
    BY <1>1 DEF Life!SchemaFindings
  <2>2. Silent(Life!UnstableIds(e))
    BY <1>1 DEF Life!UnstableIds
  <2> QED BY <2>1, <2>2, <1>1 DEF Life!OpeningFindings, Life!Advice
<1>3. ASSUME NEW e, Life!StreamInput(e) PROVE Silent(lifecycleFound')
  <2>1. CASE Life!Unreadable(e) \/ Life!UnknownType(e) \/ Life!OrdinaryEvent(e)
    BY <2>1, <1>1, <1>2 DEF Life!Unreadable, Life!UnknownType, Life!OrdinaryEvent
  <2>2. CASE Life!RunStarted(e)
    BY <2>2, <1>1, <1>2 DEF Life!RunStarted
  <2>3. CASE Life!RunEnds(e)
    BY <2>3, <1>2 DEF Life!RunEnds
  <2>4. CASE Life!AfterTerminal(e)
    BY <2>4, <1>1, <1>2 DEF Life!AfterTerminal
  <2> QED BY <1>3, <2>1, <2>2, <2>3, <2>4 DEF Life!StreamInput
<1>4. ASSUME Life!LifecycleFinalize PROVE Silent(lifecycleFound')
  BY <1>4 DEF Life!LifecycleFinalize, Life!UnterminatedRun, Life!Finding, UnterminatedRules
<1> QED BY <1>3, <1>4 DEF Life!LifecycleNext

LEMMA LifecycleFits ==
  ASSUME Life!LifecycleNext
  PROVE  Fits(lifecycleFound')
BY LifecycleSilent DEF Fits

LEMMA SchemaFits ==
  ASSUME Next
  PROVE  Fits(schemaFound')
<1>1. ASSUME NEW e, ValidatesSchema(e) PROVE Fits(schemaFound')
  BY <1>1 DEF ValidatesSchema, Finding, Fits, UnterminatedRules
<1>2. ASSUME NoSchema PROVE Fits(schemaFound')
  BY <1>2 DEF NoSchema, Fits
<1> QED BY <1>1, <1>2
        DEF Next, Feed, Finalize, Dispatches, FeedText, FeedToolCall, FeedStep, FeedState,
            FeedReasoning, FeedSubagent, FeedHistory, FeedOther, FeedUnjudged, FeedRunStarted,
            FeedTerminal

\* For any stream, a message, call, step, reasoning or subagent is reported as left
\* open by the RUN_FINISHED of its run, or by finalize() when the stream stopped in
\* the middle of the run, and by nothing else: never by RUN_ERROR, and never for a
\* run that has ended (engine.py, _end_of_run_checks, finalize).
THEOREM DebrisIsToldAtCleanEnds == Spec => []OnlyCleanEndsReportDebris
<1>1. Init => OnlyCleanEndsReportDebris
  BY DEF Init, Life!LifecycleInit, Text!TextInit, Tool!ToolInit, Step!StepInit,
         State!StateInit, Reason!ReasoningInit, Sub!SubagentInit,
         OnlyCleanEndsReportDebris, Unterminated, batch
<1>2. OnlyCleanEndsReportDebris /\ [Next]_vars => OnlyCleanEndsReportDebris'
  <2>1. ASSUME Next PROVE OnlyCleanEndsReportDebris'
    <3>1. /\ Fits(lifecycleFound') /\ Fits(textFound') /\ Fits(toolFound')
          /\ Fits(stepFound') /\ Fits(stateFound') /\ Fits(reasoningFound')
          /\ Fits(subagentFound') /\ Fits(schemaFound')
      BY <2>1, LifecycleImplemented, TextImplemented, ToolImplemented, StepsImplemented,
         StateImplemented, ReasoningImplemented, SubagentsImplemented, LifecycleFits,
         TextFits, ToolFits, StepsFit, StateFits, ReasoningFits, SubagentsFit, SchemaFits
    <3> QED BY <3>1 DEF Fits, OnlyCleanEndsReportDebris, Unterminated, batch
  <2>2. ASSUME OnlyCleanEndsReportDebris, UNCHANGED vars PROVE OnlyCleanEndsReportDebris'
    BY <2>2 DEF vars, scopeVars, found, batch, Unterminated, OnlyCleanEndsReportDebris
  <2> QED BY <2>1, <2>2
<1> QED BY <1>1, <1>2, PTL DEF Spec

-----------------------------------------------------------------------------
\* F has a finding for every key of a finite dictionary and no other: as many
\* findings as keys, when no two keys give the same finding.
LEMMA OneFindingEach ==
  ASSUME NEW D, IsFiniteSet(D), NEW F, NEW tells,
         \A x \in D : tells[x] \in F,
         \A f \in F : \E x \in D : f = tells[x],
         \A x, y \in D : tells[x] = tells[y] => x = y
  PROVE  IsFiniteSet(F) /\ Cardinality(F) = Cardinality(D)
<1> DEFINE told == [x \in D |-> tells[x]]
<1>1. told \in [D -> F] /\ DOMAIN told = D /\ \A x \in D : told[x] = tells[x]
  OBVIOUS
<1> HIDE DEF told
<1>2. told \in Bijection(D, F)
  BY <1>1 DEF Bijection, Injection, Surjection, IsInjective
<1>3. ExistsBijection(D, F)
  BY <1>2 DEF ExistsBijection
<1> QED BY <1>3, FS_Bijection

\* Sets with nothing in common add up.
LEMMA Disjoint ==
  ASSUME NEW S, IsFiniteSet(S), NEW T, IsFiniteSet(T), S \cap T = {}
  PROVE  /\ IsFiniteSet(S \cup T)
         /\ Cardinality(S \cup T) = Cardinality(S) + Cardinality(T)
BY FS_Union, FS_EmptySet, FS_CardinalityType

-----------------------------------------------------------------------------
\* One step adds at most one key to each dictionary of open entities.
AddsOne(d, e) == \E k : DOMAIN e \subseteq DOMAIN d \cup {k}

LEMMA StillFinite ==
  ASSUME NEW d, NEW e, IsFiniteSet(DOMAIN d), AddsOne(d, e)
  PROVE  IsFiniteSet(DOMAIN e)
<1>1. PICK k : DOMAIN e \subseteq DOMAIN d \cup {k}
  BY DEF AddsOne
<1> QED BY <1>1, FS_AddElement, FS_Subset

LEMMA MessagesAddOne ==
  ASSUME Text!TextNext
  PROVE  AddsOne(openMessages, openMessages')
<1>1. ASSUME NEW e, Text!TextEvent(e) PROVE AddsOne(openMessages, openMessages')
  <2>1. CASE UNCHANGED openMessages
    BY <2>1 DEF AddsOne
  <2>2. ASSUME NEW k, NEW v, openMessages' = Text!Put(openMessages, k, v)
        PROVE  AddsOne(openMessages, openMessages')
    BY <2>2 DEF Text!Put, AddsOne
  <2>3. ASSUME NEW k, openMessages' = Text!Drop(openMessages, k)
        PROVE  AddsOne(openMessages, openMessages')
    BY <2>3 DEF Text!Drop, AddsOne
  <2> QED BY <1>1, <2>1, <2>2, <2>3
          DEF Text!TextEvent, Text!TextMessageStart, Text!TextMessageContent,
              Text!TextMessageEnd, Text!TextMessageChunk
<1>2. ASSUME Text!TextNewRun PROVE AddsOne(openMessages, openMessages')
  BY <1>2 DEF Text!TextNewRun, Text!EmptyDict, AddsOne
<1> QED BY <1>1, <1>2
        DEF Text!TextNext, Text!TextElsewhere, Text!TextUnjudged, Text!messageVars,
            Text!TextEnds, Text!TextFinalize, AddsOne

LEMMA CallsAddOne ==
  ASSUME Tool!ToolNext
  PROVE  AddsOne(openToolCalls, openToolCalls')
<1>1. ASSUME NEW e, Tool!ToolEvent(e) PROVE AddsOne(openToolCalls, openToolCalls')
  <2>1. CASE UNCHANGED openToolCalls
    BY <2>1 DEF AddsOne
  <2>2. ASSUME NEW k, NEW v, openToolCalls' = Tool!Put(openToolCalls, k, v)
        PROVE  AddsOne(openToolCalls, openToolCalls')
    BY <2>2 DEF Tool!Put, AddsOne
  <2>3. ASSUME NEW k, openToolCalls' = Tool!Drop(openToolCalls, k)
        PROVE  AddsOne(openToolCalls, openToolCalls')
    BY <2>3 DEF Tool!Drop, AddsOne
  <2>4. ASSUME DOMAIN openToolCalls' = DOMAIN openToolCalls
        PROVE  AddsOne(openToolCalls, openToolCalls')
    BY <2>4 DEF AddsOne
  <2>5. CASE Tool!ToolCallArgs(e) \/ Tool!ToolCallChunk(e)
    BY <2>5, <2>1, <2>4 DEF Tool!ToolCallArgs, Tool!ToolCallChunk, Tool!toolCallVars
  <2> QED BY <1>1, <2>1, <2>2, <2>3, <2>5
          DEF Tool!ToolEvent, Tool!ToolCallStart, Tool!ToolCallEnd, Tool!ToolCallResult
<1>2. ASSUME Tool!ToolNewRun PROVE AddsOne(openToolCalls, openToolCalls')
  BY <1>2 DEF Tool!ToolNewRun, Tool!EmptyDict, AddsOne
<1> QED BY <1>1, <1>2
        DEF Tool!ToolNext, Tool!ToolElsewhere, Tool!MessagesSnapshot, Tool!ToolUnjudged,
            Tool!toolCallVars, Tool!ToolEnds, Tool!ToolFinalize, AddsOne

LEMMA StepsAddOne ==
  ASSUME Step!StepNext
  PROVE  AddsOne(openSteps, openSteps')
<1>1. ASSUME NEW e, Step!StepEvent(e) PROVE AddsOne(openSteps, openSteps')
  <2>1. ASSUME DOMAIN openSteps' = DOMAIN openSteps PROVE AddsOne(openSteps, openSteps')
    BY <2>1 DEF AddsOne
  <2>2. ASSUME NEW k, NEW v, openSteps' = Step!Put(openSteps, k, v)
        PROVE  AddsOne(openSteps, openSteps')
    BY <2>2 DEF Step!Put, AddsOne
  <2>3. ASSUME NEW k, openSteps' = Step!Drop(openSteps, k)
        PROVE  AddsOne(openSteps, openSteps')
    BY <2>3 DEF Step!Drop, AddsOne
  <2>4. CASE Step!StepStarted(e)
    BY <2>4, <2>1, <2>2 DEF Step!StepStarted
  <2>5. CASE Step!StepFinished(e)
    BY <2>5, <2>1, <2>3 DEF Step!StepFinished
  <2> QED BY <1>1, <2>4, <2>5 DEF Step!StepEvent
<1>2. ASSUME Step!StepsNewRun PROVE AddsOne(openSteps, openSteps')
  BY <1>2 DEF Step!StepsNewRun, Step!EmptyDict, AddsOne
<1> QED BY <1>1, <1>2
        DEF Step!StepNext, Step!StepsElsewhere, Step!StepsEnd, Step!StepsFinalize, AddsOne

LEMMA ReasoningAddsOne ==
  ASSUME Reason!ReasoningNext
  PROVE  /\ AddsOne(openReasoningBlocks, openReasoningBlocks')
         /\ AddsOne(openReasoningMessages, openReasoningMessages')
<1>1. ASSUME NEW d, NEW d1, NEW k, NEW v,
             \/ d1 = d \/ d1 = Reason!Put(d, k, v) \/ d1 = Reason!Drop(d, k)
             \/ d1 = Reason!EmptyDict
      PROVE  AddsOne(d, d1)
  BY <1>1 DEF Reason!Put, Reason!Drop, Reason!EmptyDict, AddsOne
<1>2. ASSUME NEW e, Reason!ReasoningEvent(e)
      PROVE  /\ AddsOne(openReasoningBlocks, openReasoningBlocks')
             /\ AddsOne(openReasoningMessages, openReasoningMessages')
  <2>1. CASE Reason!ReasoningStart(e)
    BY <2>1, <1>1 DEF Reason!ReasoningStart, Reason!openReasoningVars
  <2>2. CASE Reason!ReasoningEnd(e)
    BY <2>2, <1>1 DEF Reason!ReasoningEnd
  <2>3. CASE Reason!ReasoningContent(e) \/ Reason!ReasoningMessageChunk(e)
    BY <2>3, <1>1
       DEF Reason!ReasoningContent, Reason!ReasoningMessageChunk, Reason!openReasoningVars
  <2> QED BY <1>2, <2>1, <2>2, <2>3 DEF Reason!ReasoningEvent
<1> QED BY <1>1, <1>2
        DEF Reason!ReasoningNext, Reason!ReasoningElsewhere, Reason!ReasoningUnjudged,
            Reason!ReasoningNewRun, Reason!ReasoningEnds, Reason!ReasoningFinalize,
            Reason!openReasoningVars

LEMMA SubagentsAddOne ==
  ASSUME Sub!SubagentNext
  PROVE  AddsOne(openSubagents, openSubagents')
<1>1. ASSUME NEW d1, NEW k, NEW v,
             \/ d1 = openSubagents \/ d1 = Sub!Put(openSubagents, k, v)
             \/ d1 = Sub!Drop(openSubagents, k) \/ d1 = Sub!EmptyDict
      PROVE  AddsOne(openSubagents, d1)
  BY <1>1 DEF Sub!Put, Sub!Drop, Sub!EmptyDict, AddsOne
<1>2. ASSUME NEW e, Sub!SubagentEvent(e) PROVE AddsOne(openSubagents, openSubagents')
  BY <1>1, <1>2 DEF Sub!SubagentEvent, Sub!SubagentStarted, Sub!Opens, Sub!SubagentFinished,
                    Sub!SubagentError, Sub!Closes
<1> QED BY <1>1, <1>2
        DEF Sub!SubagentNext, Sub!SubagentsElsewhere, Sub!SubagentsNewRun, Sub!SubagentsEnd,
            Sub!SubagentsFinalize, Sub!subagentLifeVars

-----------------------------------------------------------------------------
\* What the RUN_FINISHED at n has to report.
Debris(n) ==
  ((((Text!UnterminatedMessages(n) \cup Tool!UnterminatedCalls(n))
     \cup Step!UnterminatedSteps(n))
    \cup Reason!UnterminatedReasoning(n))
   \cup Sub!UnterminatedSubagents(n))

FiniteRun ==
  /\ IsFiniteSet(DOMAIN openMessages) /\ IsFiniteSet(DOMAIN openToolCalls)
  /\ IsFiniteSet(DOMAIN openSteps) /\ IsFiniteSet(DOMAIN openReasoningBlocks)
  /\ IsFiniteSet(DOMAIN openReasoningMessages) /\ IsFiniteSet(DOMAIN openSubagents)

LEMMA FiniteRunPreserved ==
  ASSUME FiniteRun, Next
  PROVE  FiniteRun'
<1>1. /\ AddsOne(openMessages, openMessages') /\ AddsOne(openToolCalls, openToolCalls')
      /\ AddsOne(openSteps, openSteps')
      /\ AddsOne(openReasoningBlocks, openReasoningBlocks')
      /\ AddsOne(openReasoningMessages, openReasoningMessages')
      /\ AddsOne(openSubagents, openSubagents')
  BY TextImplemented, ToolImplemented, StepsImplemented, ReasoningImplemented,
     SubagentsImplemented, MessagesAddOne, CallsAddOne, StepsAddOne, ReasoningAddsOne,
     SubagentsAddOne
<1> QED BY <1>1, StillFinite DEF FiniteRun

\* The entities left open and the findings that tell them are as many.
LEMMA DebrisCount ==
  ASSUME NEW n, FiniteRun
  PROVE  Cardinality(Debris(n)) =
           Cardinality(DOMAIN openMessages) + Cardinality(DOMAIN openToolCalls)
           + Cardinality(DOMAIN openSteps) + Cardinality(DOMAIN openReasoningBlocks)
           + Cardinality(DOMAIN openReasoningMessages) + Cardinality(DOMAIN openSubagents)
<1> DEFINE messages == Text!UnterminatedMessages(n)
           calls == Tool!UnterminatedCalls(n)
           steps == Step!UnterminatedSteps(n)
           blocks == {Finding("AGUI402", n, <<"REASONING_START", m>>, openReasoningBlocks[m]) :
                        m \in DOMAIN openReasoningBlocks}
           thoughts == {Finding("AGUI402", n, <<"REASONING_MESSAGE_START", m>>,
                                openReasoningMessages[m]) :
                          m \in DOMAIN openReasoningMessages}
           subagents == Sub!UnterminatedSubagents(n)
<1>1. /\ IsFiniteSet(messages)
      /\ Cardinality(messages) = Cardinality(DOMAIN openMessages)
  <2> DEFINE tells == [k \in DOMAIN openMessages |->
                         Finding("AGUI103", n, k, openMessages[k].start)]
  <2>1. \A k \in DOMAIN openMessages : tells[k] \in messages
    BY DEF Text!UnterminatedMessages, Text!Finding, Finding
  <2>2. \A f \in messages : \E k \in DOMAIN openMessages : f = tells[k]
    BY DEF Text!UnterminatedMessages, Text!Finding, Finding
  <2>3. \A j, k \in DOMAIN openMessages : tells[j] = tells[k] => j = k
    BY DEF Finding
  <2> HIDE DEF tells, messages
  <2> QED BY <2>1, <2>2, <2>3, OneFindingEach DEF FiniteRun
<1>2. /\ IsFiniteSet(calls)
      /\ Cardinality(calls) = Cardinality(DOMAIN openToolCalls)
  <2> DEFINE tells == [k \in DOMAIN openToolCalls |->
                         Finding("AGUI203", n, k, openToolCalls[k].start)]
  <2>1. \A k \in DOMAIN openToolCalls : tells[k] \in calls
    BY DEF Tool!UnterminatedCalls, Tool!Finding, Finding
  <2>2. \A f \in calls : \E k \in DOMAIN openToolCalls : f = tells[k]
    BY DEF Tool!UnterminatedCalls, Tool!Finding, Finding
  <2>3. \A j, k \in DOMAIN openToolCalls : tells[j] = tells[k] => j = k
    BY DEF Finding
  <2> HIDE DEF tells, calls
  <2> QED BY <2>1, <2>2, <2>3, OneFindingEach DEF FiniteRun
<1>3. /\ IsFiniteSet(steps)
      /\ Cardinality(steps) = Cardinality(DOMAIN openSteps)
  <2> DEFINE tells == [k \in DOMAIN openSteps |->
                         Finding("AGUI007", n, k, openSteps[k].first)]
  <2>1. \A k \in DOMAIN openSteps : tells[k] \in steps
    BY DEF Step!UnterminatedSteps, Step!Finding, Finding
  <2>2. \A f \in steps : \E k \in DOMAIN openSteps : f = tells[k]
    BY DEF Step!UnterminatedSteps, Step!Finding, Finding
  <2>3. \A j, k \in DOMAIN openSteps : tells[j] = tells[k] => j = k
    BY DEF Finding
  <2> HIDE DEF tells, steps
  <2> QED BY <2>1, <2>2, <2>3, OneFindingEach DEF FiniteRun
<1>4. /\ IsFiniteSet(blocks)
      /\ Cardinality(blocks) = Cardinality(DOMAIN openReasoningBlocks)
  <2> DEFINE tells == [k \in DOMAIN openReasoningBlocks |->
                         Finding("AGUI402", n, <<"REASONING_START", k>>, openReasoningBlocks[k])]
  <2>1. \A k \in DOMAIN openReasoningBlocks : tells[k] \in blocks
    BY DEF Finding
  <2>2. \A f \in blocks : \E k \in DOMAIN openReasoningBlocks : f = tells[k]
    BY DEF Finding
  <2>3. \A j, k \in DOMAIN openReasoningBlocks : tells[j] = tells[k] => j = k
    BY DEF Finding
  <2> HIDE DEF tells, blocks
  <2> QED BY <2>1, <2>2, <2>3, OneFindingEach DEF FiniteRun
<1>5. /\ IsFiniteSet(thoughts)
      /\ Cardinality(thoughts) = Cardinality(DOMAIN openReasoningMessages)
  <2> DEFINE tells == [k \in DOMAIN openReasoningMessages |->
                         Finding("AGUI402", n, <<"REASONING_MESSAGE_START", k>>,
                                 openReasoningMessages[k])]
  <2>1. \A k \in DOMAIN openReasoningMessages : tells[k] \in thoughts
    BY DEF Finding
  <2>2. \A f \in thoughts : \E k \in DOMAIN openReasoningMessages : f = tells[k]
    BY DEF Finding
  <2>3. \A j, k \in DOMAIN openReasoningMessages : tells[j] = tells[k] => j = k
    BY DEF Finding
  <2> HIDE DEF tells, thoughts
  <2> QED BY <2>1, <2>2, <2>3, OneFindingEach DEF FiniteRun
<1>6. /\ IsFiniteSet(subagents)
      /\ Cardinality(subagents) = Cardinality(DOMAIN openSubagents)
  <2> DEFINE tells == [k \in DOMAIN openSubagents |->
                         Finding("AGUI604", n, k, openSubagents[k])]
  <2>1. \A k \in DOMAIN openSubagents : tells[k] \in subagents
    BY DEF Sub!UnterminatedSubagents, Sub!Finding, Finding
  <2>2. \A f \in subagents : \E k \in DOMAIN openSubagents : f = tells[k]
    BY DEF Sub!UnterminatedSubagents, Sub!Finding, Finding
  <2>3. \A j, k \in DOMAIN openSubagents : tells[j] = tells[k] => j = k
    BY DEF Finding
  <2> HIDE DEF tells, subagents
  <2> QED BY <2>1, <2>2, <2>3, OneFindingEach DEF FiniteRun
<1>7. /\ \A f \in messages : f.rule = "AGUI103"
      /\ \A f \in calls : f.rule = "AGUI203"
      /\ \A f \in steps : f.rule = "AGUI007"
      /\ \A f \in blocks : f.rule = "AGUI402" /\ f.id[1] = "REASONING_START"
      /\ \A f \in thoughts : f.rule = "AGUI402" /\ f.id[1] = "REASONING_MESSAGE_START"
      /\ \A f \in subagents : f.rule = "AGUI604"
  BY DEF Text!UnterminatedMessages, Text!Finding, Tool!UnterminatedCalls, Tool!Finding,
         Step!UnterminatedSteps, Step!Finding, Sub!UnterminatedSubagents, Sub!Finding, Finding
<1>8. Debris(n) = ((((messages \cup calls) \cup steps) \cup blocks) \cup thoughts) \cup subagents
  BY DEF Debris, Reason!UnterminatedReasoning, Reason!Finding, Finding
<1> HIDE DEF messages, calls, steps, blocks, thoughts, subagents
<1>9. /\ messages \cap calls = {}
      /\ (messages \cup calls) \cap steps = {}
      /\ ((messages \cup calls) \cup steps) \cap blocks = {}
      /\ (((messages \cup calls) \cup steps) \cup blocks) \cap thoughts = {}
      /\ ((((messages \cup calls) \cup steps) \cup blocks) \cup thoughts) \cap subagents = {}
  BY <1>7
<1>10. /\ IsFiniteSet(messages \cup calls)
       /\ Cardinality(messages \cup calls) = Cardinality(messages) + Cardinality(calls)
  BY <1>1, <1>2, <1>9, Disjoint
<1>11. /\ IsFiniteSet((messages \cup calls) \cup steps)
       /\ Cardinality((messages \cup calls) \cup steps) =
            Cardinality(messages \cup calls) + Cardinality(steps)
  BY <1>3, <1>9, <1>10, Disjoint
<1>12. /\ IsFiniteSet(((messages \cup calls) \cup steps) \cup blocks)
       /\ Cardinality(((messages \cup calls) \cup steps) \cup blocks) =
            Cardinality((messages \cup calls) \cup steps) + Cardinality(blocks)
  BY <1>4, <1>9, <1>11, Disjoint
<1>13. /\ IsFiniteSet((((messages \cup calls) \cup steps) \cup blocks) \cup thoughts)
       /\ Cardinality((((messages \cup calls) \cup steps) \cup blocks) \cup thoughts) =
            Cardinality(((messages \cup calls) \cup steps) \cup blocks) + Cardinality(thoughts)
  BY <1>5, <1>9, <1>12, Disjoint
<1>14. Cardinality(
         ((((messages \cup calls) \cup steps) \cup blocks) \cup thoughts) \cup subagents) =
         Cardinality((((messages \cup calls) \cup steps) \cup blocks) \cup thoughts)
         + Cardinality(subagents)
  BY <1>6, <1>9, <1>13, Disjoint
<1> QED BY <1>1, <1>2, <1>3, <1>4, <1>5, <1>6, <1>8, <1>10, <1>11, <1>12, <1>13, <1>14

-----------------------------------------------------------------------------
\* RUN_FINISHED reports what is open and nothing else of that kind.
LEMMA CleanEndTells ==
  ASSUME NEW e \in StreamInputs, FeedTerminal(e), e.type = "RUN_FINISHED"
  PROVE  /\ Unterminated' = Debris(eventCount)
         /\ UNCHANGED <<openMessages, openToolCalls, openSteps, openReasoningBlocks,
                        openReasoningMessages, openSubagents>>
<1>1. /\ textFound' = Text!UnterminatedMessages(eventCount)
      /\ UNCHANGED openMessages
  BY DEF FeedTerminal, Text!TextEnds, Text!Reports
<1>2. /\ toolFound' = Tool!ToolChunkFindings(eventCount) \cup Tool!UnterminatedCalls(eventCount)
      /\ UNCHANGED openToolCalls
  BY DEF FeedTerminal, Tool!ToolEnds, Tool!CloseToolChunkAndReport
<1>3. /\ stepFound' = Step!UnterminatedSteps(eventCount) /\ UNCHANGED openSteps
  BY DEF FeedTerminal, Step!StepsEnd
<1>4. /\ reasoningFound' = Reason!UnterminatedReasoning(eventCount)
      /\ UNCHANGED <<openReasoningBlocks, openReasoningMessages>>
  BY DEF FeedTerminal, Reason!ReasoningEnds, Reason!openReasoningVars
<1>5. /\ subagentFound' = Sub!UnterminatedSubagents(eventCount) /\ UNCHANGED openSubagents
  BY DEF FeedTerminal, Sub!SubagentsEnd, Sub!subagentLifeVars
<1>6. stateFound' = {} /\ schemaFound' = {}
  BY DEF FeedTerminal, State!StateEnds, NoSchema
<1>7. Life!LifecycleNext
  BY DEF FeedTerminal, Life!LifecycleNext, Life!StreamInput
<1>8. \A f \in lifecycleFound' : f.rule \notin UnterminatedRules
  BY <1>7, LifecycleSilent
<1>9. \A f \in Tool!ToolChunkFindings(eventCount) : f.rule \notin UnterminatedRules
  BY DEF Tool!ToolChunkFindings, Tool!ArgsFindings, Tool!Finding, UnterminatedRules
<1>10. \A f \in Debris(eventCount) : f.rule \in UnterminatedRules
  BY DEF Debris, Text!UnterminatedMessages, Text!Finding, Tool!UnterminatedCalls, Tool!Finding,
         Step!UnterminatedSteps, Step!Finding, Reason!UnterminatedReasoning, Reason!Finding,
         Sub!UnterminatedSubagents, Sub!Finding, UnterminatedRules
<1>11. /\ batch' = Debris(eventCount) \cup (lifecycleFound' \cup Tool!ToolChunkFindings(eventCount))
  BY <1>1, <1>2, <1>3, <1>4, <1>5, <1>6 DEF batch, Debris
<1>12. Unterminated' = Debris(eventCount)
  BY <1>8, <1>9, <1>10, <1>11 DEF Unterminated
<1> QED BY <1>1, <1>2, <1>3, <1>4, <1>5, <1>12

\* The terminal event was fed, and a run holds finitely many entities.
DebrisInv ==
  /\ eventCount \in Nat /\ terminal \in [type : TerminalTypes, index : Nat] \cup {None}
  /\ terminal # None => terminal.index < eventCount
  /\ FiniteRun
  /\ CleanEndReportsAllDebris

LEMMA DebrisInit ==
  ASSUME Init
  PROVE  DebrisInv
<1>1. eventCount \in Nat /\ terminal = None
  BY DEF Init, Life!LifecycleInit, Life!ScopeInit
<1>2. /\ DOMAIN openMessages = {} /\ DOMAIN openToolCalls = {} /\ DOMAIN openSteps = {}
      /\ DOMAIN openReasoningBlocks = {} /\ DOMAIN openReasoningMessages = {}
      /\ DOMAIN openSubagents = {}
  BY DEF Init, Text!TextInit, Text!EmptyDict, Tool!ToolInit, Tool!EmptyDict, Step!StepInit,
         Step!EmptyDict, Reason!ReasoningInit, Reason!EmptyDict, Sub!SubagentInit, Sub!EmptyDict
<1>3. FiniteRun
  BY <1>2, FS_EmptySet DEF FiniteRun
<1>4. Unterminated = {}
  BY DEF Init, Life!LifecycleInit, Text!TextInit, Tool!ToolInit, Step!StepInit,
         State!StateInit, Reason!ReasoningInit, Sub!SubagentInit, Unterminated, batch
<1>5. CleanEndReportsAllDebris
  BY <1>2, <1>4, FS_EmptySet DEF CleanEndReportsAllDebris
<1> QED BY <1>1, <1>3, <1>5 DEF DebrisInv

\* Only a terminal event ends a run.
LEMMA ScopeSteps ==
  ASSUME Next
  PROVE  \/ \E e \in StreamInputs : FeedTerminal(e)
         \/ eventCount' = eventCount + 1 /\ terminal' \in {None, terminal}
         \/ finalized' /\ UNCHANGED <<eventCount, terminal>>
<1>1. ASSUME NEW e, Life!OrdinaryEvent(e) \/ Life!RunStarted(e) \/ Life!Unreadable(e)
                      \/ Life!UnknownType(e) \/ Life!AfterTerminal(e)
      PROVE  eventCount' = eventCount + 1 /\ terminal' \in {None, terminal}
  BY <1>1 DEF Life!OrdinaryEvent, Life!RunStarted, Life!Unreadable, Life!UnknownType,
              Life!AfterTerminal, Life!Judged, Life!Unjudged, Life!NewRun, Life!Fed
<1>2. ASSUME Finalize PROVE finalized' /\ UNCHANGED <<eventCount, terminal>>
  BY <1>2 DEF Finalize, Life!LifecycleFinalize, Life!Finalizes
<1> QED BY <1>1, <1>2
        DEF Next, Feed, Dispatches, FeedText, FeedToolCall, FeedStep, FeedState, FeedReasoning,
            FeedSubagent, FeedHistory, FeedOther, FeedUnjudged, FeedRunStarted

LEMMA DebrisStep ==
  ASSUME DebrisInv, Next
  PROVE  DebrisInv'
<1>1. eventCount \in Nat /\ None \notin [type : TerminalTypes, index : Nat]
  BY NoTerminalAssumption DEF DebrisInv
<1>2. FiniteRun'
  BY FiniteRunPreserved DEF DebrisInv
<1>3. ASSUME NEW e \in StreamInputs, FeedTerminal(e)
      PROVE  /\ terminal' = [type |-> e.type, index |-> eventCount]
             /\ eventCount' = eventCount + 1
             /\ e.type \in TerminalTypes
  BY <1>3 DEF FeedTerminal, Life!RunEnds, Life!Ends, Life!Fed, Life!TerminalTypes, TerminalTypes
<1>4. /\ eventCount' \in Nat
      /\ terminal' \in [type : TerminalTypes, index : Nat] \cup {None}
  BY <1>1, <1>3, ScopeSteps DEF DebrisInv
<1>5. (terminal # None => terminal.index < eventCount)'
  BY <1>1, <1>3, ScopeSteps DEF DebrisInv
<1>6. CleanEndReportsAllDebris'
  <2>1. ASSUME NEW e \in StreamInputs, FeedTerminal(e), e.type = "RUN_FINISHED"
        PROVE  CleanEndReportsAllDebris'
    BY <2>1, CleanEndTells, DebrisCount DEF DebrisInv, CleanEndReportsAllDebris
  <2>2. ASSUME NEW e \in StreamInputs, FeedTerminal(e), e.type # "RUN_FINISHED"
        PROVE  CleanEndReportsAllDebris'
    <3>1. terminal'.type # "RUN_FINISHED"
      BY <2>2, <1>3
    <3>2. terminal' # [type |-> "RUN_FINISHED", index |-> eventCount' - 1]
      BY <3>1
    <3> QED BY <3>2 DEF CleanEndReportsAllDebris
  <2>3. ASSUME eventCount' = eventCount + 1, terminal' \in {None, terminal}
        PROVE  CleanEndReportsAllDebris'
    <3>1. terminal' # [type |-> "RUN_FINISHED", index |-> eventCount]
      BY <2>3, <1>1 DEF DebrisInv, TerminalTypes
    <3> QED BY <2>3, <3>1, <1>1 DEF CleanEndReportsAllDebris
  <2>4. ASSUME finalized' PROVE CleanEndReportsAllDebris'
    BY <2>4 DEF CleanEndReportsAllDebris
  <2> QED BY <2>1, <2>2, <2>3, <2>4, ScopeSteps
<1> QED BY <1>2, <1>4, <1>5, <1>6 DEF DebrisInv

LEMMA DebrisStutters ==
  ASSUME DebrisInv, UNCHANGED vars
  PROVE  DebrisInv'
<1>1. UNCHANGED <<eventCount, terminal, finalized>> /\ UNCHANGED batch
  BY DEF vars, scopeVars, found, batch
<1>2. UNCHANGED <<openMessages, openToolCalls, openSteps, openReasoningBlocks,
                  openReasoningMessages, openSubagents>>
  BY DEF vars, runState
<1>3. /\ eventCount' \in Nat
      /\ terminal' \in [type : TerminalTypes, index : Nat] \cup {None}
      /\ (terminal # None => terminal.index < eventCount)'
  BY <1>1 DEF DebrisInv
<1>4. FiniteRun'
  BY <1>2 DEF DebrisInv, FiniteRun
<1>5. CleanEndReportsAllDebris'
  BY <1>1, <1>2 DEF DebrisInv, CleanEndReportsAllDebris, Unterminated
<1> QED BY <1>3, <1>4, <1>5 DEF DebrisInv

\* For any stream, the RUN_FINISHED of a run reports every message, call, step,
\* reasoning block and message and subagent the run left open, each of them once
\* (engine.py, _end_of_run_checks).
THEOREM DebrisIsTold == Spec => []CleanEndReportsAllDebris
<1>1. Init => DebrisInv
  BY DebrisInit
<1>2. DebrisInv /\ [Next]_vars => DebrisInv'
  BY DebrisStep, DebrisStutters
<1>3. DebrisInv => CleanEndReportsAllDebris
  BY DEF DebrisInv
<1> QED BY <1>1, <1>2, <1>3, PTL DEF Spec

-----------------------------------------------------------------------------
\* No chunk stream outlives its run.
ChunksEnd ==
  terminal # None => textChunk = None /\ toolChunk = None /\ reasoningChunk = None

\* An input that no rule judges has been diagnosed.
LEMMA UnjudgedTurnsAway ==
  ASSUME NEW e, FeedUnjudged(e)
  PROVE  TurnedAway'
<1>1. ASSUME NEW rule, NEW id, NEW related, NEW others,
             lifecycleFound' = others \cup Life!Note(rule, id, related),
             \/ rule \in {"AGUI502", "AGUI503", "AGUI004", "AGUI005"}
             \/ rule = "AGUI504" /\ id = "type"
      PROVE  TurnedAway'
  <2> DEFINE f == Life!Finding(rule, eventCount, id, related)
  <2>1. f \in lifecycleFound'
    BY <1>1 DEF Life!Note
  <2>2. f.rule = rule /\ f.id = id
    BY DEF Life!Finding
  <2>3. \/ f.rule \in {"AGUI502", "AGUI503", "AGUI004", "AGUI005"}
        \/ f.rule = "AGUI504" /\ f.id = "type"
    BY <1>1, <2>2
  <2> HIDE DEF f
  <2> QED BY <2>1, <2>3 DEF TurnedAway
<1>2. CASE Life!Unreadable(e)
  <2>1. \/ lifecycleFound' = {} \cup Life!Note("AGUI502", None, None)
        \/ lifecycleFound' = {} \cup Life!Note("AGUI504", "type", None)
    BY <1>2 DEF Life!Unreadable
  <2> QED BY <1>1, <2>1
<1>3. CASE Life!UnknownType(e)
  <2>1. lifecycleFound' = Life!SchemaFindings(e) \cup Life!Note("AGUI503", None, None)
    BY <1>3 DEF Life!UnknownType
  <2> QED BY <1>1, <2>1
<1>4. CASE Life!AfterTerminal(e)
  <2>1. PICK rule \in {"AGUI004", "AGUI005"} :
          lifecycleFound' = Life!SchemaFindings(e) \cup Life!Note(rule, None, terminal.index)
    BY <1>4 DEF Life!AfterTerminal
  <2> QED BY <1>1, <2>1
<1> QED BY <1>2, <1>3, <1>4 DEF FeedUnjudged

\* A judged event that is no chunk of the form finds its stream closed.
LEMMA TextStreamEnds ==
  ASSUME TextAside \/ Text!TextNewRun \/ \E type : Text!TextEnds(type)
  PROVE  textChunk' = None
BY DEF TextAside, Text!TextElsewhere, Text!TextNewRun, Text!TextEnds, Text!CloseTextChunk

LEMMA ToolStreamEnds ==
  ASSUME Tool!ToolElsewhere \/ Tool!ToolNewRun \/ \E type : Tool!ToolEnds(type)
  PROVE  toolChunk' = None
BY DEF Tool!ToolElsewhere, Tool!ToolNewRun, Tool!ToolEnds,
       Tool!CloseToolChunkAndReport

LEMMA ReasoningStreamEnds ==
  ASSUME ReasonAside \/ Reason!ReasoningNewRun \/ \E type : Reason!ReasoningEnds(type)
  PROVE  reasoningChunk' = None
BY DEF ReasonAside, Reason!ReasoningElsewhere, Reason!ReasoningNewRun, Reason!ReasoningEnds

LEMMA TextInterrupted ==
  ASSUME ChunksEnd, Next, ~TurnedAway', textChunk' # None
  PROVE  \E e \in TextInputs : e.type = "TEXT_MESSAGE_CHUNK" /\ FeedText(e)
<1>1. ASSUME NEW e \in TextInputs, FeedText(e) PROVE e.type = "TEXT_MESSAGE_CHUNK"
  <2>1. Text!TextEvent(e)
    BY <1>1 DEF FeedText
  <2> QED BY <2>1 DEF Text!TextEvent, Text!TextMessageStart, Text!TextMessageContent,
                      Text!TextMessageEnd, Text!TextMessageChunk, Text!CloseTextChunk
<1>2. ASSUME Finalize PROVE FALSE
  <2>1. Text!TextFinalize
    BY <1>2 DEF Finalize
  <2> QED BY <2>1 DEF Text!TextFinalize, Text!CloseTextChunk, ChunksEnd
<1>3. ASSUME NEW history, FeedHistory(history[1], history[2]) PROVE FALSE
  BY <1>3, TextStreamEnds DEF FeedHistory
<1>4. ASSUME NEW e, \/ FeedToolCall(e) \/ FeedStep(e) \/ FeedState(e) \/ FeedReasoning(e)
                   \/ FeedSubagent(e) \/ FeedOther(e) \/ FeedRunStarted(e) \/ FeedTerminal(e)
      PROVE FALSE
  BY <1>4, TextStreamEnds
     DEF FeedToolCall, FeedStep, FeedState, FeedReasoning, FeedSubagent, FeedOther,
         FeedRunStarted, FeedTerminal
<1> QED BY <1>1, <1>2, <1>3, <1>4, UnjudgedTurnsAway DEF Next, Feed

LEMMA ToolInterrupted ==
  ASSUME ChunksEnd, Next, ~TurnedAway', toolChunk' # None
  PROVE  \E e \in ToolInputs : e.type = "TOOL_CALL_CHUNK" /\ FeedToolCall(e)
<1>1. ASSUME NEW e \in ToolInputs, FeedToolCall(e) PROVE e.type = "TOOL_CALL_CHUNK"
  <2>1. Tool!ToolEvent(e)
    BY <1>1 DEF FeedToolCall
  <2>2. CASE Tool!ToolCallStart(e)
    BY <2>2 DEF Tool!ToolCallStart, Tool!CloseToolChunkAndReport
  <2>3. CASE Tool!ToolCallArgs(e)
    BY <2>3 DEF Tool!ToolCallArgs, Tool!CloseToolChunkAndReport
  <2>4. CASE Tool!ToolCallEnd(e)
    BY <2>4 DEF Tool!ToolCallEnd, Tool!CloseToolChunkAndReport
  <2>5. CASE Tool!ToolCallResult(e)
    BY <2>5 DEF Tool!ToolCallResult, Tool!CloseToolChunkAndReport
  <2>6. CASE Tool!ToolCallChunk(e)
    BY <2>6 DEF Tool!ToolCallChunk
  <2> QED BY <2>1, <2>2, <2>3, <2>4, <2>5, <2>6 DEF Tool!ToolEvent
<1>2. ASSUME Finalize PROVE FALSE
  <2>1. Tool!ToolFinalize
    BY <1>2 DEF Finalize
  <2> QED BY <2>1 DEF Tool!ToolFinalize, Tool!CloseToolChunkAndReport, ChunksEnd
<1>3. ASSUME NEW history, FeedHistory(history[1], history[2]) PROVE FALSE
  BY <1>3, ToolStreamEnds DEF FeedHistory, Tool!MessagesSnapshot
<1>4. ASSUME NEW e, \/ FeedText(e) \/ FeedStep(e) \/ FeedState(e) \/ FeedReasoning(e)
                   \/ FeedSubagent(e) \/ FeedOther(e) \/ FeedRunStarted(e) \/ FeedTerminal(e)
      PROVE FALSE
  BY <1>4, ToolStreamEnds
     DEF FeedText, FeedStep, FeedState, FeedReasoning, FeedSubagent, FeedOther,
         FeedRunStarted, FeedTerminal, ToolAside
<1> QED BY <1>1, <1>2, <1>3, <1>4, UnjudgedTurnsAway DEF Next, Feed

LEMMA ReasoningInterrupted ==
  ASSUME ChunksEnd, Next, ~TurnedAway', reasoningChunk' # None
  PROVE  \E e \in ReasoningInputs : e.type = "REASONING_MESSAGE_CHUNK" /\ FeedReasoning(e)
<1>1. ASSUME NEW e \in ReasoningInputs, FeedReasoning(e)
      PROVE  e.type = "REASONING_MESSAGE_CHUNK"
  <2>1. Reason!ReasoningEvent(e)
    BY <1>1 DEF FeedReasoning
  <2> QED BY <2>1 DEF Reason!ReasoningEvent, Reason!ReasoningStart, Reason!ReasoningEnd,
                      Reason!ReasoningContent, Reason!ReasoningMessageChunk
<1>2. ASSUME Finalize PROVE FALSE
  BY <1>2 DEF Finalize, Reason!ReasoningFinalize, ChunksEnd
<1>3. ASSUME NEW history, FeedHistory(history[1], history[2]) PROVE FALSE
  BY <1>3, ReasoningStreamEnds DEF FeedHistory
<1>4. ASSUME NEW e, \/ FeedText(e) \/ FeedToolCall(e) \/ FeedStep(e) \/ FeedState(e)
                   \/ FeedSubagent(e) \/ FeedOther(e) \/ FeedRunStarted(e) \/ FeedTerminal(e)
      PROVE FALSE
  BY <1>4, ReasoningStreamEnds
     DEF FeedText, FeedToolCall, FeedStep, FeedState, FeedSubagent, FeedOther,
         FeedRunStarted, FeedTerminal
<1> QED BY <1>1, <1>2, <1>3, <1>4, UnjudgedTurnsAway DEF Next, Feed

\* Only a terminal event ends a run.
LEMMA RunEnding ==
  ASSUME Next, terminal = None, terminal' # None
  PROVE  \E e \in StreamInputs : FeedTerminal(e)
<1>1. ASSUME NEW e, \/ Life!OrdinaryEvent(e) \/ Life!RunStarted(e) \/ Life!Unreadable(e)
                   \/ Life!UnknownType(e) \/ Life!AfterTerminal(e)
      PROVE FALSE
  BY <1>1 DEF Life!OrdinaryEvent, Life!RunStarted, Life!Unreadable, Life!UnknownType,
              Life!AfterTerminal, Life!Judged, Life!Unjudged, Life!NewRun
<1>2. ASSUME Finalize PROVE FALSE
  BY <1>2 DEF Finalize, Life!LifecycleFinalize, Life!Finalizes
<1> QED BY <1>1, <1>2
        DEF Next, Feed, Dispatches, FeedText, FeedToolCall, FeedStep, FeedState, FeedReasoning,
            FeedSubagent, FeedHistory, FeedOther, FeedRunStarted, FeedUnjudged

LEMMA ChunksEndStep ==
  ASSUME ChunksEnd, [Next]_vars
  PROVE  ChunksEnd'
<1>1. CASE UNCHANGED vars
  BY <1>1 DEF vars, scopeVars, runState, ChunksEnd
<1>2. ASSUME Next, terminal # None, terminal' # None PROVE ChunksEnd'
  <2>1. UNCHANGED runState
    BY <1>2, AfterTheEnd, UnjudgedLeavesRun, FinalizeLeavesEndedRun
  <2> QED BY <1>2, <2>1 DEF runState, ChunksEnd
<1>3. ASSUME Next, terminal = None, terminal' # None PROVE ChunksEnd'
  <2>1. PICK e \in StreamInputs : FeedTerminal(e)
    BY <1>3, RunEnding
  <2> QED BY <2>1, TextStreamEnds, ToolStreamEnds, ReasoningStreamEnds
          DEF FeedTerminal, ChunksEnd
<1>4. CASE terminal' = None
  BY <1>4 DEF ChunksEnd
<1> QED BY <1>1, <1>2, <1>3, <1>4

\* For any stream, a chunk stream is open after an event only if the event is a chunk
\* of its form: every other event that the run judges, a new run and the end of the
\* stream find it closed (engine.py, _close_chunks).
THEOREM ChunksAreInterrupted == Spec => OthersInterruptChunks
<1>1. Init => ChunksEnd
  BY DEF Init, Life!LifecycleInit, Life!ScopeInit, ChunksEnd
<1>2. ChunksEnd /\ [Next]_vars => ChunksEnd'
  BY ChunksEndStep
<1>3. ChunksEnd /\ [Next]_vars =>
        [ TurnedAway'
          \/ /\ textChunk' # None =>
                  \E e \in TextInputs : e.type = "TEXT_MESSAGE_CHUNK" /\ FeedText(e)
             /\ toolChunk' # None =>
                  \E e \in ToolInputs : e.type = "TOOL_CALL_CHUNK" /\ FeedToolCall(e)
             /\ reasoningChunk' # None =>
                  \E e \in ReasoningInputs :
                    e.type = "REASONING_MESSAGE_CHUNK" /\ FeedReasoning(e) ]_vars
  BY TextInterrupted, ToolInterrupted, ReasoningInterrupted
<1> QED BY <1>1, <1>2, <1>3, PTL DEF Spec, OthersInterruptChunks

=============================================================================
