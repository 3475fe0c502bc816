---------------------------- MODULE MCValidator ----------------------------
(***************************************************************************)
(* TLC instance of Validator: from every component the events that open    *)
(* and close something, and the ones that cross components.                *)
(***************************************************************************)
EXTENDS Validator, TLC

CONSTANTS r0, t0, m1, c1, lb, a, d1, p1, k1, s1

Evt(type) == [type |-> type, timestamp |-> None]
Run(type) == Evt(type) @@ [runId |-> r0, threadId |-> t0]
SomeInputs == {Evt("UNKNOWN"), Run("RUN_STARTED"), Run("RUN_FINISHED"), Evt("RUN_ERROR"),
               Evt("EVENT")}

TextEvt(type, m) == [type |-> type, messageId |-> m, subagentRunId |-> None]
SomeTextEvents ==
  {[TextEvt("TEXT_MESSAGE_START", m1) EXCEPT !.subagentRunId = s1],
   TextEvt("TEXT_MESSAGE_CHUNK", m1)}

SomeToolEvents ==
  {[type |-> "TOOL_CALL_START", toolCallId |-> c1, parentMessageId |-> m1,
    subagentRunId |-> None],
   [type |-> "TOOL_CALL_END", toolCallId |-> c1, subagentRunId |-> None],
   [type |-> "TOOL_CALL_RESULT", toolCallId |-> c1, messageId |-> m1],
   [type |-> "TOOL_CALL_CHUNK", toolCallId |-> c1, delta |-> lb, named |-> TRUE]}

SomeStepEvents ==
  {[type |-> "STEP_STARTED", stepName |-> a, subagentRunId |-> None]}

SomeStateEvents == {[type |-> "STATE_DELTA", delta |-> p1]}
Outcomes == <<d1, p1>> :> None

SomeReasoningEvents ==
  {[type |-> "REASONING_START", messageId |-> k1],
   [type |-> "REASONING_MESSAGE_CHUNK", messageId |-> k1, emptyDelta |-> FALSE]}

SomeSubagentEvents ==
  {[type |-> "SUBAGENT_STARTED", subagentRunId |-> s1, parentSubagentRunId |-> None]}

NoTexts == {}
AnyMessages == SUBSET MessageIds
AnySeen == MessageIds \X Tags
OneHistory == {<<{m1}, {c1}>>}

=============================================================================
