----------------------------- MODULE RunHistory -----------------------------
(***************************************************************************)
(* Steps, reasoning, subagents and the shared state of one stream, which   *)
(* is remembered: an event of one component is an event elsewhere to the   *)
(* others (engine.py, _process_event).                                     *)
(***************************************************************************)
EXTENDS StepHistory, ReasoningHistory, SubagentHistory, StateHistory

CONSTANT Alphabets   \* bound: the sets of events a stream may be made of

ASSUME AlphabetsAssumption ==
  UNION Alphabets \subseteq StepInputs \cup ReasoningInputs \cup SubagentInputs \cup StateInputs

VARIABLE alphabet    \* the one this stream is made of

historyVars ==
  <<stepVars, reasoningVars, subagentVars, stateVars, log, alphabet>>

HistoryInit ==
  /\ StepInit
  /\ ReasoningInit
  /\ SubagentInit
  /\ StateInit
  /\ log = <<>>
  /\ alphabet \in Alphabets

Receives(e) ==
  /\ \/ StepEvent(e) /\ ReasoningElsewhere /\ SubagentsElsewhere /\ StateElsewhere
     \/ ReasoningEvent(e) /\ StepsElsewhere /\ SubagentsElsewhere /\ StateElsewhere
     \/ SubagentEvent(e) /\ StepsElsewhere /\ ReasoningElsewhere /\ StateElsewhere
     \/ StateEvent(e) /\ StepsElsewhere /\ ReasoningElsewhere /\ SubagentsElsewhere
  /\ Logs(eventCount, e)

\* Text messages, tool calls, activity, and the events with no rules.
ReceivesOther ==
  /\ StepsElsewhere /\ ReasoningElsewhere /\ SubagentsElsewhere /\ StateElsewhere
  /\ Logs(eventCount, Mark("OTHER"))

ReceivesUnjudged ==
  /\ StepsElsewhere /\ ReasoningUnjudged /\ SubagentsElsewhere /\ StateElsewhere
  /\ Logs(eventCount, Mark("UNJUDGED"))

ReceivesNewRun ==
  /\ StepsNewRun /\ ReasoningNewRun /\ SubagentsNewRun /\ StateNewRun
  /\ Logs(eventCount, Mark("RUN_STARTED"))

ReceivesTerminal(type) ==
  /\ StepsEnd(type) /\ ReasoningEnds(type) /\ SubagentsEnd(type) /\ StateEnds(type)
  /\ Logs(eventCount, Mark(type))

EndsStream ==
  /\ StepsFinalize /\ ReasoningFinalize /\ SubagentsFinalize /\ StateFinalize
  /\ Logs(AtEndOfStream, EndOfStreamMark)

HistoryNext ==
  /\ \/ /\ ~finalized   \* every caller in the repository finalizes last
        /\ \/ \E e \in alphabet : Receives(e)
           \/ ReceivesOther
           \/ ReceivesUnjudged
           \/ ReceivesNewRun
           \/ \E type \in TerminalTypes : ReceivesTerminal(type)
     \/ EndsStream
  /\ UNCHANGED alphabet

HistorySpec == HistoryInit /\ [][HistoryNext]_historyVars

-----------------------------------------------------------------------------
\* The state of each component stays what its module says it is.
RunComponentsTypeOK == StepTypeOK /\ ReasoningTypeOK /\ SubagentTypeOK /\ StateTypeOK

=============================================================================
