---------------------------- MODULE MCRunHistory ----------------------------
(***************************************************************************)
(* TLC instance of RunHistory: a stream draws from the events of one       *)
(* component, or from a few of each.  Two documents, a patch that applies  *)
(* to both and turns each into the other, and one that applies to d1 only. *)
(***************************************************************************)
EXTENDS RunHistory, TLC

CONSTANTS a, b, r1, s1, s2, d1, d2, swap, only1

Step(type, name, tag) == [type |-> type, stepName |-> name, subagentRunId |-> tag]

SomeStepEvents ==
  {Step("STEP_STARTED", a, None), Step("STEP_STARTED", a, s1), Step("STEP_STARTED", b, None),
   Step("STEP_FINISHED", a, s1), Step("STEP_FINISHED", b, None),
   Step("STEP_FINISHED", None, None)}

Event(type, m) == [type |-> type, messageId |-> m]
Chunk(m, empty) ==
  [type |-> "REASONING_MESSAGE_CHUNK", messageId |-> m, emptyDelta |-> empty]

SomeReasoningEvents ==
  {Event("REASONING_START", r1), Event("REASONING_END", r1),
   Event("REASONING_MESSAGE_START", r1), Event("REASONING_MESSAGE_CONTENT", r1),
   Event("REASONING_MESSAGE_END", r1),
   Chunk(r1, FALSE), Chunk(None, FALSE), Chunk(None, TRUE)}

Started(s, parent) ==
  [type |-> "SUBAGENT_STARTED", subagentRunId |-> s, parentSubagentRunId |-> parent]
Finished(s, suspended) ==
  [type |-> "SUBAGENT_FINISHED", subagentRunId |-> s, suspended |-> suspended]
Failed(s) == [type |-> "SUBAGENT_ERROR", subagentRunId |-> s]

SomeSubagentEvents ==
  {Started(s1, None), Started(s1, s1), Started(s1, s2), Started(s2, None), Started(None, s1),
   Finished(s1, TRUE), Finished(s1, FALSE), Failed(s1)}

Outcomes ==
  (<<d1, swap>> :> d2) @@ (<<d2, swap>> :> d1) @@
  (<<d1, only1>> :> d1) @@ (<<d2, only1>> :> None)

AllStateEvents == StateEvents

\* What crosses components: a tagged step, a chunk stream any other event ends,
\* and a delta that may be refused.
Mixed ==
  {Step("STEP_STARTED", a, s1), Started(s1, None), Chunk(r1, FALSE), Chunk(None, FALSE),
   [type |-> "STATE_SNAPSHOT", snapshot |-> d2], [type |-> "STATE_DELTA", delta |-> only1]}

SomeAlphabets ==
  {SomeStepEvents, SomeReasoningEvents, SomeSubagentEvents, AllStateEvents, Mixed}

=============================================================================
