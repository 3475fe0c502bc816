--------------------------- MODULE MCToolHistory ---------------------------
(***************************************************************************)
(* TLC instance of ToolHistory: a selection of tool call events that covers *)
(* every rule, since a run that remembers its stream merges no states.     *)
(***************************************************************************)
EXTENDS ToolHistory, TLC

CONSTANTS c1, c2, m1, s1, lb, rb

Start(c, parent, tag) ==
  [type |-> "TOOL_CALL_START", toolCallId |-> c, parentMessageId |-> parent,
   subagentRunId |-> tag]
Args(c, delta) ==
  [type |-> "TOOL_CALL_ARGS", toolCallId |-> c, delta |-> delta, subagentRunId |-> None]
End(c, tag) == [type |-> "TOOL_CALL_END", toolCallId |-> c, subagentRunId |-> tag]
Result(c, m) == [type |-> "TOOL_CALL_RESULT", toolCallId |-> c, messageId |-> m]
Chunk(c, delta, named) ==
  [type |-> "TOOL_CALL_CHUNK", toolCallId |-> c, delta |-> delta, named |-> named]

SomeToolEvents ==
  {Start(c1, m1, None), Start(c1, None, s1), Args(c1, lb), End(c1, s1),
   Result(c1, m1), Chunk(c1, rb, TRUE), Chunk(c2, lb, FALSE), Chunk(None, rb, FALSE)}

BraceTexts == {<<lb, rb>>}
OneMessage == {<<m1, s1>>}
OneHistory == {<<{}, {c1}>>}

=============================================================================
